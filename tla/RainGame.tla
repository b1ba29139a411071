------------------------------ MODULE RainGame ------------------------------
(***************************************************************************)
(* A round of the game (game_logic.c): the main thread that reads keys,    *)
(* spawns words and reaps their threads, and one thread per falling word.  *)
(* They share the words array and the table of texts on the screen (under  *)
(* words_mutex), and score, lives and game_is_over (under                  *)
(* game_state_mutex).  Ctrl+C sets a flag at any time.                     *)
(*                                                                         *)
(* Grain: an action is one critical section.  Main joins threads while it  *)
(* holds words_mutex, so that section is several actions, during which no  *)
(* thread can take the mutex.  Time is not modelled: a word's drop         *)
(* interval, and the spawn interval, elapse whenever they like.            *)
(***************************************************************************)
EXTENDS Integers, FiniteSets

CONSTANTS
  MaxWords,       \* MAX_WORDS, the length of the words array
  Pick,           \* words of the word list
  Text,           \* texts on the screen
  NoText,         \* the empty text of a cleared slot
  Long,           \* picks longer than MAX_WORD_LEN - 1 characters
  Shown,          \* the text of a pick, cut to MAX_WORD_LEN - 1 characters
  Length,         \* strlen of a text
  WordType,       \* which of "normal", "kill", "bonus" are drawn
  BonusPoints,    \* 50
  Height,         \* GAME_AREA_HEIGHT
  InitialLives,   \* INITIAL_LIVES
  MaxSpawns,      \* words spawned in a round (bound)
  MayExhaust,     \* may every try of spawn_word pick a word that is falling?
  CreateMayFail,  \* may pthread_create fail?
  Timely          \* do the word threads, which look every 8 ms, leave before
                  \* main, which sleeps 30 ms after game over, starts to clean up?

ASSUME WordAssumption ==
  /\ NoText \notin Text
  /\ Long \subseteq Pick
  /\ Shown \in [Pick -> Text]
  /\ Length \in [Text -> Nat]
  /\ WordType \subseteq {"normal", "kill", "bonus"}
  /\ BonusPoints \in Nat

ASSUME BoundsAssumption ==
  /\ MaxWords \in Nat \ {0}
  /\ Height \in Nat \ {0}
  /\ InitialLives \in Nat \ {0}
  /\ MaxSpawns \in Nat

ASSUME ChoicesAssumption == {MayExhaust, CreateMayFail, Timely} \subseteq BOOLEAN

VARIABLES
  words,   \* the words array; tid says whether thread_id is non-zero
  table,   \* g_active_words: the texts taken to be on the screen
  over,    \* game_is_over
  score,   \* current_game_score
  lives,   \* current_game_lives
  sig,     \* sigint_game_exit_requested
  th,      \* where the thread of each slot is; "none" if there is none
  mpc,     \* where the main thread is
  last,    \* loop_condition_check_game_over: this is the last iteration
  typed,   \* the text just entered
  hit,     \* target_idx and the type read before words_mutex is released
  \* History of a round, for the properties only:
  spawned, \* words spawned
  settled, \* words hit, landed or given up
  earned,  \* points of the words hit
  late     \* words scored after game over

seen == <<spawned, settled, earned, late>>
vars == <<words, table, over, score, lives, sig, th, mpc, last, typed, hit, seen>>

-----------------------------------------------------------------------------
Slot == 1..MaxWords

Word == [text : Text \cup {NoText}, y : 0..Height, active : BOOLEAN,
         to_remove : BOOLEAN, wtype : {"normal", "kill", "bonus"}, tid : BOOLEAN]

NoWord == [text |-> NoText, y |-> 0, active |-> FALSE,
           to_remove |-> FALSE, wtype |-> "normal", tid |-> FALSE]

ThreadPCs == {"none", "top", "read", "check", "drop", "exit", "finishing", "done"}
MainPCs == {"off", "top", "input", "match", "score", "can_spawn", "spawn",
            "reap", "reaping", "waitkey", "mark", "join", "joining", "destroy"}

NoHit == [slot |-> 0, wtype |-> "normal"]

\* Main keeps words_mutex while it joins.
LockFree == mpc \notin {"reaping", "joining"}

Active == {i \in Slot : words[i].active}

\* remove_active_word, and add_active_word on a table that may hold the text.
MutOffTable(t) == table
OffTable(t) == table \ {t}
OnTable(t) == table \cup {t}

\* A word one row lower, and at the bottom.
Lowered(w) == [w EXCEPT !.y = @ + 1]
Landed(w) ==
  [text |-> w.text, y |-> w.y + 1, active |-> FALSE,
   to_remove |-> w.to_remove, wtype |-> w.wtype, tid |-> w.tid]

\* What a thread that leaves makes of its slot.
GivenBack(w) ==
  [text |-> w.text, y |-> w.y, active |-> FALSE,
   to_remove |-> TRUE, wtype |-> w.wtype, tid |-> w.tid]

\* What a word that is hit becomes: its thread flags the slot when it leaves.
MutTaken(w) == GivenBack(w)
Taken(w) == [w EXCEPT !.active = FALSE]

\* What safe_game_cleanup makes of each slot before it joins.
MutMarked(w) == w
Marked(w) == [w EXCEPT !.to_remove = @ \/ w.tid]

\* What a joined thread's slot is reset to.
MutCleared(w) ==
  [text |-> NoText, y |-> w.y, active |-> FALSE,
   to_remove |-> w.to_remove, wtype |-> w.wtype, tid |-> w.tid]
Cleared(w) ==
  [text |-> NoText, y |-> w.y, active |-> FALSE,
   to_remove |-> FALSE, wtype |-> w.wtype, tid |-> FALSE]

\* A slot that holds a new word, with or without a thread.
Fresh(t, kind, created) ==
  [text |-> t, y |-> 0, active |-> created,
   to_remove |-> FALSE, wtype |-> kind, tid |-> created]

Points(t, kind) ==
  IF kind = "kill" THEN 0
  ELSE Length[t] + (IF kind = "bonus" THEN BonusPoints ELSE 0)

-----------------------------------------------------------------------------
Init ==
  /\ words = [i \in Slot |-> NoWord]
  /\ table = {}
  /\ over = FALSE
  /\ score = 0
  /\ lives = InitialLives
  /\ sig = FALSE
  /\ th = [i \in Slot |-> "none"]
  /\ mpc = "off"
  /\ last = FALSE
  /\ typed = NoText
  /\ hit = NoHit
  /\ spawned = 0 /\ settled = 0 /\ earned = 0 /\ late = 0

\* run_rain_typing_game begins: the globals are reset, the table is made anew.
\* client_main.c has cleared the Ctrl+C flag.
StartGame ==
  /\ mpc = "off"
  /\ mpc' = "top"
  /\ words' = [i \in Slot |-> NoWord]
  /\ table' = {}
  /\ over' = FALSE
  /\ score' = 0
  /\ lives' = InitialLives
  /\ sig' = FALSE
  /\ last' = FALSE
  /\ typed' = NoText
  /\ hit' = NoHit
  /\ spawned' = 0 /\ settled' = 0 /\ earned' = 0 /\ late' = 0
  /\ UNCHANGED th

\* handle_sigint while is_game_running.
Interrupt ==
  /\ mpc # "off"
  /\ ~sig
  /\ sig' = TRUE
  /\ UNCHANGED <<words, table, over, score, lives, th, mpc, last, typed, hit, seen>>

-----------------------------------------------------------------------------
(* The thread of a word: word_thread_func.                                 *)

Step(i, from, to) == th[i] = from /\ th' = [th EXCEPT ![i] = to]

\* A pending Ctrl+C ends the game.
ThreadTop(i) ==
  /\ Step(i, "top", "read")
  /\ over' = (over \/ sig)
  /\ UNCHANGED <<words, table, score, lives, sig, mpc, last, typed, hit, seen>>

ReadActive(i) ==
  /\ LockFree
  /\ Step(i, "read", IF words[i].active THEN "check" ELSE "exit")
  /\ UNCHANGED <<words, table, over, score, lives, sig, mpc, last, typed, hit, seen>>

\* The word was active; the game may be over by now.
ReadOver(i) ==
  /\ over
  /\ Step(i, "check", "exit")
  /\ UNCHANGED <<words, table, over, score, lives, sig, mpc, last, typed, hit, seen>>

\* The drop interval has elapsed, or not: the thread sleeps and looks again.
MutDropDue(i) ==
  /\ FALSE
  /\ UNCHANGED vars

DropDue(i) ==
  /\ ~over
  /\ Step(i, "check", "drop")
  /\ UNCHANGED <<words, table, over, score, lives, sig, mpc, last, typed, hit, seen>>

DropNotDue(i) ==
  /\ ~over
  /\ Step(i, "check", "top")
  /\ UNCHANGED <<words, table, over, score, lives, sig, mpc, last, typed, hit, seen>>

MutLands(i) == words[i].y + 1 > Height
Lands(i) == words[i].y + 1 >= Height

MutLivesAfterLanding(i) ==
  IF words[i].wtype = "kill" THEN lives ELSE lives - 1
LivesAfterLanding(i) ==
  IF over \/ words[i].wtype = "kill" THEN lives ELSE lives - 1

\* The word may have been hit since it was read as active.
MutMayDrop(i) == TRUE
MayDrop(i) == words[i].active

Drop(i) ==
  /\ LockFree
  /\ Step(i, "drop", "top")
  /\ \/ ~MayDrop(i) /\ UNCHANGED <<words, table, over, lives, settled>>
     \/ /\ MayDrop(i) /\ ~Lands(i)
        /\ words' = [words EXCEPT ![i] = Lowered(@)]
        /\ UNCHANGED <<table, over, lives, settled>>
     \/ /\ MayDrop(i) /\ Lands(i)
        /\ words' = [words EXCEPT ![i] = Landed(@)]
        /\ table' = OffTable(words[i].text)
        /\ lives' = LivesAfterLanding(i)
        /\ over' = (over \/ lives' <= 0)
        /\ settled' = settled + 1
  /\ UNCHANGED <<score, sig, mpc, last, typed, hit, spawned, earned, late>>

\* After the loop: the slot is given back, and its text taken off the table a
\* second time when the word had been hit or had landed.
LeaveLoop(i) ==
  /\ LockFree
  /\ Step(i, "exit", "finishing")
  /\ words' = [words EXCEPT ![i] = GivenBack(@)]
  /\ table' = OffTable(words[i].text)
  /\ settled' = IF words[i].active THEN settled + 1 ELSE settled
  /\ UNCHANGED <<over, score, lives, sig, mpc, last, typed, hit>>
  /\ UNCHANGED <<spawned, earned, late>>

Return(i) ==
  /\ Step(i, "finishing", "done")
  /\ UNCHANGED <<words, table, over, score, lives, sig, mpc, last, typed, hit, seen>>

WordThread(i) ==
  \/ ThreadTop(i) \/ ReadActive(i) \/ ReadOver(i) \/ DropNotDue(i) \/ DropDue(i)
  \/ Drop(i) \/ LeaveLoop(i) \/ Return(i)

-----------------------------------------------------------------------------
(* The main thread: the loop of run_rain_typing_game.                      *)

MainAt(step) == mpc = step

MutIsLast == sig
IsLast == over'

\* Ctrl+C ends the game; the loop condition is read for the next iteration.
LoopTop ==
  /\ MainAt("top")
  /\ mpc' = "input"
  /\ over' = (over \/ sig)
  /\ last' = IsLast
  /\ UNCHANGED <<words, table, score, lives, sig, th, typed, hit, seen>>

\* getch returns nothing, or a key that does not end a word.
NoInput ==
  /\ MainAt("input")
  /\ mpc' = "can_spawn"
  /\ UNCHANGED <<words, table, over, score, lives, sig, th, last, typed, hit, seen>>

AcceptsInput == ~over

\* process_game_input gets the key that ends a word, and the game is not over.
EnterWord(t) ==
  /\ MainAt("input")
  /\ AcceptsInput
  /\ mpc' = "match"
  /\ typed' = t
  /\ UNCHANGED <<words, table, over, score, lives, sig, th, last, hit, seen>>

Priority(kind) == IF kind = "kill" THEN 0 ELSE IF kind = "bonus" THEN 1 ELSE 2

Candidates(t) == {i \in Active : words[i].text = t}

\* The scan keeps the first of the best: kill before bonus before normal, then
\* the lowest on the screen.
BetterTarget(i, j) ==
  LET p == Priority(words[i].wtype)
      q == Priority(words[j].wtype)
  IN  \/ p < q
      \/ p = q /\ words[i].y > words[j].y
      \/ p = q /\ words[i].y = words[j].y /\ i <= j

IsTarget(i, t) ==
  i \in Candidates(t) /\ \A j \in Candidates(t) : BetterTarget(i, j)

Match ==
  /\ MainAt("match")
  /\ typed' = NoText
  /\ \/ /\ Candidates(typed) = {}
        /\ mpc' = "can_spawn"
        /\ UNCHANGED <<words, table, hit, settled, earned>>
     \/ \E i \in Slot :
          /\ IsTarget(i, typed)
          /\ mpc' = "score"
          /\ hit' = [slot |-> i, wtype |-> words[i].wtype]
          /\ words' = [words EXCEPT ![i] = Taken(@)]
          /\ table' = OffTable(words[i].text)
          /\ settled' = settled + 1
          /\ earned' = earned + Points(typed, words[i].wtype)
  /\ UNCHANGED <<over, score, lives, sig, th, last, spawned, late>>

MutHitPoints == Length[words[hit.slot].text]
HitPoints == Points(words[hit.slot].text, hit.wtype)

\* words_mutex has been released since: the length is that of the text the slot
\* has by now, and the game may have ended.
ScoreHit ==
  /\ MainAt("score")
  /\ mpc' = "can_spawn"
  /\ over' = (over \/ hit.wtype = "kill")
  /\ score' = score + HitPoints
  /\ hit' = NoHit
  /\ late' = IF over THEN late + 1 ELSE late
  /\ UNCHANGED <<words, table, lives, sig, th, last, typed>>
  /\ UNCHANGED <<spawned, settled, earned>>

MaySpawn == ~over

\* The game goes on and the spawn interval has elapsed, or not.
CanSpawn ==
  /\ MainAt("can_spawn")
  /\ \/ MaySpawn /\ spawned < MaxSpawns /\ mpc' = "spawn"
     \/ mpc' = "reap"
  /\ UNCHANGED <<words, table, over, score, lives, sig, th, last, typed, hit, seen>>

-----------------------------------------------------------------------------
(* spawn_word.                                                             *)

Reusable(i) == ~words[i].tid \/ words[i].to_remove
IsFirst(i, S) == i \in S /\ \A j \in S : i <= j

\* is_word_in_active_table compares the whole pick with texts that were cut.
LooksFree(p) == p \in Long \/ Shown[p] \notin table

MayBePicked(p) == LooksFree(p) \/ MayExhaust \/ \A q \in Pick : ~LooksFree(q)

Spawn ==
  /\ MainAt("spawn")
  /\ mpc' = "reap"
  /\ \E i \in Slot, p \in Pick, kind \in WordType :
       /\ IsFirst(i, {j \in Slot : Reusable(j)})
       /\ MayBePicked(p)
       /\ words' = [words EXCEPT ![i] = Fresh(Shown[p], kind, TRUE)]
       /\ table' = OnTable(Shown[p])
       /\ th' = [th EXCEPT ![i] = "top"]
  /\ spawned' = spawned + 1
  /\ UNCHANGED <<over, score, lives, sig, last, typed, hit, settled, earned, late>>

\* pthread_create fails: the slot is free again, and the text off the table.
SpawnFails ==
  /\ MainAt("spawn")
  /\ CreateMayFail
  /\ mpc' = "reap"
  /\ \E i \in Slot, p \in Pick, kind \in WordType :
       /\ IsFirst(i, {j \in Slot : Reusable(j)})
       /\ MayBePicked(p)
       /\ words' = [words EXCEPT ![i] = Fresh(Shown[p], kind, FALSE)]
       /\ table' = OffTable(Shown[p])
       /\ th' = [th EXCEPT ![i] = "none"]
  /\ UNCHANGED <<over, score, lives, sig, last, typed, hit>>
  /\ UNCHANGED <<spawned, settled, earned, late>>

\* Every slot is taken by a word whose thread is in its loop.
NoSlot ==
  /\ MainAt("spawn")
  /\ \A i \in Slot : ~Reusable(i)
  /\ mpc' = "reap"
  /\ UNCHANGED <<words, table, over, score, lives, sig, th, last, typed, hit, seen>>

-----------------------------------------------------------------------------
(* Joining threads under words_mutex: cleanup_finished_threads in the loop, *)
(* safe_game_cleanup after it.                                             *)

ToJoin == {i \in Slot : words[i].tid /\ words[i].to_remove}

\* pthread_join on the next flagged slot: main waits until that thread returns.
JoinNext ==
  /\ mpc \in {"reaping", "joining"}
  /\ \E i \in Slot :
       /\ IsFirst(i, ToJoin)
       /\ Step(i, "done", "none")
       /\ words' = [words EXCEPT ![i] = Cleared(@)]
  /\ UNCHANGED <<table, over, score, lives, sig, mpc, last, typed, hit, seen>>

Goto(step) ==
  /\ mpc' = step
  /\ UNCHANGED <<words, table, over, score, lives, sig, th, last, typed, hit, seen>>

BeginReap == MainAt("reap") /\ Goto("reaping")

EndReap ==
  /\ MainAt("reaping")
  /\ ToJoin = {}
  /\ Goto(IF last THEN "waitkey" ELSE "top")

HasLeft(i) == th[i] \in {"none", "finishing", "done"}

\* A key (perhaps typed during the game), or Ctrl+C.
KeyPressed ==
  /\ MainAt("waitkey")
  /\ Timely => \A i \in Slot : HasLeft(i)
  /\ Goto("mark")

\* Every slot with a thread is flagged, whether its thread has left or not.
MarkAll ==
  /\ MainAt("mark")
  /\ mpc' = "join"
  /\ words' = [i \in Slot |-> Marked(words[i])]
  /\ UNCHANGED <<table, over, score, lives, sig, th, last, typed, hit, seen>>

BeginJoin == MainAt("join") /\ Goto("joining")

EndJoin == MainAt("joining") /\ ToJoin = {} /\ Goto("destroy")

\* The mutexes are destroyed and the table is emptied; the round is over.
Destroy ==
  /\ MainAt("destroy")
  /\ mpc' = "off"
  /\ table' = {}
  /\ UNCHANGED <<words, over, score, lives, sig, th, last, typed, hit, seen>>

-----------------------------------------------------------------------------
MainLoop ==
  \/ LoopTop \/ NoInput \/ (\E t \in Text : EnterWord(t)) \/ Match \/ ScoreHit
  \/ CanSpawn \/ Spawn \/ SpawnFails \/ NoSlot \/ BeginReap \/ JoinNext \/ EndReap

CleanUp == MarkAll \/ BeginJoin \/ EndJoin \/ Destroy

Next ==
  \/ StartGame \/ Interrupt \/ MainLoop \/ KeyPressed \/ CleanUp
  \/ \E i \in Slot : WordThread(i)

Spec == Init /\ [][Next]_vars

\* Main and the word threads are scheduled.  Strong fairness where a thread
\* needs words_mutex: main lets go of it for 30 ms in each iteration.  A drop
\* that is due again and again is not put off for ever: the clock runs.
FairSpec ==
  /\ Spec
  /\ WF_vars(MainLoop) /\ WF_vars(CleanUp)
  /\ \A i \in Slot :
       /\ WF_vars(ThreadTop(i)) /\ WF_vars(ReadOver(i)) /\ WF_vars(Return(i))
       /\ SF_vars(ReadActive(i)) /\ SF_vars(Drop(i)) /\ SF_vars(LeaveLoop(i))
       /\ SF_vars(DropDue(i))

-----------------------------------------------------------------------------
(* Properties.                                                             *)

\* Every variable stays in its range; a hit is pending exactly while main is
\* between its two critical sections.
TypeOK ==
  /\ words \in [Slot -> Word]
  /\ table \subseteq Text
  /\ over \in BOOLEAN
  /\ score \in Nat
  /\ lives \in Int
  /\ sig \in BOOLEAN
  /\ th \in [Slot -> ThreadPCs]
  /\ mpc \in MainPCs
  /\ last \in BOOLEAN
  /\ typed \in Text \cup {NoText}
  /\ hit \in [slot : 0..MaxWords, wtype : {"normal", "kill", "bonus"}]
  /\ {spawned, settled, earned, late} \subseteq Nat

\* No text is held as falling that is not on the screen: every way a word can
\* leave the screen (hit, landed, given up, never started) takes it off the
\* table, so a word that has left can be picked again.
NoStaleEntry == \A t \in table : \E i \in Active : words[i].text = t

\* Each spawned word is settled once: the thread that drops it and the player
\* who hits it may race, and only one of them may count it.
EveryWordSettledOnce ==
  settled + Cardinality(Active) = spawned

\* The score is what the words hit were worth when they were hit, although
\* main reads their length after it has released the words array.
ScoreIsEarned == mpc # "score" => score = earned

\* Lives never go below zero however many words land at once, and none are left
\* only when the game is over.
GameOverAtZeroLives == lives >= 0 /\ (lives = 0 => over)

\* A word can be scored after the game is over, because process_game_input reads
\* game_is_over before it takes the word, but only one.
OneLateScore == late <= 1

\* While words are spawned and reaped, a flagged slot's thread has left its last
\* critical section: its slot can be reused, and main, which joins it while it
\* holds words_mutex, does not wait for a thread that waits for words_mutex.
FlaggedThreadsHaveLeft ==
  mpc \notin {"join", "joining"} => \A i \in ToJoin : HasLeft(i)

\* When a round is over no word thread is left that would use a destroyed mutex,
\* or a slot of the next round.
NoThreadOutlivesRound == mpc = "off" => \A i \in Slot : th[i] = "none"

\* The inductive invariant of a round: the parts that the properties above need
\* and do not say.
\*
\* A word on the screen has not reached the bottom, has a text, and has a thread
\* in its loop.
WordShape ==
  \A i \in Slot : words[i].active =>
    /\ words[i].y < Height
    /\ words[i].text \in Text
    /\ words[i].tid
    /\ ~HasLeft(i)

\* thread_id is non-zero exactly while there is a thread, every thread is flagged
\* when main joins for the last time, and none is left after that.
ThreadShape ==
  /\ \A i \in Slot : words[i].tid <=> th[i] # "none"
  /\ mpc \in {"join", "joining"} => \A i \in Slot : words[i].tid => words[i].to_remove
  /\ mpc \in {"destroy", "off"} => \A i \in Slot : ~words[i].tid

\* What main carries from one critical section to the next.
MainShape ==
  /\ mpc = "match" => typed \in Text
  /\ mpc = "score" =>
       /\ hit.slot \in Slot
       /\ words[hit.slot].text \in Text
       /\ earned = score + HitPoints
  /\ mpc \in {"match", "score"} => late = 0
  /\ ~over => late = 0

RoundInvariant ==
  /\ WordShape /\ ThreadShape /\ MainShape
  /\ NoStaleEntry /\ EveryWordSettledOnce /\ ScoreIsEarned
  /\ GameOverAtZeroLives /\ OneLateScore /\ FlaggedThreadsHaveLeft

\* The round keeps what GameRound promises the player: threads, slots and the
\* critical sections of main hide behind words, score, lives and game over.
Doing ==
  IF mpc = "match" THEN "entry" ELSE IF mpc = "score" THEN "scoring"
  ELSE IF mpc = "spawn" THEN "spawn" ELSE "nothing"

Round == INSTANCE GameRound WITH
  Room <- MaxWords,
  Worth <- {Length[t] : t \in Text} \cup {Length[t] + BonusPoints : t \in Text},
  falling <- Cardinality(Active),
  doing <- Doing

ImplementsGameRound == Round!Spec

\* A word falls for as long as it is not hit, and no longer than the game lasts:
\* its thread ends the fall whatever main does with words_mutex.
WordsDoNotHang == \A i \in Slot : words[i].active ~> ~words[i].active

\* Main gets out of cleanup_finished_threads although it joins threads while it
\* holds the mutex they use.
ReapingEnds == mpc = "reaping" ~> mpc # "reaping"

\* Game over is noticed: main comes to the prompt at the end of the round.
GameOverIsShown == over ~> mpc \in {"waitkey", "off"}

\* A round the player has dismissed returns to the menu.
GameReturns == mpc = "mark" ~> mpc = "off"

-----------------------------------------------------------------------------
(* Statements of the documentation and the comments the code does not keep. *)

\* game_logic.c:347, README.md:33: the table keeps a word from being spawned
\* while it is falling.
NoDuplicateWord ==
  \A i, j \in Active : words[i].text = words[j].text => i = j

=============================================================================
