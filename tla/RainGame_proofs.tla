--------------------------- MODULE RainGame_proofs ---------------------------
(***************************************************************************)
(* Proofs about RainGame, for every number of slots, every word list and   *)
(* every height.  RoundInvariant is inductive together with TypeOK; its    *)
(* parts are preserved in the groups the proofs below take them in:        *)
(*   TypeStep     TypeOK                                                   *)
(*   ThreadStep   what an active word, a flag and a thread say of each     *)
(*                other (WordShape, ThreadShape, FlaggedThreadsHaveLeft)   *)
(*   CounterStep  lives, and words scored late                             *)
(*   MainStep     what main carries between its two critical sections      *)
(*   TableStep    the table of texts                                       *)
(*   SettledStep  the number of words on the screen                        *)
(***************************************************************************)
EXTENDS RainGame, Loops, TLAPS, FiniteSetTheorems

-----------------------------------------------------------------------------
(* The type invariant.                                                     *)

\* What a thread or main makes of a slot is a slot.
LEMMA WordOps ==
  ASSUME NEW w \in Word
  PROVE  /\ Taken(w) \in Word /\ GivenBack(w) \in Word
         /\ Marked(w) \in Word /\ Cleared(w) \in Word
  BY BoundsAssumption DEF Word, Taken, GivenBack, Marked, Cleared

\* A word that has not reached the bottom can fall one row.
LEMMA DropOps ==
  ASSUME NEW w \in Word, w.y < Height
  PROVE  Lowered(w) \in Word /\ Landed(w) \in Word
<1>1. w.y + 1 \in 0..Height
  BY BoundsAssumption DEF Word
<1>2. QED
  BY <1>1 DEF Word, Lowered, Landed

\* A slot that is empty, or has just been filled, is a slot.
LEMMA NewWords ==
  /\ NoWord \in Word
  /\ \A t \in Text, kind \in WordType, created \in BOOLEAN :
       Fresh(t, kind, created) \in Word
<1>1. NoWord \in Word
  BY BoundsAssumption DEF Word, NoWord
<1>2. ASSUME NEW t \in Text, NEW kind \in WordType, NEW created \in BOOLEAN
      PROVE  Fresh(t, kind, created) \in Word
  BY WordAssumption, BoundsAssumption DEF Word, Fresh
<1>3. QED
  BY <1>1, <1>2

\* A hit is worth a natural number of points.
LEMMA PointsType ==
  ASSUME NEW t \in Text, NEW kind
  PROVE  Points(t, kind) \in Nat
  BY WordAssumption DEF Points

\* Every step keeps the variables in their ranges.
LEMMA TypeStep ==
  ASSUME TypeOK, WordShape, MainShape, [Next]_vars
  PROVE  TypeOK'
<1> USE BoundsAssumption DEF TypeOK, MainPCs, ThreadPCs, seen

<1>1. CASE StartGame
  <2>1. words' \in [Slot -> Word]
    BY <1>1, NewWords DEF StartGame
  <2>2. hit' \in [slot : 0..MaxWords, wtype : {"normal", "kill", "bonus"}]
    BY <1>1 DEF StartGame, NoHit
  <2>3. over' \in BOOLEAN /\ sig' \in BOOLEAN /\ last' \in BOOLEAN
    BY <1>1 DEF StartGame
  <2>4. {spawned', settled', earned', late'} \subseteq Nat
    BY <1>1 DEF StartGame
  <2>5. /\ table' \subseteq Text /\ typed' \in Text \cup {NoText}
        /\ score' \in Nat /\ lives' \in Int
        /\ th' \in [Slot -> ThreadPCs] /\ mpc' \in MainPCs
    BY <1>1 DEF StartGame
  <2>6. QED
    BY <2>1, <2>2, <2>3, <2>4, <2>5
<1>2. CASE Interrupt
  BY <1>2 DEF Interrupt
<1>3. CASE LoopTop
  BY <1>3 DEF LoopTop, IsLast
<1>4. CASE NoInput \/ CanSpawn \/ NoSlot \/ BeginReap \/ EndReap \/ KeyPressed
      \/ BeginJoin \/ EndJoin
  BY <1>4 DEF NoInput, CanSpawn, NoSlot, BeginReap, EndReap, KeyPressed,
     BeginJoin, EndJoin, Goto
<1>5. ASSUME NEW t \in Text, EnterWord(t) PROVE TypeOK'
  BY <1>5 DEF EnterWord
<1>6. CASE Match
  <2>1. CASE UNCHANGED <<words, table, hit, settled, earned>>
    BY <1>6, <2>1 DEF Match
  <2>2. ASSUME NEW i \in Slot,
               hit' = [slot |-> i, wtype |-> words[i].wtype],
               words' = [words EXCEPT ![i] = Taken(@)],
               table' = OffTable(words[i].text),
               settled' = settled + 1,
               earned' = earned + Points(typed, words[i].wtype),
               mpc' = "score"
        PROVE  TypeOK'
    <3>1. words' \in [Slot -> Word]
      BY <2>2, WordOps
    <3>2. hit' \in [slot : 0..MaxWords, wtype : {"normal", "kill", "bonus"}]
      BY <2>2 DEF Word, Slot
    <3>3. Points(typed, words[i].wtype) \in Nat
      BY <1>6, PointsType DEF MainShape, Match, MainAt
    <3>4. settled' \in Nat /\ earned' \in Nat
      BY <2>2, <3>3
    <3>5. table' \subseteq Text /\ typed' = NoText /\ mpc' \in MainPCs
      BY <1>6, <2>2 DEF Match, OffTable
    <3>6. UNCHANGED <<over, score, lives, sig, th, last, spawned, late>>
      BY <1>6 DEF Match
    <3>7. QED
      BY <3>1, <3>2, <3>4, <3>5, <3>6
  <2>3. QED
    BY <1>6, <2>1, <2>2 DEF Match
<1>7. CASE ScoreHit
  <2>1. hit' \in [slot : 0..MaxWords, wtype : {"normal", "kill", "bonus"}]
    BY <1>7 DEF ScoreHit, NoHit
  <2>2. score' \in Nat
    BY <1>7, PointsType DEF ScoreHit, MainAt, MainShape, HitPoints
  <2>3. over' \in BOOLEAN /\ late' \in Nat
    BY <1>7 DEF ScoreHit
  <2>4. mpc' = "can_spawn" /\ UNCHANGED <<words, table, lives, sig, th, last, typed>>
    BY <1>7 DEF ScoreHit
  <2>5. UNCHANGED <<spawned, settled, earned>>
    BY <1>7 DEF ScoreHit
  <2>6. QED
    BY <2>1, <2>2, <2>3, <2>4, <2>5
<1>8. CASE Spawn
  <2>1. PICK i \in Slot, p \in Pick, kind \in WordType :
          words' = [words EXCEPT ![i] = Fresh(Shown[p], kind, TRUE)]
    BY <1>8 DEF Spawn
  <2>2. words' \in [Slot -> Word]
    BY <2>1, NewWords, WordAssumption
  <2>3. th' \in [Slot -> ThreadPCs] /\ table' \subseteq Text
    BY <1>8, WordAssumption DEF Spawn, OnTable
  <2>4. spawned' \in Nat
    BY <1>8 DEF Spawn
  <2>5. mpc' = "reap" /\ UNCHANGED <<over, score, lives, sig, last, typed, hit>>
    BY <1>8 DEF Spawn
  <2>6. UNCHANGED <<settled, earned, late>>
    BY <1>8 DEF Spawn
  <2>7. QED
    BY <2>2, <2>3, <2>4, <2>5, <2>6
<1>9. CASE SpawnFails
  <2>1. PICK i \in Slot, p \in Pick, kind \in WordType :
          words' = [words EXCEPT ![i] = Fresh(Shown[p], kind, FALSE)]
    BY <1>9 DEF SpawnFails
  <2>2. words' \in [Slot -> Word]
    BY <2>1, NewWords, WordAssumption
  <2>3. th' \in [Slot -> ThreadPCs] /\ table' \subseteq Text
    BY <1>9, WordAssumption DEF SpawnFails, OffTable
  <2>4. spawned' \in Nat
    BY <1>9 DEF SpawnFails
  <2>5. mpc' = "reap" /\ UNCHANGED <<over, score, lives, sig, last, typed, hit>>
    BY <1>9 DEF SpawnFails
  <2>6. UNCHANGED <<settled, earned, late>>
    BY <1>9 DEF SpawnFails
  <2>7. QED
    BY <2>2, <2>3, <2>4, <2>5, <2>6
<1>10. CASE JoinNext
  BY <1>10, WordOps DEF JoinNext, Step
<1>11. CASE MarkAll
  BY <1>11, WordOps DEF MarkAll
<1>12. CASE Destroy
  BY <1>12 DEF Destroy
<1>13. ASSUME NEW i \in Slot, ThreadTop(i) \/ ReadActive(i) \/ ReadOver(i) \/
      DropNotDue(i) \/ DropDue(i) \/ Return(i) PROVE TypeOK'
  BY <1>13 DEF ThreadTop, ReadActive, ReadOver, DropNotDue, DropDue, Return,
     Step
<1>14. ASSUME NEW i \in Slot, Drop(i) PROVE TypeOK'
  <2>1. words' \in [Slot -> Word]
    BY <1>14, WordOps, DropOps DEF Drop, WordShape, MayDrop
  <2>2. lives' \in Int
    BY <1>14 DEF Drop, LivesAfterLanding
  <2>3. th' \in [Slot -> ThreadPCs]
    BY <1>14 DEF Drop, Step
  <2>4. over' \in BOOLEAN
    BY <1>14 DEF Drop
  <2>5. settled' \in Nat
    BY <1>14 DEF Drop
  <2>6. table' \subseteq Text
    BY <1>14 DEF Drop, OffTable
  <2>7. /\ UNCHANGED <<score, sig, mpc, last, typed, hit>>
        /\ UNCHANGED <<spawned, earned, late>>
    BY <1>14 DEF Drop
  <2>8. QED
    BY <2>1, <2>2, <2>3, <2>4, <2>5, <2>6, <2>7
<1>15. ASSUME NEW i \in Slot, LeaveLoop(i) PROVE TypeOK'
  BY <1>15, WordOps DEF LeaveLoop, Step, OffTable
<1>16. CASE UNCHANGED vars
  BY <1>16 DEF vars
<1>17. QED
  BY <1>1, <1>2, <1>3, <1>4, <1>5, <1>6, <1>7, <1>8, <1>9, <1>10, <1>11,
     <1>12, <1>13, <1>14, <1>15, <1>16
     DEF Next, MainLoop, CleanUp, WordThread

-----------------------------------------------------------------------------
(* Words, flags and threads.                                               *)

\* A slot that main may join, or give to a new word, holds no active word and
\* no thread that still needs words_mutex.
LEMMA ThreadStep ==
  ASSUME TypeOK, WordShape, ThreadShape, FlaggedThreadsHaveLeft, [Next]_vars
  PROVE  (WordShape /\ ThreadShape /\ FlaggedThreadsHaveLeft)'
<1> DEFINE Inv == WordShape /\ ThreadShape /\ FlaggedThreadsHaveLeft
<1> USE WordAssumption, BoundsAssumption
    DEF TypeOK, Word, WordShape, ThreadShape, FlaggedThreadsHaveLeft, HasLeft,
        ToJoin

<1>1. CASE StartGame
  BY <1>1 DEF StartGame, NoWord
<1>2. CASE Interrupt
  BY <1>2 DEF Interrupt
<1>3. CASE LoopTop
  BY <1>3 DEF LoopTop, MainAt
<1>4. CASE NoInput
  BY <1>4 DEF NoInput, MainAt
<1>5. ASSUME NEW t \in Text, EnterWord(t) PROVE Inv'
  BY <1>5 DEF EnterWord, MainAt
<1>6. CASE Match
  <2>1. mpc = "match" /\ mpc' \in {"can_spawn", "score"} /\ th' = th
    BY <1>6 DEF Match, MainAt
  <2>2. \/ words' = words
        \/ \E i \in Slot : words' = [words EXCEPT ![i] = Taken(@)]
    BY <1>6 DEF Match
  <2>3. \A j \in Slot : /\ words'[j].active => words[j].active
                      /\ words'[j].text = words[j].text
                      /\ words'[j].y = words[j].y
                      /\ words'[j].tid = words[j].tid
                      /\ words'[j].to_remove = words[j].to_remove
    BY <2>2 DEF Taken
  <2>4. WordShape'
    BY <2>1, <2>3
  <2>5. ThreadShape'
    BY <2>1, <2>3
  <2>6. FlaggedThreadsHaveLeft'
    BY <2>1, <2>3
  <2>7. QED
    BY <2>4, <2>5, <2>6
<1>7. CASE ScoreHit
  BY <1>7 DEF ScoreHit, MainAt
<1>8. CASE CanSpawn
  BY <1>8 DEF CanSpawn, MainAt
<1>9. CASE Spawn
  BY <1>9 DEF Spawn, MainAt, Fresh, IsFirst, Reusable
<1>10. CASE SpawnFails
  BY <1>10 DEF SpawnFails, MainAt, Fresh, IsFirst, Reusable
<1>11. CASE NoSlot
  BY <1>11 DEF NoSlot, MainAt
<1>12. CASE BeginReap
  BY <1>12 DEF BeginReap, MainAt, Goto
<1>13. CASE JoinNext
  BY <1>13 DEF JoinNext, Step, IsFirst, Cleared
<1>14. CASE EndReap
  BY <1>14 DEF EndReap, MainAt, Goto
<1>15. CASE KeyPressed
  BY <1>15 DEF KeyPressed, MainAt, Goto
<1>16. CASE MarkAll
  <2>1. mpc = "mark" /\ mpc' = "join" /\ th' = th
    BY <1>16 DEF MarkAll, MainAt
  <2>2. \A j \in Slot : /\ words'[j].active = words[j].active
                      /\ words'[j].text = words[j].text
                      /\ words'[j].y = words[j].y
                      /\ words'[j].tid = words[j].tid
    BY <1>16 DEF MarkAll, Marked
  <2>3. \A j \in Slot : words[j].tid => words'[j].to_remove
    BY <1>16 DEF MarkAll, Marked
  <2>4. WordShape'
    BY <2>1, <2>2 DEF WordShape, HasLeft
  <2>5. ThreadShape'
    BY <2>1, <2>2, <2>3 DEF ThreadShape
  <2>6. FlaggedThreadsHaveLeft'
    BY <2>1 DEF FlaggedThreadsHaveLeft
  <2>7. QED
    BY <2>4, <2>5, <2>6
<1>17. CASE BeginJoin
  BY <1>17 DEF BeginJoin, MainAt, Goto
<1>18. CASE EndJoin
  BY <1>18 DEF EndJoin, MainAt, Goto
<1>19. CASE Destroy
  BY <1>19 DEF Destroy, MainAt
<1>20. ASSUME NEW i \in Slot, ThreadTop(i) PROVE Inv'
  BY <1>20 DEF ThreadTop, Step
<1>21. ASSUME NEW i \in Slot, ReadActive(i) PROVE Inv'
  BY <1>21 DEF ReadActive, Step, LockFree
<1>22. ASSUME NEW i \in Slot, ReadOver(i) PROVE Inv'
  BY <1>22 DEF ReadOver, Step
<1>23. ASSUME NEW i \in Slot, DropNotDue(i) PROVE Inv'
  BY <1>23 DEF DropNotDue, Step
<1>24. ASSUME NEW i \in Slot, DropDue(i) PROVE Inv'
  BY <1>24 DEF DropDue, Step
<1>25. ASSUME NEW i \in Slot, Drop(i) PROVE Inv'
  <2>1. mpc' = mpc /\ th[i] = "drop" /\ th' = [th EXCEPT ![i] = "top"]
    BY <1>25 DEF Drop, Step
  <2>2. \/ words' = words
        \/ words[i].y + 1 < Height /\ words' = [words EXCEPT ![i] = Lowered(@)]
        \/ words' = [words EXCEPT ![i] = Landed(@)]
    BY <1>25 DEF Drop, MayDrop, Lands
  <2>3. \A j \in Slot : /\ words'[j].active => words[j].active /\ words'[j].y < Height
                      /\ words'[j].text = words[j].text
                      /\ words'[j].tid = words[j].tid
                      /\ words'[j].to_remove = words[j].to_remove
    BY <2>2 DEF Lowered, Landed
  <2>4. WordShape'
    BY <2>1, <2>3
  <2>5. ThreadShape'
    BY <2>1, <2>3
  <2>6. FlaggedThreadsHaveLeft'
    BY <2>1, <2>3
  <2>7. QED
    BY <2>4, <2>5, <2>6
<1>26. ASSUME NEW i \in Slot, LeaveLoop(i) PROVE Inv'
  BY <1>26 DEF LeaveLoop, Step, LockFree, GivenBack
<1>27. ASSUME NEW i \in Slot, Return(i) PROVE Inv'
  BY <1>27 DEF Return, Step
<1>28. CASE UNCHANGED vars
  BY <1>28 DEF vars
<1>29. QED
  BY <1>1, <1>2, <1>3, <1>4, <1>5, <1>6, <1>7, <1>8, <1>9, <1>10, <1>11,
     <1>12, <1>13, <1>14, <1>15, <1>16, <1>17, <1>18, <1>19, <1>20, <1>21,
     <1>22, <1>23, <1>24, <1>25, <1>26, <1>27, <1>28
     DEF Next, MainLoop, CleanUp, WordThread

-----------------------------------------------------------------------------
(* Lives, and words scored after the game is over.                         *)

\* Lives drop by one at a time and only before game over; after it only the word
\* that was being matched can still be scored.
LEMMA CounterStep ==
  ASSUME TypeOK, GameOverAtZeroLives, OneLateScore, MainShape, [Next]_vars
  PROVE  (GameOverAtZeroLives /\ OneLateScore)'
<1> DEFINE Inv == GameOverAtZeroLives /\ OneLateScore
<1> USE BoundsAssumption
    DEF TypeOK, GameOverAtZeroLives, OneLateScore, MainShape, seen

<1>1. CASE StartGame
  BY <1>1 DEF StartGame
<1>2. CASE Interrupt \/ NoInput \/ Match \/ CanSpawn \/ Spawn \/ SpawnFails \/
      NoSlot \/ BeginReap \/ JoinNext \/ EndReap \/ KeyPressed \/ MarkAll \/
      BeginJoin \/ EndJoin \/ Destroy
  BY <1>2 DEF Interrupt, NoInput, Match, CanSpawn, Spawn, SpawnFails, NoSlot,
     BeginReap, JoinNext, EndReap, KeyPressed, MarkAll, BeginJoin, EndJoin,
     Destroy, Goto
<1>3. CASE LoopTop
  BY <1>3 DEF LoopTop
<1>4. ASSUME NEW t \in Text, EnterWord(t) PROVE Inv'
  BY <1>4 DEF EnterWord, AcceptsInput
<1>5. CASE ScoreHit
  BY <1>5 DEF ScoreHit, MainAt
<1>6. ASSUME NEW i \in Slot, ThreadTop(i) \/ ReadActive(i) \/ ReadOver(i) \/
      DropNotDue(i) \/ DropDue(i) \/ Return(i) \/ LeaveLoop(i) PROVE Inv'
  BY <1>6 DEF ThreadTop, ReadActive, ReadOver, DropNotDue, DropDue, Return,
     LeaveLoop
<1>7. ASSUME NEW i \in Slot, Drop(i) PROVE Inv'
  <2>1. late' = late
    BY <1>7 DEF Drop
  <2>2. CASE UNCHANGED <<over, lives>>
    BY <2>1, <2>2
  <2>3. CASE lives' = LivesAfterLanding(i) /\ over' = (over \/ lives' <= 0)
    <3>1. CASE over
      BY <2>1, <2>3, <3>1 DEF LivesAfterLanding
    <3>2. CASE ~over
      <4>1. lives > 0 /\ lives' \in {lives, lives - 1}
        BY <2>3, <3>2 DEF LivesAfterLanding
      <4>2. ASSUME lives' = 0 PROVE over' = TRUE
        <5>1. (over \/ lives' <= 0) = TRUE
          BY <4>2
        <5>2. QED
          BY <2>3, <5>1
      <4>3. lives' >= 0
        BY <4>1
      <4>4. GameOverAtZeroLives'
        BY <4>2, <4>3
      <4>5. OneLateScore'
        BY <2>1
      <4>6. QED
        BY <4>4, <4>5
    <3>3. QED
      BY <3>1, <3>2
  <2>4. QED
    BY <1>7, <2>2, <2>3 DEF Drop
<1>8. CASE UNCHANGED vars
  BY <1>8 DEF vars
<1>9. QED
  BY <1>1, <1>2, <1>3, <1>4, <1>5, <1>6, <1>7, <1>8
     DEF Next, MainLoop, CleanUp, WordThread

-----------------------------------------------------------------------------
(* What main carries from one critical section to the next.                *)

\* Between taking a word and scoring it main holds only its slot: the slot keeps
\* its text until main itself reuses or joins it.
LEMMA MainStep ==
  ASSUME TypeOK, WordShape, ScoreIsEarned, MainShape, [Next]_vars
  PROVE  (MainShape /\ ScoreIsEarned)'
<1> DEFINE Inv == MainShape /\ ScoreIsEarned
<1> USE WordAssumption, BoundsAssumption
    DEF TypeOK, Word, WordShape, MainShape, ScoreIsEarned, HitPoints, seen

<1>1. CASE StartGame
  BY <1>1 DEF StartGame
<1>2. CASE Interrupt
  BY <1>2 DEF Interrupt
<1>3. CASE LoopTop
  BY <1>3 DEF LoopTop, MainAt
<1>4. CASE NoInput \/ CanSpawn \/ NoSlot \/ BeginReap \/ EndReap \/ KeyPressed
      \/ BeginJoin \/ EndJoin \/ Spawn \/ SpawnFails \/ MarkAll \/ Destroy
  BY <1>4 DEF NoInput, CanSpawn, NoSlot, BeginReap, EndReap, KeyPressed,
     BeginJoin, EndJoin, Spawn, SpawnFails, MarkAll, Destroy, MainAt, Goto
<1>5. ASSUME NEW t \in Text, EnterWord(t) PROVE Inv'
  BY <1>5 DEF EnterWord, MainAt, AcceptsInput
<1>6. CASE Match
  BY <1>6 DEF Match, MainAt, Taken, IsTarget, Candidates, Active
<1>7. CASE ScoreHit
  BY <1>7 DEF ScoreHit, MainAt
<1>8. CASE JoinNext
  BY <1>8 DEF JoinNext, Step
<1>9. ASSUME NEW i \in Slot, ThreadTop(i) \/ ReadActive(i) \/ ReadOver(i) \/
      DropNotDue(i) \/ DropDue(i) \/ Return(i) PROVE Inv'
  BY <1>9 DEF ThreadTop, ReadActive, ReadOver, DropNotDue, DropDue, Return,
     Step
<1>10. ASSUME NEW i \in Slot, Drop(i) PROVE Inv'
  BY <1>10 DEF Drop, Step, Lowered, Landed
<1>11. ASSUME NEW i \in Slot, LeaveLoop(i) PROVE Inv'
  BY <1>11 DEF LeaveLoop, Step, GivenBack
<1>12. CASE UNCHANGED vars
  BY <1>12 DEF vars
<1>13. QED
  BY <1>1, <1>2, <1>3, <1>4, <1>5, <1>6, <1>7, <1>8, <1>9, <1>10, <1>11, <1>12
     DEF Next, MainLoop, CleanUp, WordThread

-----------------------------------------------------------------------------
(* The table of texts.                                                     *)

\* Every way off the screen takes the text off the table; a slot that is reused
\* or joined holds no active word whose text could be left behind.
LEMMA TableStep ==
  ASSUME TypeOK, WordShape, ThreadShape, FlaggedThreadsHaveLeft, NoStaleEntry,
         [Next]_vars
  PROVE  NoStaleEntry'
<1> USE WordAssumption
    DEF TypeOK, Word, NoStaleEntry, Active, seen

<1>1. CASE StartGame
  BY <1>1 DEF StartGame
<1>2. CASE Interrupt \/ LoopTop \/ NoInput \/ ScoreHit \/ CanSpawn \/ NoSlot
      \/ BeginReap \/ EndReap \/ KeyPressed \/ BeginJoin \/ EndJoin
  BY <1>2 DEF Interrupt, LoopTop, NoInput, ScoreHit, CanSpawn, NoSlot,
     BeginReap, EndReap, KeyPressed, BeginJoin, EndJoin, MainAt, Goto
<1>3. ASSUME NEW t \in Text, EnterWord(t) PROVE NoStaleEntry'
  BY <1>3 DEF EnterWord, MainAt
<1>4. CASE Match
  BY <1>4 DEF Match, MainAt, Taken, IsTarget, Candidates, OffTable
<1>5. CASE Spawn
  BY <1>5 DEF Spawn, MainAt, Fresh, IsFirst, Reusable, OnTable, WordShape,
     FlaggedThreadsHaveLeft, ToJoin, HasLeft
<1>6. CASE SpawnFails
  BY <1>6 DEF SpawnFails, MainAt, Fresh, IsFirst, Reusable, OffTable,
     WordShape, FlaggedThreadsHaveLeft, ToJoin, HasLeft
<1>7. CASE JoinNext
  <2>1. PICK i \in Slot : th[i] = "done" /\ words' = [words EXCEPT ![i] = Cleared(@)]
    BY <1>7 DEF JoinNext, Step
  <2>2. ~words[i].active
    BY <2>1 DEF WordShape, HasLeft
  <2>3. \A j \in Slot : words[j].active => words'[j] = words[j]
    BY <2>1, <2>2
  <2>4. table' = table
    BY <1>7 DEF JoinNext
  <2>5. QED
    BY <2>3, <2>4
<1>8. CASE MarkAll
  <2>1. \A j \in Slot : /\ words'[j].active = words[j].active
                      /\ words'[j].text = words[j].text
    BY <1>8 DEF MarkAll, Marked
  <2>2. table' = table
    BY <1>8 DEF MarkAll
  <2>3. QED
    BY <2>1, <2>2
<1>9. CASE Destroy
  BY <1>9 DEF Destroy, MainAt
<1>10. ASSUME NEW i \in Slot, ThreadTop(i) \/ ReadActive(i) \/ ReadOver(i) \/
      DropNotDue(i) \/ DropDue(i) \/ Return(i) PROVE NoStaleEntry'
  BY <1>10 DEF ThreadTop, ReadActive, ReadOver, DropNotDue, DropDue, Return,
     Step
<1>11. ASSUME NEW i \in Slot, Drop(i) PROVE NoStaleEntry'
  BY <1>11 DEF Drop, Step, Lowered, Landed, OffTable
<1>12. ASSUME NEW i \in Slot, LeaveLoop(i) PROVE NoStaleEntry'
  BY <1>12 DEF LeaveLoop, Step, GivenBack, OffTable
<1>13. CASE UNCHANGED vars
  BY <1>13 DEF vars
<1>14. QED
  BY <1>1, <1>2, <1>3, <1>4, <1>5, <1>6, <1>7, <1>8, <1>9, <1>10, <1>11,
     <1>12, <1>13
     DEF Next, MainLoop, CleanUp, WordThread

-----------------------------------------------------------------------------
(* The number of words on the screen.                                      *)

\* There are finitely many words on the screen.
LEMMA ActiveFinite == IsFiniteSet(Active) /\ Cardinality(Active) \in Nat
<1>1. IsFiniteSet(Slot)
  BY BoundsAssumption, FS_Interval DEF Slot
<1>2. IsFiniteSet(Active)
  BY <1>1, FS_Subset DEF Active
<1>3. QED
  BY <1>2, FS_CardinalityType

\* A word leaves the screen.
LEMMA OneFewer ==
  ASSUME NEW i \in Slot, words[i].active, TypeOK, TypeOK',
         NEW w, w.active = FALSE, words' = [words EXCEPT ![i] = w]
  PROVE  Cardinality(Active') = Cardinality(Active) - 1
<1>1. Active' = Active \ {i}
  BY DEF TypeOK, Active
<1>2. i \in Active
  BY DEF Active
<1>3. QED
  BY <1>1, <1>2, ActiveFinite, FS_RemoveElement

\* A word comes to the screen.
LEMMA OneMore ==
  ASSUME NEW i \in Slot, ~words[i].active, TypeOK,
         NEW w, w.active = TRUE, words' = [words EXCEPT ![i] = w]
  PROVE  Cardinality(Active') = Cardinality(Active) + 1
<1>1. Active' = Active \cup {i}
  BY DEF TypeOK, Active
<1>2. i \notin Active
  BY DEF Active
<1>3. QED
  BY <1>1, <1>2, ActiveFinite, FS_AddElement

\* An action under which no word comes or goes.
LEMMA SameActive ==
  ASSUME TypeOK, EveryWordSettledOnce,
         \A i \in Slot : words'[i].active = words[i].active,
         UNCHANGED <<settled, spawned>>
  PROVE  EveryWordSettledOnce'
<1>1. Active' = Active
  BY DEF Active
<1>2. QED
  BY <1>1 DEF EveryWordSettledOnce

\* A word is counted when it leaves the screen and never otherwise: whoever takes
\* it found it active in the same critical section.
LEMMA SettledStep ==
  ASSUME TypeOK, TypeOK', WordShape, ThreadShape, FlaggedThreadsHaveLeft,
         EveryWordSettledOnce, Next
  PROVE  EveryWordSettledOnce'
<1> USE DEF seen
<1>0. \A i \in Slot : Reusable(i) /\ mpc = "spawn" => ~words[i].active
  BY DEF Reusable, WordShape, FlaggedThreadsHaveLeft, ToJoin
<1>1. CASE StartGame
  <2>1. Active' = {}
    BY <1>1 DEF StartGame, Active, NoWord
  <2>2. QED
    BY <1>1, <2>1, FS_EmptySet DEF StartGame, EveryWordSettledOnce
<1>2. CASE Match
  <2>1. CASE UNCHANGED <<words, settled>>
    BY <1>2, <2>1, SameActive DEF Match
  <2>2. ASSUME NEW i \in Slot, IsTarget(i, typed),
               words' = [words EXCEPT ![i] = Taken(@)], settled' = settled + 1
        PROVE  EveryWordSettledOnce'
    <3>1. words[i].active /\ Taken(words[i]).active = FALSE
      BY <2>2 DEF IsTarget, Candidates, Active, TypeOK, Word, Taken
    <3>2. Cardinality(Active') = Cardinality(Active) - 1
      BY <2>2, <3>1, OneFewer
    <3>3. QED
      BY <1>2, <2>2, <3>2, ActiveFinite DEF Match, EveryWordSettledOnce, TypeOK
  <2>3. QED
    BY <1>2, <2>1, <2>2 DEF Match
<1>3. CASE Spawn
  <2>1. PICK i \in Slot, p \in Pick, kind \in WordType :
          /\ IsFirst(i, {j \in Slot : Reusable(j)})
          /\ words' = [words EXCEPT ![i] = Fresh(Shown[p], kind, TRUE)]
    BY <1>3 DEF Spawn
  <2>2. ~words[i].active /\ Fresh(Shown[p], kind, TRUE).active = TRUE
    BY <1>0, <1>3, <2>1 DEF Spawn, MainAt, IsFirst, Fresh
  <2>3. Cardinality(Active') = Cardinality(Active) + 1
    BY <2>1, <2>2, OneMore
  <2>4. QED
    BY <1>3, <2>3, ActiveFinite DEF Spawn, EveryWordSettledOnce, TypeOK
<1>4. CASE SpawnFails
  <2>1. PICK i \in Slot, p \in Pick, kind \in WordType :
          /\ IsFirst(i, {j \in Slot : Reusable(j)})
          /\ words' = [words EXCEPT ![i] = Fresh(Shown[p], kind, FALSE)]
    BY <1>4 DEF SpawnFails
  <2>2. ~words[i].active /\ Fresh(Shown[p], kind, FALSE).active = FALSE
    BY <1>0, <1>4, <2>1 DEF SpawnFails, MainAt, IsFirst, Fresh
  <2>3. \A j \in Slot : words'[j].active = words[j].active
    BY <2>1, <2>2 DEF TypeOK, Word
  <2>4. QED
    BY <1>4, <2>3, SameActive DEF SpawnFails
<1>5. CASE JoinNext
  <2>1. PICK i \in Slot : th[i] = "done" /\ words' = [words EXCEPT ![i] = Cleared(@)]
    BY <1>5 DEF JoinNext, Step
  <2>2. \A j \in Slot : words'[j].active = words[j].active
    BY <2>1 DEF TypeOK, Word, WordShape, HasLeft, Cleared
  <2>3. QED
    BY <1>5, <2>2, SameActive DEF JoinNext
<1>6. CASE MarkAll
  <2>1. \A j \in Slot : words'[j].active = words[j].active
    BY <1>6 DEF MarkAll, Marked, TypeOK, Word
  <2>2. QED
    BY <1>6, <2>1, SameActive DEF MarkAll
<1>7. ASSUME NEW i \in Slot, Drop(i) PROVE EveryWordSettledOnce'
  <2>1. CASE ~MayDrop(i) \/ ~Lands(i)
    <3>1. \A j \in Slot : words'[j].active = words[j].active
      BY <1>7, <2>1 DEF Drop, Lowered, TypeOK, Word
    <3>2. QED
      BY <1>7, <2>1, <3>1, SameActive DEF Drop
  <2>2. CASE MayDrop(i) /\ Lands(i)
    <3>1. words[i].active /\ Landed(words[i]).active = FALSE
      BY <2>2 DEF MayDrop, Landed
    <3>2. Cardinality(Active') = Cardinality(Active) - 1
      BY <1>7, <2>2, <3>1, OneFewer DEF Drop
    <3>3. QED
      BY <1>7, <2>2, <3>2, ActiveFinite DEF Drop, EveryWordSettledOnce, TypeOK
  <2>3. QED
    BY <2>1, <2>2
<1>8. ASSUME NEW i \in Slot, LeaveLoop(i) PROVE EveryWordSettledOnce'
  <2>1. GivenBack(words[i]).active = FALSE
    BY DEF GivenBack
  <2>2. CASE words[i].active
    <3>1. Cardinality(Active') = Cardinality(Active) - 1
      BY <1>8, <2>1, <2>2, OneFewer DEF LeaveLoop
    <3>2. QED
      BY <1>8, <2>2, <3>1, ActiveFinite DEF LeaveLoop, EveryWordSettledOnce, TypeOK
  <2>3. CASE ~words[i].active
    <3>1. \A j \in Slot : words'[j].active = words[j].active
      BY <1>8, <2>1, <2>3 DEF LeaveLoop, TypeOK, Word
    <3>2. QED
      BY <1>8, <2>3, <3>1, SameActive DEF LeaveLoop
  <2>4. QED
    BY <2>2, <2>3
<1>9. CASE UNCHANGED <<words, settled, spawned>>
  BY <1>9, SameActive
<1>10. QED
  BY <1>1, <1>2, <1>3, <1>4, <1>5, <1>6, <1>7, <1>8, <1>9
     DEF Next, MainLoop, CleanUp, WordThread, Interrupt, LoopTop, NoInput,
         EnterWord, ScoreHit, CanSpawn, NoSlot, BeginReap, EndReap, KeyPressed,
         BeginJoin, EndJoin, Destroy, Goto, ThreadTop, ReadActive, ReadOver,
         DropNotDue, DropDue, Return

-----------------------------------------------------------------------------
(* The theorems.                                                           *)

\* A round that has not begun satisfies the invariant.
LEMMA InitInvariant == Init => TypeOK /\ RoundInvariant
<1> SUFFICES ASSUME Init PROVE TypeOK /\ RoundInvariant
  OBVIOUS
<1>1. TypeOK
  <2>1. words \in [Slot -> Word] /\ th \in [Slot -> ThreadPCs]
    BY NewWords DEF Init, ThreadPCs
  <2>2. hit \in [slot : 0..MaxWords, wtype : {"normal", "kill", "bonus"}]
    BY BoundsAssumption DEF Init, NoHit
  <2>3. {spawned, settled, earned, late} \subseteq Nat
    BY DEF Init
  <2>4. over \in BOOLEAN /\ sig \in BOOLEAN /\ last \in BOOLEAN
    BY DEF Init
  <2>5. /\ table \subseteq Text /\ typed \in Text \cup {NoText}
        /\ score \in Nat /\ lives \in Int /\ mpc \in MainPCs
    BY BoundsAssumption DEF Init, MainPCs
  <2>6. QED
    BY <2>1, <2>2, <2>3, <2>4, <2>5 DEF TypeOK
<1>2. WordShape /\ ThreadShape /\ MainShape /\ FlaggedThreadsHaveLeft
  BY DEF Init, WordShape, ThreadShape, MainShape, FlaggedThreadsHaveLeft,
         ToJoin, NoWord
<1>3. EveryWordSettledOnce
  <2>1. Active = {}
    BY <1>1 DEF Init, Active, NoWord
  <2>2. QED
    BY <2>1, FS_EmptySet DEF Init, EveryWordSettledOnce
<1>4. NoStaleEntry /\ ScoreIsEarned /\ GameOverAtZeroLives /\ OneLateScore
  BY BoundsAssumption
     DEF Init, NoStaleEntry, ScoreIsEarned, GameOverAtZeroLives, OneLateScore
<1>5. QED
  BY <1>1, <1>2, <1>3, <1>4 DEF RoundInvariant

\* Every step of the round keeps the invariant.
LEMMA StepInvariant ==
  TypeOK /\ RoundInvariant /\ [Next]_vars => TypeOK' /\ RoundInvariant'
<1> SUFFICES ASSUME TypeOK, RoundInvariant, [Next]_vars
             PROVE  TypeOK' /\ RoundInvariant'
  OBVIOUS
<1> USE DEF RoundInvariant
<1>1. TypeOK'
  BY TypeStep
<1>2. (WordShape /\ ThreadShape /\ FlaggedThreadsHaveLeft)'
  BY ThreadStep
<1>3. (GameOverAtZeroLives /\ OneLateScore)'
  BY CounterStep
<1>4. (MainShape /\ ScoreIsEarned)'
  BY MainStep
<1>5. NoStaleEntry'
  BY TableStep
<1>6. EveryWordSettledOnce'
  <2>1. CASE Next
    BY <1>1, <2>1, SettledStep
  <2>2. CASE UNCHANGED vars
    BY <2>2, SameActive DEF vars, seen
  <2>3. QED
    BY <2>1, <2>2
<1>7. QED
  BY <1>1, <1>2, <1>3, <1>4, <1>5, <1>6

\* The invariant of a round (game_logic.c): TypeOK and RoundInvariant hold in
\* every reachable state, for any MAX_WORDS, word list, height and lives.
THEOREM RoundInvariantHolds == Spec => [](TypeOK /\ RoundInvariant)
<1>1. Init => TypeOK /\ RoundInvariant
  BY InitInvariant
<1>2. TypeOK /\ RoundInvariant /\ [Next]_vars => (TypeOK /\ RoundInvariant)'
  BY StepInvariant
<1>3. QED
  BY <1>1, <1>2, PTL DEF Spec

\* Every variable of a round stays in its range (the globals of game_logic.c:20-28).
THEOREM TypeCorrect == Spec => []TypeOK
<1>1. TypeOK /\ RoundInvariant => TypeOK
  BY DEF RoundInvariant
<1>2. QED
  BY <1>1, RoundInvariantHolds, PTL

\* cleanup_finished_threads joins, and spawn_word reuses, only slots whose thread
\* will not lock words_mutex again (game_logic.c:342-345, 542-554).
THEOREM FlaggedThreadsHaveLeftAlways == Spec => []FlaggedThreadsHaveLeft
<1>1. TypeOK /\ RoundInvariant => FlaggedThreadsHaveLeft
  BY DEF RoundInvariant
<1>2. QED
  BY <1>1, RoundInvariantHolds, PTL

\* g_active_words holds no text that has left the screen (game_logic.c:177-200,
\* 317, 330, 371, 518).
THEOREM TableHasNoStaleEntry == Spec => []NoStaleEntry
<1>1. TypeOK /\ RoundInvariant => NoStaleEntry
  BY DEF RoundInvariant
<1>2. QED
  BY <1>1, RoundInvariantHolds, PTL

\* A word is hit, or lands, or is given up, and only one of these: the recheck of
\* active under words_mutex (game_logic.c:306, 502) decides the race.
THEOREM WordsAreSettledOnce == Spec => []EveryWordSettledOnce
<1>1. TypeOK /\ RoundInvariant => EveryWordSettledOnce
  BY DEF RoundInvariant
<1>2. QED
  BY <1>1, RoundInvariantHolds, PTL

\* The score is the worth of the words hit, though the text is read after
\* words_mutex is released (game_logic.c:520-526).
THEOREM ScoreIsAlwaysEarned == Spec => []ScoreIsEarned
<1>1. TypeOK /\ RoundInvariant => ScoreIsEarned
  BY DEF RoundInvariant
<1>2. QED
  BY <1>1, RoundInvariantHolds, PTL

\* Lives stop at zero, and zero lives is game over (game_logic.c:313-316).
THEOREM LivesAndGameOver == Spec => []GameOverAtZeroLives
<1>1. TypeOK /\ RoundInvariant => GameOverAtZeroLives
  BY DEF RoundInvariant
<1>2. QED
  BY <1>1, RoundInvariantHolds, PTL

\* At most one word of a round is scored after game over (game_logic.c:488-491,
\* 522-530).
THEOREM AtMostOneLateScore == Spec => []OneLateScore
<1>1. TypeOK /\ RoundInvariant => OneLateScore
  BY DEF RoundInvariant
<1>2. QED
  BY <1>1, RoundInvariantHolds, PTL

\* No word thread outlives its round: safe_game_cleanup has joined every thread
\* there was before it destroys the mutexes (game_logic.c:382-423).
THEOREM NoThreadIsLeftBehind == Spec => []NoThreadOutlivesRound
<1>1. TypeOK /\ RoundInvariant => NoThreadOutlivesRound
  BY DEF RoundInvariant, ThreadShape, NoThreadOutlivesRound
<1>2. QED
  BY <1>1, RoundInvariantHolds, PTL

-----------------------------------------------------------------------------
(* The round implements GameRound.                                         *)

\* A thread that has left its loop while its word was still falling has seen that
\* the game is over.
ExitShape == \A i \in Slot : th[i] = "exit" /\ words[i].active => over

LEMMA ExitStep ==
  ASSUME TypeOK, RoundInvariant, ExitShape, [Next]_vars
  PROVE  ExitShape'
<1> USE DEF TypeOK, ExitShape
<1>1. ASSUME th' = th, over => over',
             \A i \in Slot : words'[i].active => words[i].active
      PROVE  ExitShape'
  BY <1>1
<1>2. ASSUME words' = words, th' = th, over => over'
      PROVE  ExitShape'
  BY <1>2
<1>3. CASE StartGame
  BY <1>3 DEF StartGame, NoWord
<1>4. CASE Match
  <2>1. \/ words' = words
        \/ \E i \in Slot : words' = [words EXCEPT ![i] = Taken(@)]
    BY <1>4 DEF Match
  <2>2. \A i \in Slot : words'[i].active => words[i].active
    BY <2>1 DEF Taken, Word
  <2> QED
    BY <1>1, <1>4, <2>2 DEF Match
<1>5. CASE Spawn
  <2>1. PICK i \in Slot, p \in Pick, kind \in WordType :
          /\ words' = [words EXCEPT ![i] = Fresh(Shown[p], kind, TRUE)]
          /\ th' = [th EXCEPT ![i] = "top"]
    BY <1>5 DEF Spawn
  <2> QED
    BY <1>5, <2>1 DEF Spawn
<1>6. CASE SpawnFails
  <2>1. PICK i \in Slot, p \in Pick, kind \in WordType :
          /\ words' = [words EXCEPT ![i] = Fresh(Shown[p], kind, FALSE)]
          /\ th' = [th EXCEPT ![i] = "none"]
    BY <1>6 DEF SpawnFails
  <2> QED
    BY <1>6, <2>1 DEF SpawnFails
<1>7. CASE JoinNext
  <2>1. PICK i \in Slot : /\ th' = [th EXCEPT ![i] = "none"]
                          /\ words' = [words EXCEPT ![i] = Cleared(@)]
    BY <1>7 DEF JoinNext, Step
  <2> QED
    BY <1>7, <2>1 DEF JoinNext
<1>8. CASE MarkAll
  <2>1. \A i \in Slot : words'[i].active = words[i].active
    BY <1>8 DEF MarkAll, Marked, Word
  <2> QED
    BY <1>1, <1>8, <2>1 DEF MarkAll
<1>9. ASSUME NEW i \in Slot, words' = words, over => over', NEW to,
             th' = [th EXCEPT ![i] = to], to = "exit" => over \/ ~words[i].active
      PROVE  ExitShape'
  BY <1>9
<1>10. ASSUME NEW i \in Slot, ThreadTop(i) \/ DropNotDue(i) \/ DropDue(i) \/ Return(i)
       PROVE  ExitShape'
  BY <1>9, <1>10 DEF ThreadTop, DropNotDue, DropDue, Return, Step
<1>11. ASSUME NEW i \in Slot, ReadActive(i) \/ ReadOver(i) PROVE ExitShape'
  BY <1>9, <1>11 DEF ReadActive, ReadOver, Step
<1>12. ASSUME NEW i \in Slot, Drop(i) PROVE ExitShape'
  <2>1. th' = [th EXCEPT ![i] = "top"] /\ (over => over')
    BY <1>12 DEF Drop, Step
  <2>2. \A j \in Slot \ {i} : words'[j] = words[j]
    BY <1>12 DEF Drop
  <2> QED
    BY <2>1, <2>2
<1>13. ASSUME NEW i \in Slot, LeaveLoop(i) PROVE ExitShape'
  BY <1>13 DEF LeaveLoop, Step
<1>14. CASE LoopTop \/ ScoreHit
  BY <1>2, <1>14 DEF LoopTop, ScoreHit
<1>15. CASE UNCHANGED <<words, th, over>>
  BY <1>2, <1>15
<1> QED
  BY <1>3, <1>4, <1>5, <1>6, <1>7, <1>8, <1>10, <1>11, <1>12, <1>13, <1>14, <1>15
     DEF Next, MainLoop, CleanUp, WordThread, Interrupt, NoInput, EnterWord, CanSpawn,
         NoSlot, BeginReap, EndReap, KeyPressed, BeginJoin, EndJoin, Destroy, Goto, vars

RoundVars == <<Cardinality(Active), score, lives, over, Doing>>

\* An action that GameRound does not see.
LEMMA Unseen ==
  ASSUME TypeOK, \A i \in Slot : words'[i].active = words[i].active,
         UNCHANGED <<score, lives, over, Doing>>
  PROVE  UNCHANGED RoundVars
<1>1. Active' = Active
  BY DEF Active
<1> QED
  BY <1>1 DEF RoundVars

\* Main begins an entry, or looks for a free slot, only before game over.
LEMMA MainRefines ==
  ASSUME TypeOK, RoundInvariant, TypeOK', MainLoop \/ KeyPressed \/ CleanUp
  PROVE  [Round!Next]_RoundVars
<1> USE DEF RoundInvariant
<1> DEFINE Goal == [Round!Next]_RoundVars
<1>1. ASSUME words' = words, UNCHANGED <<score, lives, over>>,
             mpc \notin {"match", "score", "spawn"}, mpc' \notin {"match", "score", "spawn"}
      PROVE  Goal
  BY <1>1, Unseen DEF Doing
<1>2. CASE LoopTop
  <2>1. Active' = Active /\ Doing' = Doing /\ UNCHANGED <<score, lives>>
    BY <1>2 DEF LoopTop, MainAt, Active, Doing
  <2>2. over' = over \/ over' = TRUE
    BY <1>2 DEF LoopTop, TypeOK
  <2>3. CASE over' = over
    BY <2>1, <2>3 DEF RoundVars
  <2>4. CASE over' = TRUE
    BY <2>1, <2>4 DEF Round!Next, Round!GameOver
  <2> QED
    BY <2>2, <2>3, <2>4
<1>3. CASE NoInput \/ BeginReap \/ EndReap \/ KeyPressed \/ BeginJoin \/ EndJoin \/ Destroy
  BY <1>1, <1>3 DEF NoInput, BeginReap, EndReap, KeyPressed, BeginJoin, EndJoin, Destroy,
     MainAt, Goto
<1>4. ASSUME NEW t \in Text, EnterWord(t) PROVE Goal
  <2>1. /\ Active' = Active /\ UNCHANGED <<score, lives, over>> /\ ~over
        /\ Doing = "nothing" /\ Doing' = "entry"
    BY <1>4 DEF EnterWord, AcceptsInput, MainAt, Active, Doing
  <2> QED
    BY <2>1 DEF Round!Next, Round!Begin
<1>5. CASE Match
  <2>1. Doing = "entry" /\ UNCHANGED <<over, score, lives>>
    BY <1>5 DEF Match, MainAt, Doing
  <2>2. CASE mpc' = "can_spawn" /\ words' = words
    <3>1. Active' = Active /\ Doing' = "nothing"
      BY <2>2 DEF Active, Doing
    <3> QED
      BY <2>1, <3>1 DEF Round!Next, Round!Nothing
  <2>3. ASSUME NEW i \in Slot, IsTarget(i, typed), mpc' = "score",
               words' = [words EXCEPT ![i] = Taken(@)]
        PROVE  Goal
    <3>1. words[i].active /\ Taken(words[i]).active = FALSE
      BY <2>3 DEF IsTarget, Candidates, Active, TypeOK, Word, Taken
    <3>2. Cardinality(Active') = Cardinality(Active) - 1
      BY <2>3, <3>1, OneFewer
    <3>3. Cardinality(Active) \in Nat /\ Cardinality(Active) # 0
      BY <3>1, ActiveFinite, FS_EmptySet DEF Active
    <3>4. Doing' = "scoring"
      BY <2>3 DEF Doing
    <3> QED
      BY <2>1, <3>2, <3>3, <3>4 DEF Round!Next, Round!Take
  <2> QED
    BY <1>5, <2>2, <2>3 DEF Match
<1>6. CASE ScoreHit
  <2>1. /\ Doing = "scoring" /\ Doing' = "nothing"
        /\ Active' = Active /\ lives' = lives
    BY <1>6 DEF ScoreHit, MainAt, Doing, Active
  <2> DEFINE t == words[hit.slot].text
  <2>2. t \in Text /\ score' = score + Points(t, hit.wtype) /\ score \in Nat
    BY <1>6 DEF ScoreHit, MainAt, MainShape, HitPoints, TypeOK
  <2> HIDE DEF t
  <2>3. CASE hit.wtype = "kill"
    <3>1. score' = score
      BY <2>2, <2>3 DEF Points
    <3>2. over' = TRUE
      BY <1>6, <2>3 DEF ScoreHit
    <3> QED
      BY <2>1, <3>1, <3>2 DEF Round!Next, Round!Count
  <2>4. CASE hit.wtype # "kill"
    <3>1. over' = over
      BY <1>6, <2>4 DEF ScoreHit, TypeOK
    <3>2. Length[t] \in Nat
      BY <2>2, WordAssumption
    <3>3. Points(t, hit.wtype) = Length[t] \/ Points(t, hit.wtype) = Length[t] + BonusPoints
      BY <2>4, <3>2, WordAssumption DEF Points
    <3>4. \E n \in {Length[u] : u \in Text} \cup {Length[u] + BonusPoints : u \in Text} :
            score' = score + n
      BY <2>2, <3>3
    <3> QED
      BY <2>1, <3>1, <3>4 DEF Round!Next, Round!Count
  <2> QED
    BY <2>3, <2>4
<1>7. CASE CanSpawn
  <2>1. Active' = Active /\ UNCHANGED <<score, lives, over>> /\ Doing = "nothing"
    BY <1>7 DEF CanSpawn, MainAt, Active, Doing
  <2>2. CASE mpc' = "reap"
    BY <1>1, <1>7, <2>2 DEF CanSpawn, MainAt
  <2>3. CASE ~over /\ mpc' = "spawn"
    <3>1. Doing' = "spawn"
      BY <2>3 DEF Doing
    <3> QED
      BY <2>1, <2>3, <3>1 DEF Round!Next, Round!Begin
  <2> QED
    BY <1>7, <2>2, <2>3 DEF CanSpawn, MaySpawn
<1>8. \A i \in Slot : Reusable(i) /\ mpc = "spawn" => ~words[i].active
  BY DEF Reusable, WordShape, FlaggedThreadsHaveLeft, ToJoin
<1>9. CASE Spawn
  <2>1. /\ Doing = "spawn" /\ Doing' = "nothing" /\ UNCHANGED <<score, lives, over>>
    BY <1>9 DEF Spawn, MainAt, Doing
  <2>2. PICK i \in Slot, p \in Pick, kind \in WordType :
          /\ IsFirst(i, {j \in Slot : Reusable(j)})
          /\ words' = [words EXCEPT ![i] = Fresh(Shown[p], kind, TRUE)]
    BY <1>9 DEF Spawn
  <2>3. ~words[i].active /\ Fresh(Shown[p], kind, TRUE).active = TRUE
    BY <1>8, <1>9, <2>2 DEF Spawn, MainAt, IsFirst, Fresh
  <2>4. Cardinality(Active') = Cardinality(Active) + 1
    BY <2>2, <2>3, OneMore
  <2>5. Cardinality(Active') <= MaxWords
    <3>1. IsFiniteSet(Slot) /\ Cardinality(Slot) = MaxWords
      BY BoundsAssumption, FS_Interval DEF Slot
    <3>2. Active' \subseteq Slot
      BY DEF Active
    <3> QED
      BY <3>1, <3>2, FS_Subset
  <2> QED
    BY <2>1, <2>4, <2>5, ActiveFinite, BoundsAssumption DEF Round!Next, Round!Spawn
<1>10. CASE SpawnFails
  <2>1. /\ Doing = "spawn" /\ Doing' = "nothing" /\ UNCHANGED <<score, lives, over>>
    BY <1>10 DEF SpawnFails, MainAt, Doing
  <2>2. PICK i \in Slot, p \in Pick, kind \in WordType :
          /\ IsFirst(i, {j \in Slot : Reusable(j)})
          /\ words' = [words EXCEPT ![i] = Fresh(Shown[p], kind, FALSE)]
    BY <1>10 DEF SpawnFails
  <2>3. ~words[i].active /\ Fresh(Shown[p], kind, FALSE).active = FALSE
    BY <1>8, <1>10, <2>2 DEF SpawnFails, MainAt, IsFirst, Fresh
  <2>4. Active' = Active
    BY <2>2, <2>3 DEF Active, TypeOK, Word
  <2> QED
    BY <2>1, <2>4 DEF Round!Next, Round!Nothing
<1>11. CASE NoSlot
  <2>1. /\ Doing = "spawn" /\ Doing' = "nothing" /\ UNCHANGED <<score, lives, over>>
        /\ Active' = Active
    BY <1>11 DEF NoSlot, MainAt, Doing, Active
  <2> QED
    BY <2>1 DEF Round!Next, Round!Nothing
<1>12. CASE JoinNext
  <2>1. PICK i \in Slot : th[i] = "done" /\ words' = [words EXCEPT ![i] = Cleared(@)]
    BY <1>12 DEF JoinNext, Step
  <2>2. \A j \in Slot : words'[j].active = words[j].active
    BY <2>1 DEF TypeOK, Word, WordShape, HasLeft, Cleared
  <2> QED
    BY <1>12, <2>2, Unseen DEF JoinNext, Doing
<1>13. CASE MarkAll
  <2>1. \A j \in Slot : words'[j].active = words[j].active
    BY <1>13 DEF MarkAll, Marked, TypeOK, Word
  <2> QED
    BY <1>13, <2>1, Unseen DEF MarkAll, MainAt, Doing
<1> QED
  BY <1>2, <1>3, <1>4, <1>5, <1>6, <1>7, <1>9, <1>10, <1>11, <1>12, <1>13
     DEF MainLoop, CleanUp

\* What a word thread does is a landing, a word that vanishes after game over, or
\* the end of the game.
LEMMA ThreadRefines ==
  ASSUME TypeOK, RoundInvariant, ExitShape, TypeOK', NEW i \in Slot, WordThread(i)
  PROVE  [Round!Next]_RoundVars
<1> USE DEF RoundInvariant
<1> DEFINE Goal == [Round!Next]_RoundVars
<1>1. Doing' = Doing
  BY DEF WordThread, ThreadTop, ReadActive, ReadOver, DropNotDue, DropDue, Drop, LeaveLoop,
     Return, Doing
<1>2. CASE ThreadTop(i)
  <2>1. Active' = Active /\ UNCHANGED <<score, lives>>
    BY <1>2 DEF ThreadTop, Active
  <2>2. over' = over \/ over' = TRUE
    BY <1>2 DEF ThreadTop, TypeOK
  <2>3. CASE over' = over
    BY <1>1, <2>1, <2>3 DEF RoundVars
  <2>4. CASE over' = TRUE
    BY <1>1, <2>1, <2>4 DEF Round!Next, Round!GameOver
  <2> QED
    BY <2>2, <2>3, <2>4
<1>3. CASE ReadActive(i) \/ ReadOver(i) \/ DropNotDue(i) \/ DropDue(i) \/ Return(i)
  BY <1>1, <1>3, Unseen DEF ReadActive, ReadOver, DropNotDue, DropDue, Return
<1>4. CASE Drop(i)
  <2>1. CASE ~MayDrop(i) \/ ~Lands(i)
    <3>1. \A j \in Slot : words'[j].active = words[j].active
      BY <1>4, <2>1 DEF Drop, Lowered, TypeOK, Word
    <3>2. UNCHANGED <<score, lives, over>>
      BY <1>4, <2>1 DEF Drop
    <3> QED
      BY <1>1, <3>1, <3>2, Unseen
  <2>2. CASE MayDrop(i) /\ Lands(i)
    <3>1. words[i].active /\ Landed(words[i]).active = FALSE
      BY <2>2 DEF MayDrop, Landed
    <3>2. Cardinality(Active') = Cardinality(Active) - 1
      BY <1>4, <2>2, <3>1, OneFewer DEF Drop
    <3>3. Cardinality(Active) \in Nat /\ Cardinality(Active) # 0
      BY <3>1, ActiveFinite, FS_EmptySet DEF Active
    <3>4. lives \in Nat /\ (~over => lives > 0) /\ over \in BOOLEAN
      BY DEF GameOverAtZeroLives, TypeOK
    <3>5. lives' = LivesAfterLanding(i) /\ over' = (over \/ lives' <= 0) /\ score' = score
      BY <1>4, <2>2 DEF Drop
    <3>6. lives' = lives \/ (~over /\ lives > 0 /\ lives' = lives - 1)
      BY <3>4, <3>5 DEF LivesAfterLanding
    <3>7. lives' \in Nat
      BY <3>4, <3>6
    <3>8. lives' <= 0 <=> lives' = 0
      BY <3>7
    <3>9. over' = (over \/ lives' = 0)
      BY <3>5, <3>8
    <3> QED
      BY <1>1, <3>2, <3>3, <3>5, <3>6, <3>9 DEF Round!Next, Round!Land
  <2> QED
    BY <2>1, <2>2
<1>5. CASE LeaveLoop(i)
  <2>1. GivenBack(words[i]).active = FALSE /\ UNCHANGED <<over, score, lives>>
    BY <1>5 DEF LeaveLoop, GivenBack
  <2>2. CASE words[i].active
    <3>1. Cardinality(Active') = Cardinality(Active) - 1
      BY <1>5, <2>1, <2>2, OneFewer DEF LeaveLoop
    <3>2. Cardinality(Active) \in Nat /\ Cardinality(Active) # 0
      BY <2>2, ActiveFinite, FS_EmptySet DEF Active
    <3>3. over
      BY <1>5, <2>2 DEF LeaveLoop, Step, ExitShape
    <3> QED
      BY <1>1, <2>1, <3>1, <3>2, <3>3 DEF Round!Next, Round!Vanish
  <2>3. CASE ~words[i].active
    <3>1. \A j \in Slot : words'[j].active = words[j].active
      BY <1>5, <2>1, <2>3 DEF LeaveLoop, TypeOK, Word
    <3> QED
      BY <1>1, <2>1, <3>1, Unseen
  <2> QED
    BY <2>2, <2>3
<1> QED
  BY <1>2, <1>3, <1>4, <1>5 DEF WordThread

\* Every step of the round is a step of GameRound or none at all.
LEMMA RoundStep ==
  ASSUME TypeOK, RoundInvariant, ExitShape, [Next]_vars
  PROVE  [Round!Next]_RoundVars
<1>1. TypeOK'
  BY StepInvariant
<1>2. CASE StartGame
  <2>1. mpc = "off" /\ Active = {}
    BY <1>2 DEF StartGame, RoundInvariant, ThreadShape, WordShape, Active
  <2>2. Active' = {} /\ mpc' = "top"
    BY <1>2 DEF StartGame, Active, NoWord
  <2>3. Cardinality(Active) = 0 /\ Cardinality(Active') = 0
    BY <2>1, <2>2, FS_EmptySet
  <2>4. Doing = "nothing" /\ Doing' = "nothing"
    BY <2>1, <2>2 DEF Doing
  <2>5. score' = 0 /\ lives' = InitialLives /\ over' = FALSE
    BY <1>2 DEF StartGame
  <2> QED
    BY <2>3, <2>4, <2>5 DEF Round!Next, Round!Start, Round!NewRound
<1>3. CASE Interrupt \/ UNCHANGED vars
  BY <1>3, Unseen DEF Interrupt, vars, Doing
<1>4. CASE MainLoop \/ KeyPressed \/ CleanUp
  BY <1>1, <1>4, MainRefines
<1>5. CASE \E i \in Slot : WordThread(i)
  BY <1>1, <1>5, ThreadRefines
<1> QED
  BY <1>2, <1>3, <1>4, <1>5 DEF Next

\* A round of run_rain_typing_game implements GameRound: behind the word threads
\* and the critical sections of main, each word leaves the screen once, a life is
\* lost at most once per landing and never after game over, and game over is final.
THEOREM RoundImplementsGameRound == Spec => ImplementsGameRound
<1>1. Init => Round!Init
  <2> SUFFICES ASSUME Init PROVE Round!Init
    OBVIOUS
  <2>1. Active = {}
    BY DEF Init, Active, NoWord
  <2>2. Cardinality(Active) = 0
    BY <2>1, FS_EmptySet
  <2> QED
    BY <2>2 DEF Init, Round!Init, Round!NewRound, Doing
<1>2. Init => ExitShape
  BY DEF Init, ExitShape
<1>3. TypeOK /\ RoundInvariant /\ ExitShape /\ [Next]_vars => ExitShape'
  BY ExitStep
<1>4. TypeOK /\ RoundInvariant /\ ExitShape /\ [Next]_vars => [Round!Next]_Round!vars
  BY RoundStep DEF RoundVars, Round!vars
<1> QED
  BY <1>1, <1>2, <1>3, <1>4, RoundInvariantHolds, PTL DEF Spec, Round!Spec, ImplementsGameRound

\* What GameRound makes of its steps: within its bounds each step keeps them, and
\* keeps to what is promised after game over.
LEMMA RoundPromise ==
  ASSUME Round!Bounds, [Round!Next]_RoundVars
  PROVE  /\ Round!Bounds'
         /\ \/ /\ score' >= score /\ lives' <= lives
               /\ over =>
                    /\ over' /\ lives' = lives
                    /\ score' # score => Doing = "scoring" /\ Doing' = "nothing"
                    /\ Cardinality(Active)' > Cardinality(Active) =>
                         Doing = "spawn" /\ Doing' = "nothing"
                    /\ Doing = "nothing" => Doing' = "nothing"
            \/ Cardinality(Active) = 0 /\ Doing = "nothing" /\ Round!NewRound'
<1> DEFINE n == Cardinality(Active)
<1> USE BoundsAssumption DEF Round!Bounds
<1>1. n \in 0..MaxWords /\ n \in Int /\ score \in Nat /\ lives \in 0..InitialLives
  OBVIOUS
<1>2. CASE Round!Start
  BY <1>2 DEF Round!Start, Round!NewRound
<1>3. CASE Round!Count
  <2>1. \A t \in Text : Length[t] \in Nat /\ Length[t] + BonusPoints \in Nat
    BY WordAssumption
  <2>2. score' \in Nat /\ score' >= score
    BY <1>1, <1>3, <2>1 DEF Round!Count
  <2> QED
    BY <1>1, <1>3, <2>2 DEF Round!Count
<1>4. CASE Round!Land
  <2>1. (over => over') /\ (lives' = 0 => over')
    BY <1>4, Zenon DEF Round!Land
  <2>2. lives' \in 0..InitialLives /\ lives' <= lives /\ (over => lives' = lives)
    BY <1>1, <1>4 DEF Round!Land
  <2>3. n' \in 0..MaxWords /\ ~(n' > n)
    BY <1>1, <1>4 DEF Round!Land
  <2>4. score' = score /\ Doing' = Doing
    BY <1>4 DEF Round!Land
  <2> QED
    BY <1>1, <2>1, <2>2, <2>3, <2>4
<1>5. CASE Round!Spawn \/ Round!Take \/ Round!Vanish
  BY <1>1, <1>5 DEF Round!Spawn, Round!Take, Round!Vanish
<1>6. CASE Round!GameOver \/ Round!Nothing
  BY <1>1, <1>6 DEF Round!GameOver, Round!Nothing
<1>7. ASSUME NEW what \in {"entry", "spawn"}, Round!Begin(what) PROVE ~over /\ Round!Bounds'
                                                        /\ score' = score /\ lives' = lives
  BY <1>1, <1>7 DEF Round!Begin
<1>8. CASE UNCHANGED RoundVars
  BY <1>1, <1>8 DEF RoundVars
<1>9. CASE \E what \in {"entry", "spawn"} : Round!Begin(what)
  BY <1>1, <1>7, <1>9
<1> QED
  BY <1>2, <1>3, <1>4, <1>5, <1>6, <1>8, <1>9 DEF Round!Next

\* Behind its threads a round keeps what GameRound's promises come to: points are
\* never taken away, at most the one entry and the one new word that were under way
\* slip past game over (game_logic.c:491, 549), and no life is lost after it.
THEOREM GameOverIsFinal == Spec => []Round!Bounds /\ Round!OverIsFinal
<1> DEFINE Final ==
      \/ /\ score' >= score /\ lives' <= lives
         /\ over =>
              /\ over' /\ lives' = lives
              /\ score' # score => Doing = "scoring" /\ Doing' = "nothing"
              /\ Cardinality(Active)' > Cardinality(Active) =>
                   Doing = "spawn" /\ Doing' = "nothing"
              /\ Doing = "nothing" => Doing' = "nothing"
      \/ Cardinality(Active) = 0 /\ Doing = "nothing" /\ Round!NewRound'
<1>1. Round!Init => Round!Bounds
  BY BoundsAssumption DEF Round!Init, Round!NewRound, Round!Bounds
<1>2. Round!Bounds /\ [Round!Next]_Round!vars => Round!Bounds' /\ [Final]_Round!vars
  BY RoundPromise DEF RoundVars, Round!vars
<1> HIDE DEF Final
<1>3. Round!Spec => []Round!Bounds /\ [][Final]_Round!vars
  BY <1>1, <1>2, PTL DEF Round!Spec
<1>4. Spec => []Round!Bounds /\ [][Final]_Round!vars
  BY <1>3, RoundImplementsGameRound, PTL DEF ImplementsGameRound
<1> QED
  BY <1>4, PTL DEF Final, Round!OverIsFinal

-----------------------------------------------------------------------------
(* The safety half of two liveness properties: nobody waits for somebody   *)
(* who waits for him, and the way to the end of a round gets shorter.      *)

\* Main, while it holds words_mutex, joins only threads that need it no more.
JoinNeverWaits == ~LockFree => \A i \in ToJoin : HasLeft(i)

\* If the word threads leave while main shows the end of the round, they have left
\* when it cleans up, and stay so.
LeftInTime == mpc \in {"mark", "join", "joining"} => \A i \in Slot : HasLeft(i)

LEMMA LeftInTimeStep ==
  ASSUME Timely, TypeOK, LeftInTime, [Next]_vars
  PROVE  LeftInTime'
<1> USE DEF TypeOK, LeftInTime
<1> DEFINE Late == mpc \in {"mark", "join", "joining"}
<1>1. ASSUME UNCHANGED <<mpc, th>> PROVE LeftInTime'
  BY <1>1 DEF HasLeft
<1>2. ASSUME mpc' \notin {"mark", "join", "joining"} PROVE LeftInTime'
  BY <1>2
<1>3. CASE KeyPressed
  BY <1>3 DEF KeyPressed, Goto, HasLeft
<1>4. CASE MarkAll \/ BeginJoin
  BY <1>4 DEF MarkAll, BeginJoin, MainAt, Goto, HasLeft
<1>5. CASE JoinNext
  <2>1. PICK i \in Slot : Step(i, "done", "none")
    BY <1>5 DEF JoinNext
  <2>2. mpc' = mpc
    BY <1>5 DEF JoinNext
  <2> QED
    BY <2>1, <2>2 DEF Step, HasLeft
<1>6. ASSUME NEW i \in Slot, WordThread(i) PROVE LeftInTime'
  <2>1. mpc' = mpc
    BY <1>6 DEF WordThread, ThreadTop, ReadActive, ReadOver, DropNotDue, DropDue,
                Drop, LeaveLoop, Return
  <2>2. CASE ~Late
    BY <2>1, <2>2
  <2>3. CASE Late
    <3>1. HasLeft(i)
      BY <2>3
    <3>2. Step(i, "finishing", "done")
      BY <1>6, <3>1 DEF WordThread, ThreadTop, ReadActive, ReadOver, DropNotDue, DropDue,
                        Drop, LeaveLoop, Return, Step, HasLeft
    <3> QED
      BY <2>1, <2>3, <3>2 DEF Step, HasLeft
  <2> QED
    BY <2>2, <2>3
<1>7. CASE StartGame \/ LoopTop \/ NoInput \/ (\E t \in Text : EnterWord(t)) \/ Match
  BY <1>2, <1>7 DEF StartGame, LoopTop, NoInput, EnterWord, Match
<1>8. CASE ScoreHit \/ CanSpawn \/ Spawn \/ SpawnFails \/ NoSlot \/ BeginReap \/ EndReap
  BY <1>2, <1>8 DEF ScoreHit, CanSpawn, Spawn, SpawnFails, NoSlot, BeginReap, EndReap, Goto
<1>9. CASE EndJoin \/ Destroy
  BY <1>2, <1>9 DEF EndJoin, Destroy, Goto
<1>10. CASE Interrupt \/ UNCHANGED vars
  BY <1>1, <1>10 DEF Interrupt, vars
<1> QED
  BY <1>3, <1>4, <1>5, <1>6, <1>7, <1>8, <1>9, <1>10 DEF Next, MainLoop, CleanUp

\* Main and a word thread cannot deadlock over words_mutex, neither when main reaps
\* in its loop nor, with threads that leave in time, when it cleans up after the round
\* (game_logic.c:340, 395); without that assumption they can (rain_stuck).
THEOREM JoinsCannotDeadlock ==
  ASSUME Timely
  PROVE  Spec => []JoinNeverWaits
<1>1. Init => LeftInTime
  BY DEF Init, LeftInTime
<1>2. TypeOK /\ LeftInTime /\ [Next]_vars => LeftInTime'
  BY LeftInTimeStep
<1>3. TypeOK /\ RoundInvariant /\ LeftInTime => JoinNeverWaits
  BY DEF RoundInvariant, FlaggedThreadsHaveLeft, LeftInTime, JoinNeverWaits, LockFree, ToJoin,
         TypeOK, MainPCs
<1> QED
  BY <1>1, <1>2, <1>3, RoundInvariantHolds, PTL DEF Spec

\* Main is in the loop of run_rain_typing_game; how far it is from the end of this
\* iteration, and from the prompt once the game is over: it may have to go round
\* once more to read the loop condition, and joins the flagged threads on its way.
InLoop == mpc \in {"top", "input", "match", "score", "can_spawn", "spawn", "reap", "reaping"}

StepsLeft ==
  IF mpc = "input" THEN 8 ELSE IF mpc = "match" THEN 7 ELSE IF mpc = "score" THEN 6
  ELSE IF mpc = "can_spawn" THEN 5 ELSE IF mpc = "spawn" THEN 4
  ELSE IF mpc = "reap" THEN 3 ELSE 2

ToPrompt ==
  <<IF mpc = "top" THEN 9 ELSE IF last THEN StepsLeft ELSE StepsLeft + 10,
    IF mpc = "reaping" THEN Cardinality(ToJoin) ELSE 0>>

\* Once the game is over it stays over while main is in the loop, nothing anybody
\* else does makes main's way to the prompt longer, and each of its own steps makes
\* it shorter.
Nearing ==
  over /\ InLoop =>
    \/ mpc' = "waitkey"
    \/ /\ over' /\ InLoop'
       /\ IF MainLoop THEN <<ToPrompt', ToPrompt>> \in PairOrder ELSE ToPrompt' = ToPrompt

LEMMA SomeSlots ==
  ASSUME NEW S \in SUBSET Slot
  PROVE  IsFiniteSet(S) /\ Cardinality(S) \in Nat
<1>1. IsFiniteSet(Slot)
  BY BoundsAssumption, FS_Interval DEF Slot
<1>2. IsFiniteSet(S)
  BY <1>1, FS_Subset
<1> QED
  BY <1>2, FS_CardinalityType

LEMMA ToPromptType ==
  /\ IsFiniteSet(ToJoin) /\ Cardinality(ToJoin) \in Nat
  /\ Cardinality(ToJoin') \in Nat
  /\ ToPrompt \in Nat \X Nat /\ ToPrompt' \in Nat \X Nat
<1>1. ToJoin \in SUBSET Slot /\ ToJoin' \in SUBSET Slot
  BY DEF ToJoin
<1>2. /\ IsFiniteSet(ToJoin) /\ Cardinality(ToJoin) \in Nat
      /\ Cardinality(ToJoin') \in Nat
  BY <1>1, SomeSlots
<1>3. StepsLeft \in Nat /\ StepsLeft + 10 \in Nat /\ StepsLeft' \in Nat /\ StepsLeft' + 10 \in Nat
  BY DEF StepsLeft
<1> QED
  BY <1>2, <1>3 DEF ToPrompt

\* An iteration goes forward.
LEMMA ForwardStep ==
  ASSUME TypeOK, TypeOK', over, InLoop, MainLoop, ~JoinNext, mpc' # "waitkey"
  PROVE  /\ over' /\ InLoop'
         /\ ToPrompt'[1] < ToPrompt[1]
<1> USE DEF InLoop, StepsLeft, ToPrompt
<1>1. CASE LoopTop
  <2>1. over' /\ last'
    BY <1>1, Zenon DEF LoopTop, IsLast
  <2> QED
    BY <1>1, <2>1 DEF LoopTop, MainAt
<1>2. CASE NoInput
  BY <1>2 DEF NoInput, MainAt
<1>3. CASE \E t \in Text : EnterWord(t)
  BY <1>3 DEF EnterWord, MainAt
<1>4. CASE Match
  <2>1. mpc = "match" /\ mpc' \in {"can_spawn", "score"} /\ last' = last /\ over' = over
    BY <1>4 DEF Match, MainAt
  <2> QED
    BY <2>1
<1>5. CASE ScoreHit
  <2>1. over'
    BY <1>5, Zenon DEF ScoreHit
  <2>2. mpc = "score" /\ mpc' = "can_spawn" /\ last' = last
    BY <1>5 DEF ScoreHit, MainAt
  <2> QED
    BY <2>1, <2>2
<1>6. CASE CanSpawn
  BY <1>6 DEF CanSpawn, MainAt
<1>7. CASE Spawn \/ SpawnFails \/ NoSlot
  <2>1. mpc = "spawn" /\ mpc' = "reap" /\ last' = last /\ over' = over
    BY <1>7 DEF Spawn, SpawnFails, NoSlot, MainAt
  <2> QED
    BY <2>1
<1>8. CASE BeginReap
  BY <1>8 DEF BeginReap, MainAt, Goto
<1>9. CASE EndReap
  <2>1. mpc = "reaping" /\ mpc' = "top" /\ ~last /\ over' = over
    BY <1>9 DEF EndReap, MainAt, Goto
  <2> QED
    BY <2>1
<1> QED
  BY <1>1, <1>2, <1>3, <1>4, <1>5, <1>6, <1>7, <1>8, <1>9 DEF MainLoop

\* A join leaves one thread less to join.
LEMMA JoinStep ==
  ASSUME TypeOK, TypeOK', InLoop, JoinNext
  PROVE  /\ mpc = "reaping" /\ UNCHANGED <<mpc, over, last>>
         /\ Cardinality(ToJoin') = Cardinality(ToJoin) - 1
<1>1. mpc = "reaping" /\ UNCHANGED <<mpc, over, last>>
  BY DEF JoinNext, InLoop
<1>2. PICK i \in Slot : IsFirst(i, ToJoin) /\ words' = [words EXCEPT ![i] = Cleared(@)]
  BY DEF JoinNext
<1>3. i \in ToJoin
  BY <1>2 DEF IsFirst
<1>4. ToJoin' = ToJoin \ {i}
  BY <1>2, <1>3 DEF ToJoin, Cleared, TypeOK
<1>5. IsFiniteSet(ToJoin)
  BY ToPromptType
<1> QED
  BY <1>1, <1>3, <1>4, <1>5, FS_RemoveElement

\* What the word threads and Ctrl+C do while main is on its way.
LEMMA OthersStep ==
  ASSUME TypeOK, RoundInvariant, over, InLoop, ~MainLoop, [Next]_vars
  PROVE  over' /\ UNCHANGED <<mpc, last>> /\ (mpc = "reaping" => ToJoin' = ToJoin)
<1>1. CASE Interrupt \/ UNCHANGED vars
  BY <1>1 DEF Interrupt, vars, ToJoin
<1>2. ASSUME NEW i \in Slot, WordThread(i)
      PROVE  over' /\ UNCHANGED <<mpc, last>> /\ (mpc = "reaping" => ToJoin' = ToJoin)
  <2>1. UNCHANGED <<mpc, last>>
    BY <1>2 DEF WordThread, ThreadTop, ReadActive, ReadOver, DropNotDue, DropDue,
                Drop, LeaveLoop, Return
  <2>2. over'
    <3>1. CASE ThreadTop(i)
      BY <3>1, Zenon DEF ThreadTop
    <3>2. CASE Drop(i)
      BY <3>2, Zenon DEF Drop
    <3> QED
      BY <1>2, <3>1, <3>2 DEF WordThread, ReadActive, ReadOver, DropNotDue, DropDue,
                              LeaveLoop, Return
  <2>3. mpc = "reaping" => words' = words
    BY <1>2 DEF WordThread, ThreadTop, ReadActive, ReadOver, DropNotDue, DropDue,
                Drop, LeaveLoop, Return, LockFree
  <2> QED
    BY <2>1, <2>2, <2>3 DEF ToJoin
<1>3. ~StartGame /\ ~KeyPressed /\ ~CleanUp
  BY DEF InLoop, StartGame, KeyPressed, CleanUp, MarkAll, BeginJoin, EndJoin, Destroy, MainAt
<1> QED
  BY <1>1, <1>2, <1>3 DEF Next

LEMMA NearingStep ==
  ASSUME TypeOK, TypeOK', RoundInvariant, [Next]_vars
  PROVE  Nearing
<1> SUFFICES ASSUME over, InLoop, mpc' # "waitkey"
             PROVE  /\ over' /\ InLoop'
                    /\ IF MainLoop THEN <<ToPrompt', ToPrompt>> \in PairOrder
                                   ELSE ToPrompt' = ToPrompt
  BY DEF Nearing
<1>1. ToPrompt \in Nat \X Nat /\ ToPrompt' \in Nat \X Nat
  BY ToPromptType
<1>2. CASE MainLoop /\ ~JoinNext
  <2>1. over' /\ InLoop' /\ ToPrompt'[1] < ToPrompt[1]
    BY <1>2, ForwardStep
  <2> QED
    BY <1>1, <1>2, <2>1, PairLess
<1>3. CASE JoinNext
  <2>1. /\ mpc = "reaping" /\ UNCHANGED <<mpc, over, last>>
        /\ Cardinality(ToJoin') = Cardinality(ToJoin) - 1
    BY <1>3, JoinStep
  <2>2. Cardinality(ToJoin) \in Nat /\ Cardinality(ToJoin') \in Nat
    BY ToPromptType
  <2>3. ToPrompt'[1] = ToPrompt[1] /\ ToPrompt'[2] < ToPrompt[2]
    BY <2>1, <2>2 DEF ToPrompt, StepsLeft
  <2>4. over' /\ InLoop' /\ MainLoop
    BY <1>3, <2>1 DEF InLoop, MainLoop
  <2> QED
    BY <1>1, <2>3, <2>4, PairLess
<1>4. CASE ~MainLoop
  BY <1>4, OthersStep DEF ToPrompt, StepsLeft, InLoop
<1> QED
  BY <1>2, <1>3, <1>4

\* Once the game is over, main comes to the prompt after at most one more iteration:
\* whatever the word threads do meanwhile, each of main's own steps leads towards it
\* (game_logic.c:620-656).  With MeasuresEnd this is what GameOverIsShown needs besides
\* the scheduling of main and of the threads it joins.
THEOREM GameOverIsNear == Spec => [][Nearing]_vars
<1>1. TypeOK /\ RoundInvariant /\ TypeOK' /\ [Next]_vars => [Nearing]_vars
  BY NearingStep
<1> QED
  BY <1>1, RoundInvariantHolds, PTL DEF Spec

=============================================================================
