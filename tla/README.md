# Rain Typing Game: TLA+ models, model checking and proofs

Rain is a typing game for the terminal: words fall down the screen, the player
types them before they land, and a server keeps accounts, scores and the word
list.  This directory models the two programs of `src/` (the client
`src/client`, the server `src/server`, and what they share in `src/common`).

    tlc -workers 2 -config MCServerSafety.cfg MCServerSessions.tla   # a run
    tlapm ServerSessions_proofs.tla                                  # the proofs
    tlapm RainGame_proofs.tla
    tlapm ClientApp_proofs.tla
    tlapm WordFile_proofs.tla
    tlapm Leaderboard_proofs.tla
    tlapm Loops.tla

`PROJECT.json` lists every run with its configuration, the source lines each
definition stands for, and the mutation each property detects.

## 1. The system

| part | state it keeps | operations | talks to |
|---|---|---|---|
| **Server process** (`server_main.c`) | listening socket, `server_should_terminate` | start (open files, clear the table), accept, shut down on SIGINT/SIGTERM | starts a detached thread per connection |
| **Sessions** (`server_network.c`) | `logged_in_users[100]` under `logged_in_users_mutex`; per thread `current_user` | receive, dispatch on six message types, reply, clean up | accounts, scores, word list by call; the client by messages |
| **Accounts** (`auth_manager.c`, `db_handler.c`) | `users.txt` under `users_file_mutex` and `flock` | register (find, then append), login (find, compare hashes) | called by the session threads |
| **Scores and leaderboard** (`score_manager.c`, `db_handler.c`) | `scores.txt` under `scores_file_mutex` and `flock` | append a score; load at most 500 lines, sort, pick 10 players, sort | called by the session threads |
| **Word list** (`word_manager.c`) | `words.txt`, `g_wordlist` | load at most 256 words of the file; write the default words | called by main before it accepts; session threads only read `g_wordlist` |
| **Round** (`game_logic.c`) | `words[20]` under `words_mutex`; a hash table (64 buckets) of the texts on screen under `hash_mutex`, which is only ever taken with `words_mutex` held; score, lives, `game_is_over` under `game_state_mutex` | key input, spawn, fall, hit, land, reap, clean up | one thread per word; word list from the server; Ctrl+C |
| **Client main and menu** (`client_main.c`, `auth_ui.c`, `leaderboard_ui.c`, `how_to_play_ui.c`) | `is_game_running`, `sigint_received`, `sigint_game_exit_requested`, `user_id`, the word store `g_word_manager` | login, menu, play, submit the score, logout, exit | the round by call; the server through the network part |
| **Client network** (`client_network.c`) | `client_sock` | connect, send, receive, close when send or recv fails | the server |
| **Password hash** (`hash_util.c`) | none | SHA-256 of a password | OpenSSL |

The client sends one request at a time and waits for its reply.  The server has
no shared state between connections except the table and the three files.

**What is hard here, and what correctness means for each part**

* *Sessions.*  Handlers are made of several critical sections with nothing held
  in between (check the table / check the password / take a slot).  Slots are
  freed by *name*.  Connections end in any step, the process ends at any moment
  and keeps only the files.  Correct: the table and the threads' own idea of who
  is logged in agree; client and server agree on it; every request is answered;
  a client that vanished is released.
* *Accounts.*  Find and append are separate sections; appends fail, break off after a
  part of the line, or report a failure after the write; reads break off; a `:` in a
  name splits its line elsewhere.  Correct: an account never changes once its line has
  its newline; what was acknowledged was written to its end; a write that broke off
  spoils one line and no more; as long as none did, only somebody with the password
  plays.
* *Scores and leaderboard.*  A copy of a growing file is ranked, with two
  limits; a write that breaks off glues the next line to its fragment.  Correct: a
  board lists each player once, with the player's best loaded score, in order, and
  invents nothing; a broken write costs one line.
* *Word list.*  A byte reader with a short buffer, for which a blank line looks
  like the end of the file; defaults that overwrite the file, and a jump back to the
  start; crashes in between.  Correct: the server always serves words, they are
  whole ends of lines, a proper file is loaded completely and kept, and the loop
  ends.
* *Round.*  Each word is a thread; it races the player's hit, the end of the
  game, the reuse of its slot and its own join; main joins while it holds the
  mutex the threads need; the table of texts is kept in step with the words by
  five different pieces of code.  Correct: a word counts once; the score is what
  was hit; lives and game over agree; no entry of the table is stale; no join
  deadlocks; the round ends and leaves no thread behind.
* *Client.*  Signals choose between two flags that are read in a dozen places; a
  request fails at any byte, and the menu cannot connect again; the word store is
  freed after each round; a field that is full ends without Enter; a round that
  cannot start leaves the keyboard in another mode.  Correct: Ctrl+C leads out of
  the round, or out of the program, from wherever main waits; rounds have words; the
  connection is used as the server expects; what is sent is what the fields of the form
  hold of what was typed.

The hazards, each at its line and with the properties that watch it, are in
`PROJECT.json`.

## 2. Modules

| module | models | source |
|---|---|---|
| `ServerSessions` | the server: connections, requests, sessions, the two files, crash and restart; the peer client's protocol | `server_main.c`, `server_network.c`, `auth_manager.c`, `db_handler.c`, `score_manager.c` (append) |
| `ServerSessions_proofs` | the inductive invariant of the server, its consequences, the refinement of `LoginService` and of `PeerProtocol`, and the progress of its threads, proved | – |
| `LoginService` | what the server promises of accounts and sessions, abstractly; `ServerSessions` implements it | – |
| `PeerProtocol` | how a client uses its connections: what client and server assume of each other; `ClientApp` and the clients of `ServerSessions` both implement it | – |
| `ClientApp` | the client around its rounds: main, menu, login screen, request/response, word store, Ctrl+C | `client_main.c`, `client_network.c`, `auth_ui.c`, `leaderboard_ui.c`, `how_to_play_ui.c`, `game_logic.c` (word store, start) |
| `ClientApp_proofs` | the inductive invariant of the client, its consequences, the refinement of `PeerProtocol`, and the way out after Ctrl+C, proved | – |
| `RainGame` | a round: main loop, word threads, table of texts, Ctrl+C, clean-up | `game_logic.c`, the signal handler in `client_main.c` |
| `GameRound` | what a round promises the player, without threads; `RainGame` implements it | – |
| `RainGame_proofs` | the inductive invariant of a round, its consequences, the refinement of `GameRound` and what follows from it, the joins and the way to the prompt, proved | – |
| `WordFile` | `words.txt`, its loader, the default words, crashes while they are written | `word_manager.c` |
| `WordFile_proofs` | the inductive invariant of the loader, its consequences, and the measure that makes it end, proved | – |
| `Leaderboard` | `scores.txt`, broken writes, loading, and the computation of a board | `db_handler.c`, `score_manager.c` |
| `Leaderboard_proofs` | what broken writes can cost, and what the loader, the two sorts and the pass between them make of any file, proved | – |
| `Loops` | lemmas for the other proofs: induction over the turns of a loop, and orders without infinite descent | – |
| `MCServerSessions`, `MCClientApp`, `MCRainGame`, `MCWordFile` | values for TLC (`Leaderboard`'s instance needs none) | – |

How they compose: `ClientApp` has a round as one place (`round`), whose inside is
`RainGame`; the two share the Ctrl+C flag and the fact that a round is entered with
a word list (`RoundHasWords`, which `RainGame` assumes).  `ClientApp` and
`ServerSessions` meet at `PeerProtocol`: the first shows that the real client keeps to
it, the second that the clients the server was checked with do no more than it
allows and are not disturbed in it by the server's crashes.  `ServerSessions` takes scores and words as values; `Leaderboard` and
`WordFile` look into the two files.

Operators whose name begins with `Mut` are plausible bugs, each an alternative to
the definition that follows it; no specification uses them.  Each property
is violated when its mutant takes that definition's place.

### ServerSessions

An action is one critical section of one connection's thread together with the
thread-local work around it.  `pc[c]` is where the thread is in `handle_client`:

    closed -> recv -> register -> append ---------.
                   -> login -> find -> add_slot --+
                   -> score ----------------------+-> send -> recv ...
                   -> leaderboard, wordlist ------+        -> cleanup -> closed
                   -> logout ---------------------'

`cur[c]` is `current_user`, `ok[c]` the `success` of the reply being built, `req[c]`
the request, `peer[c]` what the stock client at the other end is doing: at the
login screen, in the menu, after logout, or gone.  It can be gone at any moment.
`slots` is the table; a slot that is inactive holds `NoUser`.  `users` and `scores`
are the lines of the files.

* *File faults.*  An append (`AppendOutcomes`) is stored and reported, lost and
  reported as lost, stored and reported as lost (`close` fails), or torn: `dprintf`
  leaves the first part of the line, without its newline, and reports a failure.  A read
  fails at once, or breaks off part-way; the code takes that for the end of the file.
* *Torn files.*  `users` and `scores` are the lines with a newline, `userTail` and
  `scoreTail` the fragment behind them; the next write to the file is glued to it.  A line
  of `users.txt` keeps both what was to be written (`name`, `pw`) and what
  `find_user_in_file` reads it as (`reads`).  A fragment may read as nothing, as the
  account it was to be (all but the newline was written), or as one with a piece of its
  hash, which no password opens (`Fragments`).  A line glued to a fragment may read as
  nothing, as the account of any other name with the hash that was written or with none,
  or as the end of the file: a text that fills the buffer of `read_line` leaves its newline
  behind, which reads as an empty line (`Behind`).  `torn` counts the writes that broke
  off.  That a part of a glued text may begin with the `:` before a hash, and then pass for the
  account of the *empty* name, is left out: a login under that name would take a slot that
  `remove_logged_in_user` never frees, as the empty `current_user` means no session.
* *Names.*  `ReadAs` says which name a stored line is read back as: the name
  itself, for a name with `:` the part before it, or nothing if the line does not
  parse.
* *Process.*  SIGINT/SIGTERM closes the listening socket, then main returns and all
  threads vanish; a crash does it at once; SIGPIPE does it when a reply meets a
  reset connection.  `Start` clears the table and keeps the files.

`ClientsKeepProtocol` maps each connection to `PeerProtocol`: the phase from `peer`,
the unanswered request from `req` and `pc`; the end of the process closes all.

Not modelled: the error reply to unknown types, the closing of a connection that
sends more than 10 KB (the stock client does neither), the layout of messages,
`malloc` and `pthread_create` failing in the accept loop (the connection is closed at
once), an account of the empty name in a torn file (above), loss of written data in a
power failure.

What the properties say once a write broke off:

* `AcknowledgedIsStored`: success is still reported only for lines that were written to
  their newline, and the lines that read as something else than was written, together
  with the fragments, are at most as many as the writes that broke off
  (`OneLinePerTear`, in both files).  It does not say that a spoilt line can be read, and
  cannot: such an account cannot be opened although its registration was acknowledged.
* `AccountsAreStable` speaks of names that are `Firm`: read from a line with its newline.
  A fragment that passes for an account may change or vanish with the next line.
* `StillOpen` (in `SessionInvariant`) and `OnlyAccountsPlay` hold as long as `torn` is 0:
  afterwards a fragment may have let a password pass and be gone when the slot is taken,
  and a glued line may read as the account of a name nobody registered.
* `LoginService` has `firm` accounts, which nothing changes, and a `Damage` step, after
  which the others may appear, change and vanish; `intact` says that it never happened,
  and only then does `LogIn` require the password of an account that still exists.

### RainGame

An action is one critical section.  Main holds `words_mutex` throughout
`cleanup_finished_threads` and the join loop of `safe_game_cleanup`, so those are
several actions, during which `LockFree` is false.  `th[i]` is where the thread
of slot `i` is in `word_thread_func`:

    top -> read -> check -> drop -> top ...        (loop)
              \-> exit <-/
                  exit -> finishing -> done -> none (left, returned, joined)

`mpc` is where main is: one iteration is `top, input, (match, score), can_spawn,
(spawn), reap/reaping`; the end of a round is `waitkey, mark, join/joining,
destroy, off`.  `words` is the array with every field the code tests (`tid` says
whether `thread_id` is non-zero), `table` the set of texts in the hash table,
`hit` what `process_game_input` carries from its first critical section to its
second, `last` that the loop condition has been read as false.  Four history
variables (`spawned`, `settled`, `earned`, `late`) exist only for properties.

Texts are model values with a length; picks longer than 29 characters (`Long`) are
looked up whole and stored cut, as the code does.  A spawn tries up to 100 random
picks; `MayExhaust` says whether all of them may be on the screen (with the word
then spawned nevertheless).  Keys are taken one word at a time: `EnterWord` is the
key that ends a word.  Time is left out: any interval may have elapsed.

`Timely` is the one assumption about time.  When the game is over main first
sleeps 30 ms and draws; word threads sleep 8 ms.  With `Timely` they leave their
loops before main starts to clean up; without it they may not (a loaded machine).
Safety is checked and proved without it.  Liveness of the clean-up needs it, and
`rain_stuck` shows what happens without.

`GameRound` forgets slots, threads and texts: `falling` is the number of active words,
`doing` what main has begun (an entry between its check of `game_is_over` and its
match, a hit between its two critical sections, a spawn between its check and the
new word).  That `doing` is one value is the claim that at most one entry and at
most one new word can slip past game over.
Its `Land` costs *at most* a life: the round does not tell kill words from others, so that
each other word costs one is not among its promises.

Not modelled: a table node that cannot be allocated, drawing.  Mutexes that cannot
be initialised and a screen that is too small end a round before it begins; they are
in `ClientApp`.

### ClientApp

An action leads from one place where main can block, or looks at a Ctrl+C flag, to
the next: `pc` is that place, and at `pc = "key"` (`wait_for_key_or_signal`) `after` says
where main goes on.

    boot -> connect -> auth -> authkey -> id -> pw -> ask -> reply -> key -> menu
    menu -> menukey -> ask (words, board, logout) | round -> over -> ask (score)
                     | small | confirm | key (how to play: two pages)

`ask` is the request before it is sent, `reply` the wait for the answer; `owed` is the
request whose answer the socket may still carry.  Each of the failures of
`send_request_and_receive_response` is there: no connection, Ctrl+C before or during it, a
send or recv that fails (the socket is closed), an error or a wrong type (the socket
stays).  An answer longer than the caller's buffer (-6) is not, as both sides use the same
structures.  A message is sent or received whole or not at all.  `store` is the word store
(freed, without words, loaded), `table` the life of the hash table's mutex, `nodelay` the
keyboard mode, which `GetchErr` reads.  `meant` is what the player wants to log in with,
`draft` what the form holds of it.

The fields of the form have limits (auth_ui.c:46).  The 31st key of a name ends the ID
field, and the keys behind it, with the player's Enter, go to the password field:
`Full` are the names of 31 and more characters, `Kept` what the ID field keeps of a name,
`Spill` what is left of a full one.  A player who goes on typing thus sends the hash of
`Spill` (of the empty password, for a name of exactly 31), one who notices the change of
field that of the password.  A password ends its field at the 63rd key; `KeptPw` is what
`pw_plain` keeps, and the keys behind it reach `wait_for_key_or_signal` and the screen after
it, which may get any key anyway.  `FieldsAssumption` says no more than that fields keep the
heads of what is typed: what fits is kept whole, and cutting twice cuts no more.
`SentAsTyped` therefore says that a name below the limit goes out whole with the hash of the
kept password, and that of a full name the head goes out with one of the two hashes.

`Exit` is `perform_cleanup_and_exit`; it
destroys a mutex that may never have been made, which is undefined, and the process
ends.

### WordFile

A line is its length and whether it ends in CR; a word is the piece of a line it was
read from (line, first character, length), so that "the end of a line" can be said
without characters.  `Room`, `Chunk` and `After` are `read_line_direct`: it fills the buffer
before it sees the newline, so a line that exactly fills it leaves its newline to be
read as a blank line.  The administrator may replace or remove the file while the
server is down; any file operation may fail (`MaxFaults` per start), `dprintf` after a
part of a word; the process may be killed anywhere.

### Leaderboard

`lines` is the scores file, appended to at any time.  `Load` copies the first
`MaxRecords` lines that parse; `Rank` works on the copy, with lines possibly
appended since: sort by name and best score, open an entry at each player's first
line while there is room, sort the entries by score.  The two loops are recursive
functions of the turn (`Loading`, `Collecting`), each with one turn as an operator of
its own (`Stored`, `Entry`).  `qsort` is modelled by what it returns: a permutation in
order, any of them where elements compare equal (`Sortings`, `Rankings`).  Players are
positive numbers, ordered as `strcmp` orders their names; 0 is the empty name, with which
`last_processed_user` starts.  `board` is empty from a load until its ranking.

A write may break off at any byte (`SubmitTorn`); `tail` is then a fragment without a
newline.  Lines and fragments are what the loader takes them for: a name and a
number, something it skips, or (a text that fills its buffer of 47 characters to the
last, whose newline is then read as a blank line) the end of the file.  The fragment
may itself pass for a score with fewer digits, and the next line, glued to it, for a
score of another name.

### Runs

All runs explore the whole state space of their instance.

| run | asks | bounds |
|---|---|---|
| `server_safety` | Do sessions, table and files stay consistent under every interleaving, fault, crash and restart?  Do client and server agree?  Is it the abstract service? | 2 connections, 1 slot (so the table is full), 2 names of which one is read back as the other, 1 password, 2 account lines, 1 score line, all faults, 1 write that breaks off in either file (the next line is glued to it, and one more does not fit); 473,894 states |
| `server_service` | Does the table count the sessions?  Do the clients keep `PeerProtocol`?  Are requests answered and gone clients released? | 2 connections, 2 slots (two sessions of one name fit), 2 names and a refused one, 1 password, 2 account lines (two registrations of one name), no scores, failing reads, appends and `close`, no torn write; 85,778 states |
| `client` | Does the client keep the protocol, play only with words, send what was typed, and let Ctrl+C through, whatever fails? | 3 names (a short one, one that just fills the field, a longer one with the same head), 3 passwords (the empty one, one that fits, a longer one with the same head), every failure, any number of rounds and restarts; 2,430 states |
| `rain_safety` | Score, lives, table, slots and threads in every order; is it the abstract round? | 2 slots, 3 words (a slot is reused while the other word falls), 2 rows, 2 lives, kill and bonus words, a long word, failing thread creation, several rounds |
| `rain_live` | Do words come down, joins return, and rounds end? | 2 slots, 2 words, 1 row, 1 life |
| `words` | Does the server always get words, whole ones, without spoiling a proper file or looping? | every file of up to 3 lines of length 0 to 4 with and without CR, where words have at most 1 character and the buffer holds 3: shorter, exact, one too long and two pieces all occur; 2 words at most; 2 faults per start |
| `board` | What does a broken write cost?  Is a board honest, complete up to its limits, and monotone? | 3 players, scores of one and two digits, 4 lines, 3 records, 2 entries: each limit is passed; 1 broken write |
| `server_two_sessions`, `server_killed`, `rain_stuck`, `rain_duplicate`, `words_overwritten` | statements of the README and the comments that the code does not keep | the smallest instance that shows it |

Two connections suffice for the races of the server: each critical section looks
at one name, so a third thread only adds another copy of one of the two roles
(same name, other name), and a full table is reached with one slot.  One broken write
with one line behind it shows both what a fragment passes for and what glues to it; a
second one repeats it at the new end of the file.  In
`server_safety` there is one password; two lines of one name still differ, as the line of
the name with a `:` reads as the other name with no hash, which the password does not open:
that is also its login with a wrong password.  That the first line of a name
decides, for any passwords and any number of broken writes, is proved.  `server_service`
asks about threads, for which a torn file is one more outcome of a look-up that fails
or succeeds, so it has none.  In a round,
a thread meets main and at most the thread whose text equals its own; two slots
give both, and three words let a slot be taken again.  What does not rest on
bounds is proved (section 3).  Bounds on counters: `MaxUserLines`, `MaxScoreLines`,
`MaxLines` (room on the disk: an append beyond it fails as on a full disk), `MaxSpawns` (words
per round; later spawns do not come due), `MaxTorn` (writes that break off, in the server and in `Leaderboard`), `MaxFaults` (failing
file operations per start).  The client needs none.  In `board` no name has a `:`
(`Garbled` is empty); such names are in `server_safety`.

Deadlock is checked in every run but two.  In `rain_safety` and `rain_stuck`
(`Timely = FALSE`) main may really stop, joining a thread that waits for the mutex.

**Symmetry** is used only for the two connections of `server_safety`; no property
of that run is a liveness property and none names a connection.

**Fairness.**  Server: weak fairness of `Handle(c) \/ Finish(c)` for each connection: a thread holds
one mutex at a time, for a bounded section, and never waits while it holds it;
send and recv return once the client is gone.  Nothing is assumed of clients, of
accepting, or of restarts.  Round: weak fairness of main and of the thread steps
that need no mutex; strong fairness of the thread steps that need `words_mutex`,
since main takes it again in every iteration but leaves it free for a 30 ms sleep;
strong fairness of `DropDue`, since an interval that runs does elapse although the
thread looks again and again before it has.  Nothing is assumed of the player:
a round may wait for ever at the prompt, and `GameReturns` starts after the key.
Client: weak fairness of main (`Screens`), which includes that the player presses the
keys main waits for and that a request is answered or its connection breaks
(`EveryRequestAnswered` of the server, TCP otherwise); a round that goes on is not
assumed to end, only one whose Ctrl+C flag is set, which its loop reads in every
iteration.  Word list: weak fairness of the loading process; it may still be killed.

## 3. Proofs

### The server

`ServerSessions_proofs` proves, for any finite set of connections, any number of
slots, any names, passwords and scores, any reading back of names, any choice of
failing file operations and any number of writes that break off, that

    ServerInvariant == TypeOK /\ SessionInvariant /\ OnlyAccountsPlay
                       /\ AcknowledgedIsStored

holds in every reachable state, where

    SessionInvariant == (every connection: RequestShape /\ ReplyShape /\ StillOpen)
                        /\ ClientServerAgree /\ SlotsMatchSessions /\ SlotsTaken

The assumptions are the named ones of `ServerSessions`.  What the parts are for:

* `RequestShape` ties `pc`, `cur`, `req` and `peer` together.  Without it a thread at
  `add_slot` might have a slot already, and a request might lack the field that its
  handler reads: `TypeOK` itself is not inductive.
* `ReplyShape` says what a reply that is about to go out tells the client of its
  session; `ClientServerAgree` follows when it arrives.
* `StillOpen` covers the gap between password check and slot: as long as no write broke
  off the account cannot have changed, because the files only grow (`FilesGrow`) and the
  first line of a name decides (`AccountsKept`).
* `OneLinePerTear` (in `AcknowledgedIsStored`) is what the other parts know of torn files:
  with `torn` at 0 there is no fragment and no spoilt line (`WholeFile`), so every line
  reads as it was written (`WholeReading`), and a name that is read has a line.  A write
  spoils a line only behind a fragment, which it ends (`SpoiltByWrite`,
  `ScoreSpoiltByWrite`): that is why `TearStep` can pay for each spoilt line with a
  broken write.
* `SlotsTaken` counts all sessions, `SlotsMatchSessions` those of a name.  A free
  slot thus means fewer sessions than slots, which `LogIn` of `LoginService` needs;
  and a session that ends finds a slot with its name.

One lemma per part, each with one step per action: `TypeStep`, `ShapeStep`,
`CountStep` (on `CountLogIn` and `CountLogOut`), `AccountsStep`,
`AcknowledgedStep` (with `TearStep`), `StillOpenStep`.  They meet in `StepInvariant` and
`ServerInvariantHolds`.  `ServiceStep` then maps every action to a step of
`LoginService` or a stutter (as long as no write broke off, an append creates an
account if the name had none, whoever raced; a write that breaks off, and each one after it,
is `Damage` or a stutter, which leaves the firm accounts alone since their lines stay the first
of their names; `add_slot` logs in; clean-up logs out; the end of the process loses all
sessions), and `ServerImplementsService` concludes.  `ServerKeepsProtocol` does the same
for `PeerProtocol`, with one more invariant (`Pending`: what the client is waiting for is
what its phase lets it ask).  `SessionInvariant` is
an invariant and the refinement a property of `server_safety`.

`ThreadsGoForward` is the safety half of `EveryRequestAnswered` and
`GoneClientIsReleased`: `ToGo` counts the steps a thread is from the end of its
connection; each of its own steps makes the count smaller, and only a new connection
or a new request of a client that is still there makes it larger.  What is then left to
fairness is that a thread which can step does.

### The round

`RainGame_proofs` proves, for every length of the words array, word list, screen
height, number of lives, and every choice of the assumptions about failures and
time, that the invariant

    RoundInvariant == WordShape /\ ThreadShape /\ MainShape
                      /\ NoStaleEntry /\ EveryWordSettledOnce /\ ScoreIsEarned
                      /\ GameOverAtZeroLives /\ OneLateScore /\ FlaggedThreadsHaveLeft

and `TypeOK` hold in every reachable state.  The only assumptions are the named
ones of `RainGame` (`WordAssumption`, `BoundsAssumption`, `ChoicesAssumption`).

None of the six properties is inductive alone:

* `FlaggedThreadsHaveLeft` needs to know that the word in a flagged slot is not
  active and that a flagged slot's thread has passed its last section
  (`WordShape`, `ThreadShape`).
* `NoStaleEntry` needs that a slot that is reused or joined held no active word,
  which is `FlaggedThreadsHaveLeft` again, with `WordShape`.
* `EveryWordSettledOnce` needs the same for `Spawn`: a reused slot would otherwise
  drop an unsettled word.  Its steps are about cardinalities (`OneFewer`,
  `OneMore`, `SameActive`).
* `ScoreIsEarned` is about the moment between the two critical sections of a hit;
  `MainShape` says that the slot keeps its text until then and that `earned`
  is already ahead by what `ScoreHit` will add.
* `OneLateScore` needs that nothing was scored late before game over, or while
  main is matching (`MainShape`); `GameOverAtZeroLives` that a landing subtracts only
  before game over.

The proof is laid out as six lemmas, each with one step per action: `TypeStep`,
`ThreadStep`, `CounterStep`, `MainStep`, `TableStep`, `SettledStep`.  They meet in
`StepInvariant` and `RoundInvariantHolds`, from which the other theorems follow.
`NoThreadOutlivesRound` follows from `ThreadShape`.

`RoundImplementsGameRound` maps every step of main (`MainRefines`) and of a word thread
(`ThreadRefines`) to a step of `GameRound` or a stutter.  A thread that gives back an active
word is a `Vanish`, which the abstract round allows only after game over: that needs
`ExitShape` (a thread leaves its loop with a word still falling only when it has seen
game over), which rests on `RoundInvariant`.  `GameOverIsFinal` then reads off the round
what holds of `GameRound` (`Bounds` and `OverIsFinal`): points are never taken away, no life
is lost after game over, and of what main had begun at most one entry scores and at most
one word appears after it.

`JoinsCannotDeadlock`: main holds `words_mutex` while it joins, and joins only threads that
need it no more.  In its loop this is `FlaggedThreadsHaveLeft` and unconditional; in the
clean-up it is proved under `Timely`, an assumption on the constant and thus of the theorem
only, and `rain_stuck` shows what happens without.  `GameOverIsNear` is the safety half of
`GameOverIsShown`: after game over each step of main makes `ToPrompt` (its place in this and
at most one more iteration, then the threads still to be joined) smaller, and no
step of a word thread or of the player changes it.

### The client

`ClientApp_proofs` proves, for any names, passwords, hash and choice of failing calls,
that `TypeOK /\ ClientInvariant /\ RoundHasWords /\ SentAsTyped` is an invariant, and from it
`CtrlCIsRouted` and `ImplementsPeerProtocol`.  `ClientInvariant` says what the properties
leave out: `is_game_running` is set exactly in case '1'; no Ctrl+C for a round is pending
where the menu reads its key; a request is in `req` exactly while one is made, and owed
exactly while its answer is awaited on an open socket; a name is known exactly from the
menu on; and the login form holds what its ID field keeps of the name the player meant.
What the fields keep is given by constants with `FieldsAssumption`, so `LoginsAreSentAsTyped`
says what is sent for names and passwords of any length.  One lemma per group of
actions (`ScreenSafe`, `RequestSafe`), with `ExitSafe`, `RoundStarts`, `ProceedSafe`, `FailSafe` and
`MenuAskSafe` for what several actions share; `RequestKinds` once tells the kinds of
request apart by their type.  For the refinement a step is one of five things to the
connection (`Stays`, `Opens`, `Asks`, `Answered`, `Ends`): `ClientRefines` says which,
`PeerStep` that each is allowed.

`ExitIsNear` and `MenuIsNear` are the safety halves of `QuitIsHonoured` and
`InterruptReturnsToMenu`: with Ctrl+C set outside a round, main is at most three of its steps
from its exit, wherever it is; from the end of a round it is at most four from the menu,
whatever becomes of the score.

### The word list

`WordFile_proofs` proves for every file, line length, list size and default list that

    WordInv == TypeOK /\ ServesWords /\ WordsEndLines /\ CleanFileIsServed
               /\ ReaderInv /\ FileInv

is an invariant.  `ReaderInv` describes the loop half-way: the reader is within a line,
behind all the words it has found, and in a proper file it is at the start of the line
after the last word.  `PieceFacts` is what one call of `read_line_direct` returns.
`CleanFilesAreKept` follows as an action property.

`LoadComesToAnEnd` is the safety half of `LoadEnds`.  Every step of the load makes `Measure`
smaller: the failures that may still come, then the place in the function (a file that is
not of proper lines costs more than all places after the jump back to the start), then the
words left to write or the lines and characters left to read.  `ProgressInv` says that what
is being written are the default words from the first on; a complete set of them is a
proper file, so the jump is taken at most once per failure.

### The scores file and the boards

`Leaderboard_proofs` proves for any players, scores, file, record limit, board size and
number of broken writes that `Inv == DiskInv /\ BoardInv` is an invariant, and from it
`TypeOK`, `OneLinePerTear`, `BoardIsHonest`, `BoardShowsBests` and `ScoresNeverDrop`.

* `DiskInv`: a fragment at the end of the file is paid for by a broken write, and the
  next line ends it.
* `BoardInv`: what was loaded, and the board, is made of lines of the file, but for one
  text that a reader met as a fragment and that may have changed since (`FromFile`).

Between the two are the loops and sorts, proved about as operators:

* The library's induction takes a predicate as a parameter, which the provers cannot
  instantiate.  `LoopInduction` of `Loops` states it for the *set* of turns at which a fact
  holds; `LoopRuns` says that a loop defined turn by turn exists.  `LoadingTurns` and
  `CollectingTurns` use it to open the recursive functions, and everything else uses only what
  one turn does.
* The loader: every record comes from a line that parses, the array does not overflow
  (`LoadedRecords`), and a line that is appended leaves all earlier turns as they were
  (`LoadingGrows`; this is why no score drops).
* `qsort`: a permutation neither loses nor invents an element (`PermutedElements`), and
  one in order exists (`SortExists`), so that `Rank` is not blocked: `EveryLoadIsRanked`.
* The pass between the sorts: its invariant `Scanned` says that the entries are first lines
  of their names, the names ascend, `last_processed_user` is the last of them, and no
  name was passed over while there was room.  With the order by best score, the first line
  of a name is the best (`CollectedTells`), and `Tells`, what the board says of the records,
  survives both sorts (`TellsOfUnsorted`, `RankedTells`).

### Only model-checked

The safety properties of the passing runs are all stated by a theorem.  Liveness itself is
out of the prover's reach (fairness and ENABLED): `EveryRequestAnswered`,
`GoneClientIsReleased`, `WordsDoNotHang`, `ReapingEnds`, `GameOverIsShown`, `GameReturns`,
`QuitIsHonoured`, `InterruptReturnsToMenu` and `LoadEnds` stay with TLC.  For six of them the
part that is not about scheduling, that the way to the goal gets shorter with every step and
is not made longer by others, is proved as above, on orders that `MeasuresEnd`, a lemma of `Loops`, shows to have
no infinite descent; for `ReapingEnds` and `GameReturns`, `JoinsCannotDeadlock` excludes the
wait that could block them.  `WordsDoNotHang` has no such theorem: its words fall when an
interval elapses, and time is not in the model.

## 4. Where code and documentation disagree

Shown by a run (details and quotations in `PROJECT.json`):

1. Two logins of one account at the same time both succeed (`server_two_sessions`).
2. A reply to a reset connection ends the server by SIGPIPE (`server_killed`).
3. The clean-up of a round can deadlock with a word thread (`rain_stuck`).
4. A falling word can be spawned twice, because a leaving thread takes its text off
   the table a second time (`rain_duplicate`).
5. A `words.txt` that begins with a blank line is overwritten with the default words
   (`words_overwritten`).

Visible in the models, with no run of their own: a name with `:` is accepted
although README.md:150 speaks of letters and digits (`ReadAs`); a word of 30 or
31 characters is never found in the table (`Long`); `spawn_word` forgets the thread
id of a slot it reuses, so that thread is never joined (`Spawn`; harmless
to the round, as `FlaggedThreadsHaveLeft` says); a kill word that lands costs no
life, although README.md:180 says a word that lands does
(`LivesAfterLanding`); the board drops players in the order of their names before
it ranks them (`Entry`); two registrations of one name at the same time both succeed,
and only the first password works (`AppendUser`); after 500 lines no score reaches the
leaderboard any more (`Loaded`); an ID of 31 or more characters makes what is typed behind
the 31st the password, and a password of more than 63 is cut without a word
(`PasswordsRead`); a registration that was acknowledged cannot be opened when its line was
glued to the fragment of a write that broke off (`Behind`); after a lost connection the menu stays, and every request
fails until the player exits (`Fail`).

## 5. Plan

Done: `ServerSessions`, `LoginService`, `RainGame`, `Leaderboard` and the proofs of the first
two; then `ClientApp`, `PeerProtocol`, `WordFile`, `GameRound`, the broken writes of
`Leaderboard`, and their proofs; then the proofs of the boards, of the joins, and of the
measures behind the liveness properties; then the writes of `ServerSessions` that break off,
and the limits of the login form.

Left:

1. What follows from `LoginService` alone, as `GameRound` has it for the round.
2. A score followed from the round to the board in one model; `ClientApp` and
   `ServerSessions` meet at `PeerProtocol` only, which says nothing of scores.
3. The account of the empty name that a torn `users.txt` may hold.

## 6. Not modelled

The password hash (a library call; hashes are distinct values here), the byte layout of
messages, messages no stock client sends, what the screens show, `set_drop_interval` (it
has no caller), undefined behaviour of the exit path beyond the end of the process, the
thread id that `pthread_detach` is given when `pthread_create` fails, the build files.
