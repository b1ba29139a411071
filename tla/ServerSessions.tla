--------------------------- MODULE ServerSessions ---------------------------
(***************************************************************************)
(* The game server: one detached thread per connection (handle_client in   *)
(* server_network.c), the table of logged-in users behind one mutex, the   *)
(* accounts file and the scores file behind one mutex each                 *)
(* (auth_manager.c, score_manager.c, db_handler.c), and the main thread    *)
(* that accepts, shuts down and is started again (server_main.c).          *)
(*                                                                         *)
(* Grain: an action is one critical section of one thread, with the        *)
(* thread-local work around it.  What a thread does between two critical   *)
(* sections touches only its own stack, so nothing is lost.                *)
(*                                                                         *)
(* The peer of a connection is the stock client: it logs in before it uses *)
(* the menu, and it waits for each reply before the next request.          *)
(*                                                                         *)
(* A write to a file may break off (the disk fills up): it leaves a        *)
(* fragment without a newline, which the next line is glued to.  A line of *)
(* users.txt is kept with what find_user_in_file reads it as.              *)
(***************************************************************************)
EXTENDS Naturals, Sequences, FiniteSets

CONSTANTS
  Conn,           \* sockets, each served by a thread while it is open
  User,           \* names a player can type
  NoUser,         \* the empty current_user / the name in a free slot
  RefusedName,    \* names register_user_impl refuses (the empty name)
  ReadAs,         \* the name a line stored for a name is read back as
  Password,       \* password hashes
  NoHash,         \* what stands for a password and is none
  EndOfFile,      \* what read_line takes an empty line for
  Score,          \* scores a client submits
  MaxSlots,       \* MAX_LOGGED_IN_USERS
  IoFault,        \* which file operations may fail: "read", "append", "close"
  MaxUserLines,   \* room for accounts on the disk (bound)
  MaxScoreLines,  \* room for scores on the disk (bound)
  MaxTorn         \* writes that break off (bound)

\* A name without ':' is read back as itself.  One with ':' is cut at the first
\* ':' and read as its head, or skipped (NoUser) when the rest is too long.
ASSUME NamesAssumption ==
  /\ NoUser \notin User /\ EndOfFile \notin User \cup {NoUser}
  /\ NoHash \notin Password
  /\ RefusedName \subseteq User
  /\ ReadAs \in [User -> User \cup {NoUser}]
  /\ \A u \in User : ReadAs[u] # NoUser => ReadAs[ReadAs[u]] = ReadAs[u]

ASSUME BoundsAssumption ==
  /\ IsFiniteSet(Conn)
  /\ MaxSlots \in Nat \ {0}
  /\ MaxUserLines \in Nat
  /\ MaxScoreLines \in Nat
  /\ MaxTorn \in Nat
  /\ IoFault \subseteq {"read", "append", "close"}

VARIABLES
  proc,    \* the server process: "up", "closing", "down", "killed"
  pc,      \* where the thread of each connection is
  cur,     \* current_user of each thread
  req,     \* the request each thread handles
  ok,      \* resp_data.success of the reply being built
  peer,    \* the client at the other end of each connection
  slots,   \* logged_in_users: the name in each slot, NoUser if inactive
  users,      \* users.txt, up to its last newline
  userTail,   \* the fragment behind it, as it is read: at most one
  scores,     \* scores.txt, up to its last newline
  scoreTail,  \* is there a fragment behind it?
  torn        \* history: how many writes to the two files broke off

userFile == <<users, userTail>>
scoreFile == <<scores, scoreTail>>
files == <<userFile, scoreFile, torn>>
threads == <<pc, cur, req, ok>>
vars == <<proc, threads, peer, slots, files>>

-----------------------------------------------------------------------------
(* Requests, and the lines of the two files.                               *)

AuthRequest == [type : {"register", "login"}, user : User, pw : Password]
MenuRequest == [type : {"score"}, score : Score]
                 \cup [type : {"leaderboard", "wordlist", "logout"}]
NoRequest == [type |-> "none"]
Request == AuthRequest \cup MenuRequest \cup {NoRequest}

\* What a text of users.txt is read as: an account, a text that is passed over,
\* or the end of the file.
Reading == [name : User \cup {NoUser, EndOfFile}, pw : Password \cup {NoHash}]
Skipped == [name |-> NoUser, pw |-> NoHash]
EndsRead == [name |-> EndOfFile, pw |-> NoHash]

\* A line bears what was to be written when its newline was; a score is alone on
\* its line unless a fragment stands in front of it.
Account == [name : User, pw : Password, reads : Reading]
ScoreLine == [name : User, score : Score, alone : BOOLEAN]

PCs == {"closed", "recv", "register", "append", "login", "find", "add_slot",
        "score", "leaderboard", "wordlist", "logout", "send", "cleanup"}
Peers == {"none", "auth", "menu", "bye", "gone"}

\* What a client that is in a phase of its own can ask for.
Askable(phase) ==
  IF phase = "auth" THEN AuthRequest ELSE IF phase = "menu" THEN MenuRequest ELSE {}

-----------------------------------------------------------------------------
(* The three scans of the slot table, and the scan of the accounts file.   *)

Slot == 1..MaxSlots
EmptyTable == [i \in Slot |-> NoUser]

FirstOf(S) == CHOOSE i \in S : \A j \in S : i <= j

SlotsOf(u) == {i \in Slot : slots[i] = u}
IsLoggedIn(u) == SlotsOf(u) # {}
MutTakeSlot(u) ==
  [i \in Slot \cup {MaxSlots + 1} |->
     IF i = FirstOf(SlotsOf(NoUser)) + 1 THEN u ELSE IF i \in Slot THEN slots[i] ELSE NoUser]
TakeSlot(u) == [slots EXCEPT ![FirstOf(SlotsOf(NoUser))] = u]
TableFull == SlotsOf(NoUser) = {}
MutFreeSlot(u) == [i \in Slot |-> IF slots[i] = u THEN NoUser ELSE slots[i]]
FreeSlot(u) == IF SlotsOf(u) = {} THEN slots
               ELSE [slots EXCEPT ![FirstOf(SlotsOf(u))] = NoUser]

\* The texts of the file, as find_user_in_file reads them, and where it finds a name.
Texts == 1..(Len(users) + Len(userTail))
Text(i) == IF i <= Len(users) THEN users[i].reads ELSE userTail[1]

LinesOf(u) ==
  {i \in Texts : Text(i).name = u /\ \A j \in 1..i : Text(j) # EndsRead}
Exists(u) == LinesOf(u) # {}
MutLineOf(u) == Text(CHOOSE i \in LinesOf(u) : \A j \in LinesOf(u) : j <= i)
LineOf(u) == Text(FirstOf(LinesOf(u)))

\* The name is read from a line with its newline, which no write changes any more.
Firm(u) == \E i \in LinesOf(u) : i <= Len(users)

\* strcmp on the stored hash.
MutAuthenticates(u, p) == Exists(u) => LineOf(u).pw = p
Authenticates(u, p) == Exists(u) /\ LineOf(u).pw = p

\* The user a connection is logged in as: it has a slot.
Holds(c) == cur[c] # NoUser /\ pc[c] # "add_slot"
SessionOf(c) == IF Holds(c) THEN cur[c] ELSE NoUser

-----------------------------------------------------------------------------
Init ==
  /\ proc = "up"
  /\ pc = [c \in Conn |-> "closed"]
  /\ cur = [c \in Conn |-> NoUser]
  /\ req = [c \in Conn |-> NoRequest]
  /\ ok = [c \in Conn |-> FALSE]
  /\ peer = [c \in Conn |-> "none"]
  /\ slots = EmptyTable
  /\ users = << >> /\ userTail = << >>
  /\ scores = << >> /\ scoreTail = FALSE
  /\ torn = 0

Running == proc \in {"up", "closing"}

\* A thread at a step of the handler, in a process that still runs.
At(c, step) == Running /\ pc[c] = step

\* The thread moves on with no reply at hand.
Goto(c, step) ==
  /\ pc' = [pc EXCEPT ![c] = step]
  /\ ok' = [ok EXCEPT ![c] = FALSE]

\* The handler has the outcome of the request and turns to send_response.
Reply(c, success) ==
  /\ pc' = [pc EXCEPT ![c] = "send"]
  /\ ok' = [ok EXCEPT ![c] = success]

-----------------------------------------------------------------------------
(* add_user_to_file and add_score_to_file.                                 *)

\* An append leaves no line ("lost"), a part of one ("torn"), a line it reports
\* ("done"), or a line it denies because close failed after the write ("unsure").
AppendOutcomes(room) ==
  {o \in {"done", "lost", "torn", "unsure"} :
     /\ o = "done" => room
     /\ o = "lost" => ~room \/ "append" \in IoFault
     /\ o = "torn" => torn < MaxTorn /\ (~room \/ "append" \in IoFault)
     /\ o = "unsure" => room /\ "close" \in IoFault}

Whole(outcome) == outcome \in {"done", "unsure"}

MutAcknowledges(outcome) == TRUE
Acknowledges(outcome) == outcome = "done"

\* O_APPEND.
MutAppended(file, line) == <<line>>
Appended(file, line) == Append(file, line)

\* A line on its own: a name cut at a ':' leaves the rest in front of its hash.
ReadingOf(u, p) == [name |-> ReadAs[u], pw |-> IF ReadAs[u] = u THEN p ELSE NoHash]

\* Behind a fragment, which may be a piece of a name or so long that the text is
\* read in parts, the write passes for an account of another name; a part that
\* fills the buffer never passes for one.  That it may pass for the account of the
\* empty name is left out.
Glued(p) == {Skipped} \cup [name : User \ RefusedName, pw : {p, NoHash}]

\* What a write that ended with its newline is read as.  A text that fills the
\* buffer of read_line leaves the newline behind, which reads as an empty line.
Behind(u, p) ==
  IF userTail = << >> THEN {ReadingOf(u, p)} ELSE Glued(p) \cup {EndsRead}

\* What the first part of a line is read as at the end of the file: a piece of the
\* name, the name with a piece of the hash, or all but the newline.
Fragments(u, p) ==
  IF userTail # << >> THEN Glued(p)
  ELSE {Skipped, ReadingOf(u, p)}
         \cup [name : IF ReadAs[u] = u THEN {u} ELSE User, pw : {NoHash}]

WriteUser(u, p, outcome) ==
  /\ users' \in IF Whole(outcome)
                  THEN {Appended(users, [name |-> u, pw |-> p, reads |-> r]) :
                          r \in Behind(u, p)}
                  ELSE {users}
  /\ userTail' \in IF Whole(outcome) THEN {<< >>}
                     ELSE IF outcome = "torn" THEN {<<r>> : r \in Fragments(u, p)}
                     ELSE {userTail}
  /\ torn' = IF outcome = "torn" THEN torn + 1 ELSE torn

WriteScore(u, n, outcome) ==
  /\ scores' = IF Whole(outcome)
                 THEN Appended(scores, [name |-> u, score |-> n, alone |-> ~scoreTail])
                 ELSE scores
  /\ scoreTail' = IF Whole(outcome) THEN FALSE ELSE scoreTail \/ outcome = "torn"
  /\ torn' = IF outcome = "torn" THEN torn + 1 ELSE torn

-----------------------------------------------------------------------------
(* The main thread accepts a connection and starts a thread for it.        *)

Accept(c) ==
  /\ proc = "up"
  /\ pc[c] = "closed"
  /\ pc' = [pc EXCEPT ![c] = "recv"]
  /\ cur' = [cur EXCEPT ![c] = NoUser]
  /\ peer' = [peer EXCEPT ![c] = "auth"]
  /\ UNCHANGED <<proc, req, ok, slots, files>>

\* The thread has received a whole request and dispatches on its type.
Receive(c) ==
  /\ At(c, "recv")
  /\ \E m \in Askable(peer[c]) :
       /\ req' = [req EXCEPT ![c] = m]
       /\ Goto(c, m.type)
  /\ UNCHANGED <<proc, cur, peer, slots, files>>

-----------------------------------------------------------------------------
(* register_user_impl: look the name up, unlock, then append it.           *)

Registrable(u) == u \notin RefusedName /\ ~Exists(u)

\* open or flock may fail, which is reported; a read that fails part-way is taken
\* for the end of the file, and the name for a new one.
LookUpNewName(c) ==
  /\ At(c, "register")
  /\ \/ ~Registrable(req[c].user) /\ Reply(c, FALSE)
     \/ Registrable(req[c].user) /\ Goto(c, "append")
     \/ "read" \in IoFault /\ Reply(c, FALSE)
     \/ /\ "read" \in IoFault
        /\ req[c].user \notin RefusedName
        /\ Goto(c, "append")
  /\ UNCHANGED <<proc, cur, req, peer, slots, files>>

AppendUser(c) ==
  /\ At(c, "append")
  /\ \E o \in AppendOutcomes(Len(users) < MaxUserLines) :
       /\ WriteUser(req[c].user, req[c].pw, o)
       /\ Reply(c, Acknowledges(o))
  /\ UNCHANGED <<proc, cur, req, peer, slots, scoreFile>>

-----------------------------------------------------------------------------
(* Login: check the table, unlock, check the password, take a slot.        *)

CheckNotLoggedIn(c) ==
  /\ At(c, "login")
  /\ IF IsLoggedIn(req[c].user) THEN Reply(c, FALSE) ELSE Goto(c, "find")
  /\ UNCHANGED <<proc, cur, req, peer, slots, files>>

\* login_user_impl names the thread's user before the table has a slot for it.
CheckPassword(c) ==
  /\ At(c, "find")
  /\ \/ /\ Authenticates(req[c].user, req[c].pw)
        /\ cur' = [cur EXCEPT ![c] = req[c].user]
        /\ Goto(c, "add_slot")
     \/ /\ "read" \in IoFault \/ ~Authenticates(req[c].user, req[c].pw)
        /\ cur' = [cur EXCEPT ![c] = NoUser]
        /\ Reply(c, FALSE)
  /\ UNCHANGED <<proc, req, peer, slots, files>>

\* current_user of a thread that found the table full.
MutRefused(c) == cur[c]
Refused(c) == NoUser

AddLoggedInUser(c) ==
  /\ At(c, "add_slot")
  /\ IF TableFull
       THEN /\ cur' = [cur EXCEPT ![c] = Refused(c)]
            /\ Reply(c, FALSE)
            /\ UNCHANGED slots
       ELSE /\ slots' = TakeSlot(cur[c])
            /\ Reply(c, TRUE)
            /\ UNCHANGED cur
  /\ UNCHANGED <<proc, req, peer, files>>

-----------------------------------------------------------------------------
(* The requests of the menu.                                               *)

SubmitScore(c) ==
  /\ At(c, "score")
  /\ \/ cur[c] = NoUser /\ Reply(c, FALSE) /\ UNCHANGED <<scoreFile, torn>>
     \/ /\ cur[c] # NoUser
        /\ \E o \in AppendOutcomes(Len(scores) < MaxScoreLines) :
             /\ WriteScore(cur[c], req[c].score, o)
             /\ Reply(c, Acknowledges(o))
  /\ UNCHANGED <<proc, cur, req, peer, slots, userFile>>

\* The leaderboard and the word list are sent to whoever asks.
Leaderboard(c) ==
  /\ At(c, "leaderboard")
  /\ \E done \in BOOLEAN : (done \/ "read" \in IoFault) /\ Reply(c, done)
  /\ UNCHANGED <<proc, cur, req, peer, slots, files>>

MutWordList(c) ==
  /\ At(c, "wordlist")
  /\ Goto(c, "recv")
  /\ UNCHANGED <<proc, cur, req, peer, slots, files>>

WordList(c) ==
  /\ At(c, "wordlist")
  /\ Reply(c, TRUE)
  /\ UNCHANGED <<proc, cur, req, peer, slots, files>>

\* remove_logged_in_user frees the first slot that bears the thread's name.
MutLeave(c) ==
  /\ slots' = IF cur[c] = NoUser THEN slots ELSE FreeSlot(cur[c])
  /\ UNCHANGED cur

Leave(c) ==
  /\ slots' = IF cur[c] = NoUser THEN slots ELSE FreeSlot(cur[c])
  /\ cur' = [cur EXCEPT ![c] = NoUser]

Logout(c) ==
  /\ At(c, "logout")
  /\ Leave(c)
  /\ Reply(c, cur[c] # NoUser)
  /\ UNCHANGED <<proc, req, peer, files>>

-----------------------------------------------------------------------------
(* The reply, and the end of the thread.                                   *)

\* The client that gets the reply logs in, leaves the menu, or carries on.
PhaseAfter(phase, type, success) ==
  IF type = "login" /\ success THEN "menu"
  ELSE IF type = "logout" /\ success THEN "bye"
  ELSE phase

Send(c) ==
  /\ At(c, "send")
  /\ peer[c] # "gone"
  /\ Goto(c, "recv")
  /\ peer' = [peer EXCEPT ![c] = PhaseAfter(@, req[c].type, ok[c])]
  /\ req' = [req EXCEPT ![c] = NoRequest]
  /\ UNCHANGED <<proc, cur, slots, files>>

\* With the client gone the two sends of the reply may both succeed, or fail
\* with ECONNRESET; the third outcome, EPIPE, is SigPipe below.
SendInVain(c) ==
  /\ At(c, "send")
  /\ peer[c] = "gone"
  /\ \E step \in {"recv", "cleanup"} : Goto(c, step)
  /\ req' = [req EXCEPT ![c] = NoRequest]
  /\ UNCHANGED <<proc, cur, peer, slots, files>>

\* recv_all takes the 0 of recv for the end of the connection.
MutEnds(c) == FALSE
Ends(c) == peer[c] = "gone"

\* recv fails: the client closed the connection.
EndOfStream(c) ==
  /\ At(c, "recv")
  /\ Ends(c)
  /\ Goto(c, "cleanup")
  /\ UNCHANGED <<proc, cur, req, peer, slots, files>>

\* The code after the request loop, and close(client_sock).
Cleanup(c) ==
  /\ At(c, "cleanup")
  /\ Leave(c)
  /\ Goto(c, "closed")
  /\ peer' = [peer EXCEPT ![c] = "none"]
  /\ UNCHANGED <<proc, req, files>>

-----------------------------------------------------------------------------
(* The client's end, and the life of the process.                          *)

\* A client may close its end in any phase: it exits, it is killed, it gives up
\* on a reply, or it has logged out and connects anew.
Disconnect(c) ==
  /\ peer[c] \in {"auth", "menu", "bye"}
  /\ peer' = [peer EXCEPT ![c] = "gone"]
  /\ UNCHANGED <<proc, threads, slots, files>>

\* The process ends: the threads, their sockets and the table are no more.
Die(how) ==
  /\ proc' = how
  /\ pc' = [c \in Conn |-> "closed"]
  /\ cur' = [c \in Conn |-> NoUser]
  /\ req' = [c \in Conn |-> NoRequest]
  /\ peer' = [c \in Conn |-> "none"]
  /\ slots' = EmptyTable
  /\ ok' = [c \in Conn |-> FALSE]
  /\ UNCHANGED files

\* send to a connection the client has reset raises SIGPIPE, for which the
\* process has no handler.
SigPipe(c) ==
  /\ At(c, "send")
  /\ peer[c] = "gone"
  /\ Die("killed")

\* SIGINT or SIGTERM: the handler closes the listening socket ...
RequestShutdown ==
  /\ proc = "up"
  /\ proc' = "closing"
  /\ UNCHANGED <<threads, peer, slots, files>>

\* ... and main returns, whatever the detached threads are doing.
Exit == proc = "closing" /\ Die("down")

Crash == Running /\ Die("down")

\* main starts again: it opens the files as they are and clears the table.
Start ==
  /\ ~Running
  /\ proc' = "up"
  /\ slots' = EmptyTable
  /\ UNCHANGED <<threads, peer, files>>

-----------------------------------------------------------------------------
Handle(c) ==
  \/ LookUpNewName(c) \/ AppendUser(c)
  \/ CheckNotLoggedIn(c) \/ CheckPassword(c) \/ AddLoggedInUser(c)
  \/ SubmitScore(c) \/ Leaderboard(c) \/ WordList(c) \/ Logout(c)

Finish(c) == Send(c) \/ SendInVain(c) \/ EndOfStream(c) \/ Cleanup(c)

Next ==
  \/ \E c \in Conn : \/ Accept(c) \/ Receive(c) \/ Handle(c) \/ Finish(c)
                     \/ Disconnect(c) \/ SigPipe(c)
  \/ RequestShutdown \/ Exit \/ Crash \/ Start

Spec == Init /\ [][Next]_vars

\* A thread is scheduled, no mutex is held while it waits, and a send or a recv
\* on a connection whose client is gone returns.
FairSpec == Spec /\ \A c \in Conn : WF_vars(Handle(c) \/ Finish(c))

-----------------------------------------------------------------------------
(* Properties.                                                             *)

\* Every variable stays in its range and the table of logged-in users in its
\* bounds, when one slot is taken by several threads in turn; a file that is torn
\* again and again has one fragment at its end.
TypeOK ==
  /\ proc \in {"up", "closing", "down", "killed"}
  /\ pc \in [Conn -> PCs]
  /\ cur \in [Conn -> User \cup {NoUser}]
  /\ req \in [Conn -> Request]
  /\ ok \in [Conn -> BOOLEAN]
  /\ peer \in [Conn -> Peers]
  /\ slots \in [Slot -> User \cup {NoUser}]
  /\ users \in Seq(Account)
  /\ userTail \in Seq(Reading) /\ Len(userTail) <= 1
  /\ scores \in Seq(ScoreLine)
  /\ scoreTail \in BOOLEAN
  /\ torn \in 0..MaxTorn

Holders(u) == {c \in Conn : SessionOf(c) = u}

\* The table of logged-in users and the threads' own current_user agree: each
\* name is in as many slots as there are threads logged in under it.  Slots are
\* freed by name, by whichever of two threads of a name ends first, so neither a
\* slot nobody would ever free nor a session without a slot may come of it.
SlotsMatchSessions ==
  \A u \in User : Cardinality(SlotsOf(u)) = Cardinality(Holders(u))

\* Between two requests client and server agree on whether the client is logged
\* in: a menu client has a session, a client at the login screen has none, also
\* after a login refused because the table was full.
ClientServerAgree ==
  \A c \in Conn : pc[c] = "recv" =>
    /\ peer[c] = "menu" => Holds(c)
    /\ peer[c] \in {"auth", "bye"} => cur[c] = NoUser

\* The inductive invariant of the sessions: the parts that the two properties
\* above need and do not say.
\*
\* Where a thread is in a request, what it handles, whom it serves and what its
\* client is waiting for fit together; threads live no longer than the process.
RequestShape(c) ==
  /\ ~Running => pc[c] = "closed"
  /\ pc[c] = "closed" <=> peer[c] = "none"
  /\ pc[c] \in {"closed", "register", "append", "login", "find"} => cur[c] = NoUser
  /\ pc[c] = "add_slot" => cur[c] # NoUser
  /\ pc[c] \in {"register", "append"} => req[c].type = "register"
  /\ pc[c] \in {"login", "find", "add_slot"} => req[c].type = "login"
  /\ pc[c] \in {"register", "append", "login", "find", "add_slot"} =>
       peer[c] \in {"auth", "gone"}
  /\ pc[c] \in {"score", "leaderboard", "wordlist", "logout"} =>
       /\ cur[c] # NoUser
       /\ req[c].type = pc[c]
       /\ peer[c] \in {"menu", "gone"}

\* A reply that is about to be sent tells the client what the thread has become.
ReplyShape(c) ==
  pc[c] = "send" =>
    /\ peer[c] # "bye"
    /\ peer[c] = "auth" =>
         /\ req[c].type \in {"register", "login"}
         /\ cur[c] # NoUser <=> req[c].type = "login" /\ ok[c]
    /\ peer[c] = "menu" =>
         /\ req[c].type \in {"score", "leaderboard", "wordlist", "logout"}
         /\ cur[c] = NoUser <=> req[c].type = "logout"
         /\ req[c].type = "logout" => ok[c]

\* The password that was checked still opens the account when the slot is taken,
\* unless a write broke off: a fragment may read as an account until the next line
\* is glued to it.
StillOpen(c) ==
  pc[c] = "add_slot" /\ torn = 0 => Authenticates(cur[c], req[c].pw)

\* As many slots are taken as there are sessions, whatever their names.
SlotsTaken ==
  Cardinality(Slot \ SlotsOf(NoUser)) = Cardinality(Conn \ Holders(NoUser))

\* In every step of handle_client, request, reply, current_user, client and table
\* fit together: a password checked by login_user is still valid when the slot is
\* taken (as long as no write to users.txt breaks off), a reply that goes out tells
\* the client whether its thread is logged in, and each session has one slot
\* (server_network.c:143-306).
SessionInvariant ==
  /\ \A c \in Conn : RequestShape(c) /\ ReplyShape(c) /\ StillOpen(c)
  /\ ClientServerAgree /\ SlotsMatchSessions /\ SlotsTaken

HasAccount(u) == \E i \in 1..Len(users) : users[i].name = u

\* Sessions, slots and score lines bear names that were registered, also across
\* a restart that keeps the files and drops the table.  Once a write to a file
\* broke off this is lost: a line glued to the fragment may read as the account of
\* a name nobody registered.
OnlyAccountsPlay ==
  torn = 0 =>
    /\ \A c \in Conn : cur[c] # NoUser => HasAccount(cur[c])
    /\ \A i \in Slot : slots[i] # NoUser => HasAccount(slots[i])
    /\ \A i \in 1..Len(scores) : HasAccount(scores[i].name)

\* A reply that reports success for a registration or a score is sent only when
\* the line was written to its end, so what a client was told survives a crash of
\* the server; and a write that broke off spoils at most one of the lines that have
\* their newline, the next one, which is glued to its fragment.  (A spoilt line that
\* fills the buffer also hides those behind it, see EndsRead.)
SpoiltUsers == {i \in 1..Len(users) : users[i].reads # ReadingOf(users[i].name, users[i].pw)}
SpoiltScores == {i \in 1..Len(scores) : ~scores[i].alone}

OneLinePerTear ==
  Cardinality(SpoiltUsers) + Len(userTail)
    + Cardinality(SpoiltScores) + (IF scoreTail THEN 1 ELSE 0) <= torn

Stored(c) ==
  /\ req[c].type = "register" =>
       \E i \in 1..Len(users) :
         users[i].name = req[c].user /\ users[i].pw = req[c].pw
  /\ req[c].type = "score" =>
       \E i \in 1..Len(scores) :
         scores[i].name = cur[c] /\ scores[i].score = req[c].score

AcknowledgedIsStored ==
  /\ \A c \in Conn : pc[c] = "send" /\ ok[c] => Stored(c)
  /\ OneLinePerTear

\* The line find_user_in_file answers for a name never changes once it has its
\* newline, whatever duplicates racing registrations append behind it, and
\* whatever writes break off later.
AccountsAreStable ==
  [][\A u \in User : Firm(u) => Firm(u)' /\ LineOf(u)' = LineOf(u)]_vars

\* The server keeps what LoginService promises: threads, slots, replies and the
\* duplicate lines of racing registrations hide behind accounts and sessions, and
\* a file that was torn behind accounts that are not firm.
Service == INSTANCE LoginService WITH
  Capacity <- MaxSlots,
  accounts <- {u \in User : Exists(u)},
  firm <- {u \in User : Firm(u)},
  opens <- [u \in User |-> IF Exists(u) THEN {LineOf(u).pw} \ {NoHash} ELSE {}],
  intact <- torn = 0,
  session <- [c \in Conn |-> SessionOf(c)]

ImplementsLoginService == Service!Spec

\* The clients of this model keep to the protocol that ClientApp implements: the
\* handlers answer each request once, and a client learns of its login or logout
\* from the answer to that very request.
Linked(c) == peer[c] \notin {"none", "gone"}
Peer == INSTANCE PeerProtocol WITH
  phase <- [c \in Conn |-> IF Linked(c) THEN peer[c] ELSE "closed"],
  asked <- [c \in Conn |-> IF Linked(c) THEN req[c].type ELSE "none"]

ClientsKeepProtocol == Peer!Spec

\* A thread whose client is gone ends, whatever it was doing, and its name is
\* free to log in again (with SlotsMatchSessions): recv or send must notice.
GoneClientIsReleased ==
  \A c \in Conn : peer[c] = "gone" ~> pc[c] = "closed"

\* A request that was received is answered, or its thread ends: no branch of the
\* handler leaves the client waiting.
EveryRequestAnswered ==
  \A c \in Conn : req[c] # NoRequest ~> req[c] = NoRequest

-----------------------------------------------------------------------------
(* Statements of the documentation the code does not keep.                 *)

\* README.md:16 and 156: a second login to an account is refused while the first
\* one lasts.
SingleSessionPerUser ==
  \A c, d \in Conn : Holds(c) /\ SessionOf(c) = SessionOf(d) => c = d

\* server_network.c:309-312: a failed send ends in the cleanup of that client's
\* session, not of the server.
ServerOutlivesClients == proc # "killed"

=============================================================================
