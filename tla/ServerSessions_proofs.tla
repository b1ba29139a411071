----------------------- MODULE ServerSessions_proofs -----------------------
(***************************************************************************)
(* Proofs about ServerSessions: the inductive invariant of the sessions    *)
(* and what follows from it, for any number of connections, slots and      *)
(* names, with files that may be torn any number of times.                 *)
(***************************************************************************)
EXTENDS ServerSessions, FiniteSetTheorems, WellFoundedInduction, TLAPS

-----------------------------------------------------------------------------
(* The operators.                                                          *)

\* A set of positions that is not empty has a first one, and FirstOf is it.
LEMMA FirstExists ==
  ASSUME NEW S \in SUBSET Nat, S # {}
  PROVE  FirstOf(S) \in S /\ \A j \in S : FirstOf(S) <= j
<1> DEFINE R == OpToRel(<, Nat)
<1>1. IsWellFoundedOn(R, Nat)
  BY NatLessThanWellFounded
<1>2. \A x, y \in Nat : <<y, x>> \in R <=> y < x
  BY DEF OpToRel
<1> HIDE DEF R
<1>3. PICK x \in S : \A y \in S : ~(<<y, x>> \in R)
  BY <1>1, WFMin
<1>4. ASSUME NEW y \in S PROVE x <= y
  <2>1. x \in Nat /\ y \in Nat
    OBVIOUS
  <2>2. ~(y < x)
    BY <1>2, <1>3, <2>1, Zenon
  <2>3. QED
    BY <2>1, <2>2
<1>5. \E i \in S : \A j \in S : i <= j
  BY <1>4
<1>6. QED
  BY <1>5 DEF FirstOf

\* What a request carries follows from its type.
LEMMA RequestFields ==
  ASSUME NEW m \in Request
  PROVE  /\ m.type \in {"register", "login"} => m.user \in User /\ m.pw \in Password
         /\ m.type = "score" => m.score \in Score
BY DEF Request, AuthRequest, MenuRequest, NoRequest

\* A client asks only for what its phase allows, and the handler has a branch
\* for all of it.
LEMMA AskedRequests ==
  ASSUME NEW phase \in Peers, NEW m \in Askable(phase)
  PROVE  /\ m \in Request
         /\ \/ phase = "auth" /\ m.type \in {"register", "login"}
            \/ phase = "menu" /\ m.type \in {"score", "leaderboard", "wordlist", "logout"}
<1>1. CASE phase = "auth"
  BY <1>1 DEF Askable, Request, AuthRequest
<1>2. CASE phase = "menu"
  BY <1>2 DEF Askable, Request, MenuRequest
<1>3. QED
  BY <1>1, <1>2 DEF Askable

\* Taking and freeing a slot gives a table.
LEMMA SlotOps ==
  ASSUME slots \in [Slot -> User \cup {NoUser}], NEW u \in User \cup {NoUser}
  PROVE  /\ TakeSlot(u) \in [Slot -> User \cup {NoUser}]
         /\ FreeSlot(u) \in [Slot -> User \cup {NoUser}]
         /\ EmptyTable \in [Slot -> User \cup {NoUser}]
BY DEF TakeSlot, FreeSlot, EmptyTable

\* What the texts of users.txt are read as.
LEMMA Readings ==
  ASSUME NEW u \in User, NEW p \in Password
  PROVE  /\ ReadingOf(u, p) \in Reading
         /\ Behind(u, p) \in SUBSET Reading
         /\ Fragments(u, p) \in SUBSET Reading
<1>1. ReadAs[u] \in User \cup {NoUser}
  BY NamesAssumption
<1>2. ReadingOf(u, p) \in Reading
  BY <1>1 DEF ReadingOf, Reading
<1>3. Glued(p) \in SUBSET Reading /\ Skipped \in Reading /\ EndsRead \in Reading
  BY DEF Glued, Reading, Skipped, EndsRead
<1>4. [name : IF ReadAs[u] = u THEN {u} ELSE User, pw : {NoHash}] \in SUBSET Reading
  BY DEF Reading
<1> QED
  BY <1>2, <1>3, <1>4 DEF Behind, Fragments

\* What a write does to users.txt.
LEMMA UserWritten ==
  ASSUME TypeOK, NEW c \in Conn, RequestShape(c), AppendUser(c)
  PROVE  /\ req[c].type = "register" /\ req[c].user \in User /\ req[c].pw \in Password
         /\ req' = req /\ UNCHANGED scoreFile
         /\ \/ /\ \E r \in Behind(req[c].user, req[c].pw) :
                    users' = Append(users, [name |-> req[c].user, pw |-> req[c].pw,
                                            reads |-> r])
               /\ userTail' = << >> /\ torn' = torn
            \/ /\ torn < MaxTorn /\ torn' = torn + 1 /\ users' = users /\ ~ok'[c]
               /\ \E r \in Fragments(req[c].user, req[c].pw) : userTail' = <<r>>
            \/ UNCHANGED userFile /\ torn' = torn /\ ~ok'[c]
<1>1. req[c].type = "register" /\ req \in [Conn -> Request]
  BY DEF AppendUser, At, RequestShape, TypeOK
<1>2. req[c].user \in User /\ req[c].pw \in Password
  BY <1>1, RequestFields
<1>3. PICK o \in AppendOutcomes(Len(users) < MaxUserLines) :
        WriteUser(req[c].user, req[c].pw, o) /\ Reply(c, Acknowledges(o))
  BY DEF AppendUser
<1>4. ok'[c] = (o = "done")
  BY <1>3 DEF Reply, Acknowledges, TypeOK
<1>5. CASE Whole(o)
  BY <1>1, <1>2, <1>3, <1>5 DEF WriteUser, Whole, Appended, AppendUser
<1>6. CASE o = "torn"
  BY <1>1, <1>2, <1>3, <1>4, <1>6 DEF WriteUser, Whole, AppendOutcomes, AppendUser
<1>7. CASE o = "lost"
  BY <1>1, <1>2, <1>3, <1>4, <1>7 DEF WriteUser, Whole, AppendUser, userFile
<1> QED
  BY <1>5, <1>6, <1>7 DEF AppendOutcomes, Whole

\* What a write does to scores.txt.
LEMMA ScoreWritten ==
  ASSUME TypeOK, NEW c \in Conn, RequestShape(c), SubmitScore(c)
  PROVE  /\ req[c].type = "score" /\ req[c].score \in Score
         /\ req' = req /\ cur' = cur /\ UNCHANGED userFile
         /\ \/ /\ cur[c] # NoUser
               /\ scores' = Append(scores, [name |-> cur[c], score |-> req[c].score,
                                            alone |-> ~scoreTail])
               /\ scoreTail' = FALSE /\ torn' = torn
            \/ /\ torn < MaxTorn /\ torn' = torn + 1 /\ scores' = scores /\ ~ok'[c]
               /\ scoreTail' = TRUE
            \/ UNCHANGED scoreFile /\ torn' = torn /\ ~ok'[c]
<1>1. req[c].type = "score" /\ req[c].score \in Score /\ req' = req /\ cur' = cur
  BY RequestFields DEF SubmitScore, At, RequestShape, TypeOK
<1>2. CASE cur[c] = NoUser
  BY <1>1, <1>2 DEF SubmitScore, Reply, TypeOK
<1>3. CASE cur[c] # NoUser
  <2>1. PICK o \in AppendOutcomes(Len(scores) < MaxScoreLines) :
          WriteScore(cur[c], req[c].score, o) /\ Reply(c, Acknowledges(o))
    BY <1>3 DEF SubmitScore
  <2>2. ok'[c] = (o = "done")
    BY <2>1 DEF Reply, Acknowledges, TypeOK
  <2>3. CASE Whole(o)
    BY <1>1, <1>3, <2>1, <2>3 DEF WriteScore, Whole, Appended, SubmitScore
  <2>4. CASE o = "torn"
    BY <1>1, <2>1, <2>2, <2>4 DEF WriteScore, Whole, AppendOutcomes, SubmitScore
  <2>5. CASE o = "lost"
    BY <1>1, <2>1, <2>2, <2>5, Zenon DEF WriteScore, Whole, SubmitScore, scoreFile, TypeOK
  <2> QED
    BY <2>3, <2>4, <2>5 DEF AppendOutcomes, Whole
<1> QED
  BY <1>2, <1>3

-----------------------------------------------------------------------------
(* Types.                                                                  *)

\* Lines and fragments of both files stay in their ranges.
LEMMA UserKeepsTypes ==
  ASSUME TypeOK, NEW c \in Conn, RequestShape(c), AppendUser(c)
  PROVE  /\ users' \in Seq(Account) /\ torn' \in 0..MaxTorn
         /\ userTail' \in Seq(Reading) /\ Len(userTail') <= 1
<1> DEFINE u == req[c].user
           p == req[c].pw
<1>1. users \in Seq(Account) /\ userTail \in Seq(Reading) /\ Len(userTail) <= 1
  BY DEF TypeOK
<1>2. torn \in 0..MaxTorn /\ MaxTorn \in Nat
  BY BoundsAssumption DEF TypeOK
<1>3. u \in User /\ p \in Password
  BY UserWritten
<1>4. Behind(u, p) \in SUBSET Reading /\ Fragments(u, p) \in SUBSET Reading
  BY <1>3, Readings
<1>5. CASE /\ \E r \in Behind(u, p) :
                users' = Append(users, [name |-> u, pw |-> p, reads |-> r])
           /\ userTail' = << >> /\ torn' = torn
  <2>1. PICK r \in Reading : users' = Append(users, [name |-> u, pw |-> p, reads |-> r])
    BY <1>4, <1>5
  <2> DEFINE line == [name |-> u, pw |-> p, reads |-> r]
  <2>2. line \in Account
    BY <1>3, <2>1 DEF Account
  <2>3. users' = Append(users, line)
    BY <2>1
  <2> HIDE DEF line
  <2>4. users' \in Seq(Account)
    BY <1>1, <2>2, <2>3
  <2> QED
    BY <1>2, <1>5, <2>4
<1>6. CASE /\ torn < MaxTorn /\ torn' = torn + 1 /\ users' = users
           /\ \E r \in Fragments(u, p) : userTail' = <<r>>
  <2>1. PICK r \in Reading : userTail' = <<r>>
    BY <1>4, <1>6
  <2> QED
    BY <1>1, <1>2, <1>6, <2>1
<1>7. CASE UNCHANGED userFile /\ torn' = torn
  BY <1>1, <1>2, <1>7 DEF userFile
<1> QED
  BY <1>5, <1>6, <1>7, UserWritten

LEMMA ScoreKeepsTypes ==
  ASSUME TypeOK, NEW c \in Conn, RequestShape(c), SubmitScore(c)
  PROVE  scores' \in Seq(ScoreLine) /\ scoreTail' \in BOOLEAN /\ torn' \in 0..MaxTorn
<1> DEFINE line == [name |-> cur[c], score |-> req[c].score, alone |-> ~scoreTail]
<1>1. scores \in Seq(ScoreLine) /\ scoreTail \in BOOLEAN
  BY DEF TypeOK
<1>2. torn \in 0..MaxTorn /\ MaxTorn \in Nat
  BY BoundsAssumption DEF TypeOK
<1>3. cur[c] # NoUser => line \in ScoreLine
  BY ScoreWritten DEF ScoreLine, TypeOK
<1>4. \/ cur[c] # NoUser /\ scores' = Append(scores, line)
      \/ scores' = scores
  BY ScoreWritten DEF scoreFile
<1>5. scoreTail' \in BOOLEAN
  <2>1. scoreTail' = scoreTail \/ scoreTail' = FALSE \/ scoreTail' = TRUE
    BY ScoreWritten DEF scoreFile
  <2> QED
    BY <1>1, <2>1, Zenon
<1>6. torn' \in 0..MaxTorn
  <2>1. torn' = torn \/ (torn < MaxTorn /\ torn' = torn + 1)
    BY ScoreWritten, Zenon
  <2> QED
    BY <1>2, <2>1
<1> HIDE DEF line
<1> QED
  BY <1>1, <1>3, <1>4, <1>5, <1>6

\* Every step keeps the variables in their ranges.
LEMMA TypeStep ==
  ASSUME TypeOK, \A c \in Conn : RequestShape(c), [Next]_vars
  PROVE  TypeOK'
<1> USE DEF TypeOK, PCs, Peers, files, userFile, scoreFile
<1>1. ASSUME NEW c \in Conn, Accept(c) PROVE TypeOK'
  BY <1>1 DEF Accept
<1>2. ASSUME NEW c \in Conn, Receive(c) PROVE TypeOK'
  <2>1. PICK m \in Askable(peer[c]) :
          req' = [req EXCEPT ![c] = m] /\ pc' = [pc EXCEPT ![c] = m.type]
    BY <1>2 DEF Receive, Goto
  <2>2. m \in Request /\ m.type \in PCs
    BY <2>1, AskedRequests
  <2>3. QED
    BY <1>2, <2>1, <2>2 DEF Receive, Goto
<1>3. ASSUME NEW c \in Conn, LookUpNewName(c) PROVE TypeOK'
  BY <1>3 DEF LookUpNewName, Goto, Reply
<1>4. ASSUME NEW c \in Conn, AppendUser(c) PROVE TypeOK'
  <2>1. /\ pc' \in [Conn -> PCs] /\ ok' \in [Conn -> BOOLEAN]
        /\ UNCHANGED <<proc, cur, req, peer, slots, scores, scoreTail>>
    BY <1>4 DEF AppendUser, Reply, Acknowledges
  <2>2. /\ users' \in Seq(Account) /\ torn' \in 0..MaxTorn
        /\ userTail' \in Seq(Reading) /\ Len(userTail') <= 1
    BY <1>4, UserKeepsTypes
  <2>3. QED
    BY <2>1, <2>2
<1>5. ASSUME NEW c \in Conn, CheckNotLoggedIn(c) PROVE TypeOK'
  BY <1>5 DEF CheckNotLoggedIn, Goto, Reply
<1>6. ASSUME NEW c \in Conn, CheckPassword(c) PROVE TypeOK'
  <2>1. req[c].user \in User
    BY <1>6, RequestFields DEF CheckPassword, At, RequestShape
  <2>2. QED
    BY <1>6, <2>1 DEF CheckPassword, Goto, Reply
<1>7. ASSUME NEW c \in Conn, AddLoggedInUser(c) PROVE TypeOK'
  <2>1. TakeSlot(cur[c]) \in [Slot -> User \cup {NoUser}]
    BY SlotOps
  <2>2. QED
    BY <1>7, <2>1 DEF AddLoggedInUser, Reply, Refused
<1>8. ASSUME NEW c \in Conn, SubmitScore(c) PROVE TypeOK'
  <2>1. /\ pc' \in [Conn -> PCs] /\ ok' \in [Conn -> BOOLEAN]
        /\ UNCHANGED <<proc, cur, req, peer, slots, users, userTail>>
    BY <1>8 DEF SubmitScore, Reply, Acknowledges
  <2>2. scores' \in Seq(ScoreLine) /\ scoreTail' \in BOOLEAN /\ torn' \in 0..MaxTorn
    BY <1>8, ScoreKeepsTypes
  <2>3. QED
    BY <2>1, <2>2
<1>9. ASSUME NEW c \in Conn, Leaderboard(c) PROVE TypeOK'
  BY <1>9 DEF Leaderboard, Reply
<1>10. ASSUME NEW c \in Conn, WordList(c) PROVE TypeOK'
  BY <1>10 DEF WordList, Reply
<1>11. ASSUME NEW c \in Conn, Logout(c) PROVE TypeOK'
  <2>1. slots' \in [Slot -> User \cup {NoUser}]
    BY <1>11, SlotOps DEF Logout, Leave
  <2>2. QED
    BY <1>11, <2>1 DEF Logout, Leave, Reply
<1>12. ASSUME NEW c \in Conn, Send(c) PROVE TypeOK'
  BY <1>12 DEF Send, Goto, PhaseAfter, Request
<1>13. ASSUME NEW c \in Conn, SendInVain(c) PROVE TypeOK'
  BY <1>13 DEF SendInVain, Goto, Request
<1>14. ASSUME NEW c \in Conn, EndOfStream(c) PROVE TypeOK'
  BY <1>14 DEF EndOfStream, Goto
<1>15. ASSUME NEW c \in Conn, Cleanup(c) PROVE TypeOK'
  <2>1. slots' \in [Slot -> User \cup {NoUser}]
    BY <1>15, SlotOps DEF Cleanup, Leave
  <2>2. QED
    BY <1>15, <2>1 DEF Cleanup, Leave, Goto
<1>16. ASSUME NEW c \in Conn, Disconnect(c) PROVE TypeOK'
  BY <1>16 DEF Disconnect, threads
<1>17. ASSUME NEW how \in {"down", "killed"}, Die(how) PROVE TypeOK'
  BY <1>17, SlotOps DEF Die, Request
<1>18. CASE RequestShutdown
  BY <1>18 DEF RequestShutdown, threads
<1>19. CASE Start
  BY <1>19, SlotOps DEF Start, threads
<1>20. CASE UNCHANGED vars
  BY <1>20 DEF vars, threads
<1>21. QED
  BY <1>1, <1>2, <1>3, <1>4, <1>5, <1>6, <1>7, <1>8, <1>9, <1>10, <1>11, <1>12,
     <1>13, <1>14, <1>15, <1>16, <1>17, <1>18, <1>19, <1>20
     DEF Next, Handle, Finish, SigPipe, Exit, Crash

-----------------------------------------------------------------------------
(* Threads, requests and clients.                                          *)

\* Every step keeps thread, request and client in step with each other: what the
\* reply says of the session is what the client will believe.
LEMMA ShapeStep ==
  ASSUME TypeOK, \A c \in Conn : RequestShape(c) /\ ReplyShape(c),
         ClientServerAgree, [Next]_vars
  PROVE  /\ (\A c \in Conn : RequestShape(c) /\ ReplyShape(c))'
         /\ ClientServerAgree'
<1> DEFINE Agrees(c) == pc[c] = "recv" =>
             /\ peer[c] = "menu" => cur[c] # NoUser
             /\ peer[c] \in {"auth", "bye"} => cur[c] = NoUser
           Shape(c) == RequestShape(c) /\ ReplyShape(c) /\ Agrees(c)
<1>0. SUFFICES ASSUME \A c \in Conn : Shape(c) PROVE (\A c \in Conn : Shape(c))'
  BY DEF ClientServerAgree, Holds
<1> SUFFICES ASSUME NEW d \in Conn PROVE Shape(d)'
  OBVIOUS
<1> USE DEF TypeOK, RequestShape, ReplyShape, Running
<1>1. ASSUME NEW c \in Conn, Accept(c) PROVE Shape(d)'
  BY <1>0, <1>1 DEF Accept
<1>2. ASSUME NEW c \in Conn, Receive(c) PROVE Shape(d)'
  BY <1>0, <1>2, AskedRequests DEF Receive, Goto, At
<1>3. ASSUME NEW c \in Conn, LookUpNewName(c) PROVE Shape(d)'
  BY <1>0, <1>3 DEF LookUpNewName, Goto, Reply, At
<1>4. ASSUME NEW c \in Conn, AppendUser(c) PROVE Shape(d)'
  BY <1>0, <1>4 DEF AppendUser, Reply, At
<1>5. ASSUME NEW c \in Conn, CheckNotLoggedIn(c) PROVE Shape(d)'
  BY <1>0, <1>5 DEF CheckNotLoggedIn, Goto, Reply, At
<1>6. ASSUME NEW c \in Conn, CheckPassword(c) PROVE Shape(d)'
  <2>1. req[c].user # NoUser
    BY <1>0, <1>6, RequestFields, NamesAssumption DEF CheckPassword, At
  <2>2. QED
    BY <1>0, <1>6, <2>1 DEF CheckPassword, Goto, Reply, At
<1>7. ASSUME NEW c \in Conn, AddLoggedInUser(c) PROVE Shape(d)'
  BY <1>0, <1>7 DEF AddLoggedInUser, Reply, Refused, At
<1>8. ASSUME NEW c \in Conn, SubmitScore(c) PROVE Shape(d)'
  BY <1>0, <1>8 DEF SubmitScore, Reply, At
<1>9. ASSUME NEW c \in Conn, Leaderboard(c) PROVE Shape(d)'
  BY <1>0, <1>9 DEF Leaderboard, Reply, At
<1>10. ASSUME NEW c \in Conn, WordList(c) PROVE Shape(d)'
  BY <1>0, <1>10 DEF WordList, Reply, At
<1>11. ASSUME NEW c \in Conn, Logout(c) PROVE Shape(d)'
  <2>1. CASE d # c
    BY <1>0, <1>11, <2>1 DEF Logout, Leave, Reply, At
  <2>2. CASE d = c
    BY <1>0, <1>11, <2>2 DEF Logout, Leave, Reply, At
  <2>3. QED
    BY <2>1, <2>2
<1>12. ASSUME NEW c \in Conn, Send(c) PROVE Shape(d)'
  <2>1. CASE d = c
    <3>1. pc[c] = "send" /\ Running /\ peer[c] \in {"auth", "menu"}
      BY <1>0, <1>12 DEF Send, At, Peers
    <3>2. pc'[c] = "recv" /\ cur' = cur /\ proc' = proc
      BY <1>12 DEF Send, Goto
    <3>3. peer'[c] = PhaseAfter(peer[c], req[c].type, ok[c])
      BY <1>12 DEF Send
    <3>4. peer[c] = "auth" => peer'[c] = IF cur[c] = NoUser THEN "auth" ELSE "menu"
      BY <1>0, <3>1, <3>3 DEF PhaseAfter
    <3>5. peer[c] = "menu" => peer'[c] = IF cur[c] = NoUser THEN "bye" ELSE "menu"
      BY <1>0, <3>1, <3>3 DEF PhaseAfter
    <3>6. QED
      BY <2>1, <3>1, <3>2, <3>4, <3>5
  <2>2. CASE d # c
    BY <1>0, <1>12, <2>2 DEF Send, Goto
  <2>3. QED
    BY <2>1, <2>2
<1>13. ASSUME NEW c \in Conn, SendInVain(c) PROVE Shape(d)'
  BY <1>0, <1>13 DEF SendInVain, Goto, At
<1>14. ASSUME NEW c \in Conn, EndOfStream(c) PROVE Shape(d)'
  BY <1>0, <1>14 DEF EndOfStream, Goto, Ends, At
<1>15. ASSUME NEW c \in Conn, Cleanup(c) PROVE Shape(d)'
  BY <1>0, <1>15 DEF Cleanup, Leave, Goto, At
<1>16. ASSUME NEW c \in Conn, Disconnect(c) PROVE Shape(d)'
  BY <1>0, <1>16 DEF Disconnect, threads
<1>17. ASSUME NEW how \in {"down", "killed"}, Die(how) PROVE Shape(d)'
  BY <1>17 DEF Die
<1>18. CASE RequestShutdown
  BY <1>0, <1>18 DEF RequestShutdown, threads
<1>19. CASE Start
  BY <1>0, <1>19 DEF Start, threads
<1>20. CASE UNCHANGED vars
  BY <1>0, <1>20 DEF vars, threads
<1> HIDE DEF Shape
<1>21. QED
  BY <1>1, <1>2, <1>3, <1>4, <1>5, <1>6, <1>7, <1>8, <1>9, <1>10, <1>11, <1>12,
     <1>13, <1>14, <1>15, <1>16, <1>17, <1>18, <1>19, <1>20
     DEF Next, Handle, Finish, SigPipe, Exit, Crash

-----------------------------------------------------------------------------
(* The table of logged-in users.                                           *)

\* A new member counts for one.
LEMMA AddOne ==
  ASSUME NEW S, NEW x, IsFiniteSet(S), x \notin S
  PROVE  Cardinality(S \cup {x}) = Cardinality(S) + 1
BY FS_AddElement

\* And so does one that is gone.
LEMMA DropOne ==
  ASSUME NEW S, NEW x, IsFiniteSet(S), x \in S
  PROVE  Cardinality(S \ {x}) = Cardinality(S) - 1
BY FS_RemoveElement

\* Slots and connections can be counted.
LEMMA Countable ==
  ASSUME NEW u
  PROVE  /\ IsFiniteSet(SlotsOf(u)) /\ IsFiniteSet(Slot \ SlotsOf(u))
         /\ IsFiniteSet(Holders(u)) /\ IsFiniteSet(Conn \ Holders(u))
         /\ Cardinality(SlotsOf(u)) \in Nat /\ Cardinality(Slot \ SlotsOf(u)) \in Nat
         /\ Cardinality(Holders(u)) \in Nat /\ Cardinality(Conn \ Holders(u)) \in Nat
<1>1. IsFiniteSet(Slot) /\ IsFiniteSet(Conn)
  BY BoundsAssumption, FS_Interval DEF Slot
<1>2. SlotsOf(u) \in SUBSET Slot /\ Slot \ SlotsOf(u) \in SUBSET Slot
  BY DEF SlotsOf
<1>3. Holders(u) \in SUBSET Conn /\ Conn \ Holders(u) \in SUBSET Conn
  BY DEF Holders
<1>4. QED
  BY <1>1, <1>2, <1>3, FS_Subset, FS_CardinalityType

\* A step that leaves the table and every session alone.
LEMMA CountSame ==
  ASSUME SlotsMatchSessions, SlotsTaken, slots' = slots,
         \A d \in Conn : SessionOf(d)' = SessionOf(d)
  PROVE  SlotsMatchSessions' /\ SlotsTaken'
<1>1. \A u : SlotsOf(u)' = SlotsOf(u) /\ Holders(u)' = Holders(u)
  BY DEF SlotsOf, Holders
<1>2. QED
  BY <1>1 DEF SlotsMatchSessions, SlotsTaken

\* A slot is taken under the name of a session that begins.
LEMMA CountLogIn ==
  ASSUME TypeOK, SlotsMatchSessions, SlotsTaken, ~TableFull,
         NEW c \in Conn, NEW u \in User, SessionOf(c) = NoUser,
         slots' = TakeSlot(u), SessionOf(c)' = u,
         \A d \in Conn \ {c} : SessionOf(d)' = SessionOf(d)
  PROVE  SlotsMatchSessions' /\ SlotsTaken'
<1> DEFINE i == FirstOf(SlotsOf(NoUser))
<1>1. i \in Slot /\ slots[i] = NoUser
  BY FirstExists DEF TableFull, SlotsOf, Slot
<1>2. slots' = [slots EXCEPT ![i] = u]
  BY DEF TakeSlot
<1> HIDE DEF i
<1>3. u # NoUser
  BY NamesAssumption
<1>4. /\ SlotsOf(u)' = SlotsOf(u) \cup {i} /\ i \notin SlotsOf(u)
      /\ \A v \in User \ {u} : SlotsOf(v)' = SlotsOf(v)
      /\ (Slot \ SlotsOf(NoUser))' = (Slot \ SlotsOf(NoUser)) \cup {i}
      /\ i \notin Slot \ SlotsOf(NoUser)
  BY <1>1, <1>2, <1>3, NamesAssumption DEF SlotsOf, TypeOK
<1>5. /\ Holders(u)' = Holders(u) \cup {c} /\ c \notin Holders(u)
      /\ \A v \in User \ {u} : Holders(v)' = Holders(v)
      /\ (Conn \ Holders(NoUser))' = (Conn \ Holders(NoUser)) \cup {c}
      /\ c \notin Conn \ Holders(NoUser)
  BY <1>3, NamesAssumption DEF Holders
<1>6. Cardinality(SlotsOf(u))' = Cardinality(SlotsOf(u)) + 1
  BY <1>4, Countable, AddOne
<1>7. Cardinality(Holders(u))' = Cardinality(Holders(u)) + 1
  BY <1>5, Countable, AddOne
<1>8. Cardinality(Slot \ SlotsOf(NoUser))' = Cardinality(Slot \ SlotsOf(NoUser)) + 1
  BY <1>4, Countable, AddOne
<1>9. Cardinality(Conn \ Holders(NoUser))' = Cardinality(Conn \ Holders(NoUser)) + 1
  BY <1>5, Countable, AddOne
<1>10. ASSUME NEW v \in User PROVE (Cardinality(SlotsOf(v)) = Cardinality(Holders(v)))'
  <2>1. Cardinality(SlotsOf(v)) = Cardinality(Holders(v))
    BY DEF SlotsMatchSessions
  <2>2. CASE v = u
    BY <1>6, <1>7, <2>1, <2>2
  <2>3. CASE v # u
    BY <1>4, <1>5, <2>1, <2>3
  <2>4. QED
    BY <2>2, <2>3
<1>11. SlotsTaken'
  BY <1>8, <1>9 DEF SlotsTaken
<1>12. QED
  BY <1>10, <1>11 DEF SlotsMatchSessions

\* The first slot of a name is freed by a session of that name that ends.
LEMMA CountLogOut ==
  ASSUME TypeOK, SlotsMatchSessions, SlotsTaken,
         NEW c \in Conn, NEW u \in User, SessionOf(c) = u,
         slots' = FreeSlot(u), SessionOf(c)' = NoUser,
         \A d \in Conn \ {c} : SessionOf(d)' = SessionOf(d)
  PROVE  SlotsMatchSessions' /\ SlotsTaken'
<1> DEFINE i == FirstOf(SlotsOf(u))
<1>1. SlotsOf(u) # {}
  <2>1. Cardinality(Holders(u)) # 0
    <3>1. c \in Holders(u)
      BY DEF Holders
    <3>2. IsFiniteSet(Holders(u))
      BY Countable
    <3>3. QED
      BY <3>1, <3>2, FS_EmptySet
  <2>2. Cardinality(SlotsOf(u)) # 0
    BY <2>1 DEF SlotsMatchSessions
  <2>3. Cardinality({}) = 0
    BY FS_EmptySet
  <2>4. QED
    BY <2>2, <2>3
<1>2. i \in Slot /\ slots[i] = u
  BY <1>1, FirstExists DEF SlotsOf, Slot
<1>3. slots' = [slots EXCEPT ![i] = NoUser]
  BY <1>1 DEF FreeSlot
<1> HIDE DEF i
<1>4. u # NoUser
  BY NamesAssumption
<1>5. /\ SlotsOf(u)' = SlotsOf(u) \ {i} /\ i \in SlotsOf(u)
      /\ \A v \in User \ {u} : SlotsOf(v)' = SlotsOf(v)
      /\ (Slot \ SlotsOf(NoUser))' = (Slot \ SlotsOf(NoUser)) \ {i}
      /\ i \in Slot \ SlotsOf(NoUser)
  BY <1>2, <1>3, <1>4, NamesAssumption DEF SlotsOf, TypeOK
<1>6. /\ Holders(u)' = Holders(u) \ {c} /\ c \in Holders(u)
      /\ \A v \in User \ {u} : Holders(v)' = Holders(v)
      /\ (Conn \ Holders(NoUser))' = (Conn \ Holders(NoUser)) \ {c}
      /\ c \in Conn \ Holders(NoUser)
  BY <1>4, NamesAssumption DEF Holders
<1>7. Cardinality(SlotsOf(u))' = Cardinality(SlotsOf(u)) - 1
  BY <1>5, Countable, DropOne
<1>8. Cardinality(Holders(u))' = Cardinality(Holders(u)) - 1
  BY <1>6, Countable, DropOne
<1>9. Cardinality(Slot \ SlotsOf(NoUser))' = Cardinality(Slot \ SlotsOf(NoUser)) - 1
  BY <1>5, Countable, DropOne
<1>10. Cardinality(Conn \ Holders(NoUser))' = Cardinality(Conn \ Holders(NoUser)) - 1
  BY <1>6, Countable, DropOne
<1>11. ASSUME NEW v \in User PROVE (Cardinality(SlotsOf(v)) = Cardinality(Holders(v)))'
  <2>1. Cardinality(SlotsOf(v)) = Cardinality(Holders(v))
    BY DEF SlotsMatchSessions
  <2>2. CASE v = u
    BY <1>7, <1>8, <2>1, <2>2
  <2>3. CASE v # u
    BY <1>5, <1>6, <2>1, <2>3
  <2>4. QED
    BY <2>2, <2>3
<1>12. SlotsTaken'
  BY <1>9, <1>10 DEF SlotsTaken
<1>13. QED
  BY <1>11, <1>12 DEF SlotsMatchSessions

\* Every step keeps the count: sessions and slots come and go together.
LEMMA CountStep ==
  ASSUME TypeOK, \A c \in Conn : RequestShape(c), SlotsMatchSessions, SlotsTaken,
         [Next]_vars
  PROVE  SlotsMatchSessions' /\ SlotsTaken'
<1> DEFINE Inv == SlotsMatchSessions /\ SlotsTaken
<1> USE DEF TypeOK, SessionOf, Holds
<1>1. ASSUME NEW c \in Conn, Accept(c) PROVE Inv'
  <2>1. \A d \in Conn : SessionOf(d)' = SessionOf(d)
    BY <1>1 DEF Accept, RequestShape
  <2>2. QED
    BY <1>1, <2>1, CountSame DEF Accept
<1>2. ASSUME NEW c \in Conn, Receive(c) PROVE Inv'
  <2>1. PICK m \in Askable(peer[c]) : pc' = [pc EXCEPT ![c] = m.type]
    BY <1>2 DEF Receive, Goto
  <2>2. m.type # "add_slot"
    BY <2>1, AskedRequests
  <2>3. \A d \in Conn : SessionOf(d)' = SessionOf(d)
    BY <1>2, <2>1, <2>2 DEF Receive, At
  <2>4. QED
    BY <1>2, <2>3, CountSame DEF Receive
<1>3. ASSUME NEW c \in Conn, LookUpNewName(c) PROVE Inv'
  <2>1. \A d \in Conn : SessionOf(d)' = SessionOf(d)
    BY <1>3 DEF LookUpNewName, Goto, Reply, At
  <2>2. QED
    BY <1>3, <2>1, CountSame DEF LookUpNewName
<1>4. ASSUME NEW c \in Conn, AppendUser(c) PROVE Inv'
  <2>1. \A d \in Conn : SessionOf(d)' = SessionOf(d)
    BY <1>4 DEF AppendUser, Reply, At
  <2>2. QED
    BY <1>4, <2>1, CountSame DEF AppendUser
<1>5. ASSUME NEW c \in Conn, CheckNotLoggedIn(c) PROVE Inv'
  <2>1. \A d \in Conn : SessionOf(d)' = SessionOf(d)
    BY <1>5 DEF CheckNotLoggedIn, Goto, Reply, At
  <2>2. QED
    BY <1>5, <2>1, CountSame DEF CheckNotLoggedIn
<1>6. ASSUME NEW c \in Conn, CheckPassword(c) PROVE Inv'
  <2>1. \A d \in Conn : SessionOf(d)' = SessionOf(d)
    BY <1>6 DEF CheckPassword, Goto, Reply, At, RequestShape
  <2>2. QED
    BY <1>6, <2>1, CountSame DEF CheckPassword
<1>7. ASSUME NEW c \in Conn, SubmitScore(c) PROVE Inv'
  <2>1. \A d \in Conn : SessionOf(d)' = SessionOf(d)
    BY <1>7 DEF SubmitScore, Reply, At
  <2>2. QED
    BY <1>7, <2>1, CountSame DEF SubmitScore
<1>8. ASSUME NEW c \in Conn, Leaderboard(c) PROVE Inv'
  <2>1. \A d \in Conn : SessionOf(d)' = SessionOf(d)
    BY <1>8 DEF Leaderboard, Reply, At
  <2>2. QED
    BY <1>8, <2>1, CountSame DEF Leaderboard
<1>9. ASSUME NEW c \in Conn, WordList(c) PROVE Inv'
  <2>1. \A d \in Conn : SessionOf(d)' = SessionOf(d)
    BY <1>9 DEF WordList, Reply, At
  <2>2. QED
    BY <1>9, <2>1, CountSame DEF WordList
<1>10. ASSUME NEW c \in Conn, Send(c) PROVE Inv'
  <2>1. \A d \in Conn : SessionOf(d)' = SessionOf(d)
    BY <1>10 DEF Send, Goto, At
  <2>2. QED
    BY <1>10, <2>1, CountSame DEF Send
<1>11. ASSUME NEW c \in Conn, SendInVain(c) PROVE Inv'
  <2>1. \A d \in Conn : SessionOf(d)' = SessionOf(d)
    BY <1>11 DEF SendInVain, Goto, At
  <2>2. QED
    BY <1>11, <2>1, CountSame DEF SendInVain
<1>12. ASSUME NEW c \in Conn, EndOfStream(c) PROVE Inv'
  <2>1. \A d \in Conn : SessionOf(d)' = SessionOf(d)
    BY <1>12 DEF EndOfStream, Goto, At
  <2>2. QED
    BY <1>12, <2>1, CountSame DEF EndOfStream
<1>13. ASSUME NEW c \in Conn, Disconnect(c) PROVE Inv'
  <2>1. \A d \in Conn : SessionOf(d)' = SessionOf(d)
    BY <1>13 DEF Disconnect, threads
  <2>2. QED
    BY <1>13, <2>1, CountSame DEF Disconnect
<1>14. ASSUME NEW c \in Conn, AddLoggedInUser(c) PROVE Inv'
  <2>1. SessionOf(c) = NoUser /\ cur[c] \in User
    BY <1>14 DEF AddLoggedInUser, At, RequestShape
  <2>2. \A d \in Conn \ {c} : SessionOf(d)' = SessionOf(d)
    BY <1>14 DEF AddLoggedInUser, Reply
  <2>3. CASE TableFull
    <3>1. slots' = slots /\ SessionOf(c)' = NoUser
      BY <1>14, <2>3 DEF AddLoggedInUser, Reply, Refused
    <3>2. QED
      BY <2>1, <2>2, <3>1, CountSame
  <2>4. CASE ~TableFull
    <3>1. slots' = TakeSlot(cur[c]) /\ SessionOf(c)' = cur[c]
      BY <1>14, <2>1, <2>4, NamesAssumption DEF AddLoggedInUser, Reply
    <3>2. QED
      BY <2>1, <2>2, <2>4, <3>1, CountLogIn
  <2>5. QED
    BY <2>3, <2>4
<1>15. ASSUME NEW c \in Conn, Logout(c) PROVE Inv'
  <2>1. cur[c] = SessionOf(c) /\ SessionOf(c)' = NoUser
    BY <1>15 DEF Logout, Leave, Reply, At
  <2>2. \A d \in Conn \ {c} : SessionOf(d)' = SessionOf(d)
    BY <1>15 DEF Logout, Leave, Reply, At
  <2>3. CASE cur[c] = NoUser
    <3>1. slots' = slots
      BY <1>15, <2>3 DEF Logout, Leave
    <3>2. QED
      BY <2>1, <2>2, <2>3, <3>1, CountSame
  <2>4. CASE cur[c] # NoUser
    <3>1. slots' = FreeSlot(cur[c]) /\ cur[c] \in User
      BY <1>15, <2>4 DEF Logout, Leave
    <3>2. QED
      BY <2>1, <2>2, <3>1, CountLogOut
  <2>5. QED
    BY <2>3, <2>4
<1>16. ASSUME NEW c \in Conn, Cleanup(c) PROVE Inv'
  <2>1. cur[c] = SessionOf(c) /\ SessionOf(c)' = NoUser
    BY <1>16 DEF Cleanup, Leave, Goto, At
  <2>2. \A d \in Conn \ {c} : SessionOf(d)' = SessionOf(d)
    BY <1>16 DEF Cleanup, Leave, Goto, At
  <2>3. CASE cur[c] = NoUser
    <3>1. slots' = slots
      BY <1>16, <2>3 DEF Cleanup, Leave
    <3>2. QED
      BY <2>1, <2>2, <2>3, <3>1, CountSame
  <2>4. CASE cur[c] # NoUser
    <3>1. slots' = FreeSlot(cur[c]) /\ cur[c] \in User
      BY <1>16, <2>4 DEF Cleanup, Leave
    <3>2. QED
      BY <2>1, <2>2, <3>1, CountLogOut
  <2>5. QED
    BY <2>3, <2>4
<1>17. ASSUME slots' = EmptyTable, \A d \in Conn : cur'[d] = NoUser PROVE Inv'
  <2>1. \A d \in Conn : SessionOf(d)' = NoUser
    BY <1>17
  <2>2. \A u \in User : SlotsOf(u)' = {} /\ Holders(u)' = {}
    BY <1>17, <2>1, NamesAssumption DEF SlotsOf, Holders, EmptyTable
  <2>3. (Slot \ SlotsOf(NoUser))' = {} /\ (Conn \ Holders(NoUser))' = {}
    BY <1>17, <2>1 DEF SlotsOf, Holders, EmptyTable
  <2>4. QED
    BY <2>2, <2>3 DEF SlotsMatchSessions, SlotsTaken
<1>18. ASSUME NEW how \in {"down", "killed"}, Die(how) PROVE Inv'
  BY <1>17, <1>18 DEF Die
<1>19. CASE RequestShutdown
  BY <1>19, CountSame DEF RequestShutdown, threads
<1>20. CASE Start
  BY <1>17, <1>20 DEF Start, threads, RequestShape
<1>21. CASE UNCHANGED vars
  BY <1>21, CountSame DEF vars, threads
<1>22. QED
  BY <1>1, <1>2, <1>3, <1>4, <1>5, <1>6, <1>7, <1>8, <1>9, <1>10, <1>11, <1>12,
     <1>13, <1>14, <1>15, <1>16, <1>18, <1>19, <1>20, <1>21
     DEF Next, Handle, Finish, SigPipe, Exit, Crash

-----------------------------------------------------------------------------
(* Accounts and what was acknowledged.                                     *)

\* Only the two appends change the files.
LEMMA FileSteps ==
  ASSUME [Next]_vars
  PROVE  UNCHANGED files \/ \E c \in Conn : AppendUser(c) \/ SubmitScore(c)
<1>1. ASSUME NEW c \in Conn, Handle(c), ~AppendUser(c), ~SubmitScore(c)
      PROVE  UNCHANGED files
  BY <1>1 DEF Handle, LookUpNewName, CheckNotLoggedIn, CheckPassword, AddLoggedInUser,
     Leaderboard, WordList, Logout
<1>2. ASSUME NEW c \in Conn,
             Accept(c) \/ Receive(c) \/ Finish(c) \/ Disconnect(c) \/ SigPipe(c)
      PROVE  UNCHANGED files
  BY <1>2 DEF Accept, Receive, Finish, Send, SendInVain, EndOfStream, Cleanup, Disconnect,
     SigPipe, Die
<1>3. ASSUME RequestShutdown \/ Exit \/ Crash \/ Start \/ UNCHANGED vars
      PROVE  UNCHANGED files
  BY <1>3 DEF RequestShutdown, Exit, Crash, Start, Die, vars
<1> QED
  BY <1>1, <1>2, <1>3, Zenon DEF Next

\* Steps only ever append to the files, and what broke off is not mended.
LEMMA FilesGrow ==
  ASSUME TypeOK, \A c \in Conn : RequestShape(c), [Next]_vars
  PROVE  /\ Len(users') \in Nat /\ Len(users) \in Nat /\ Len(users') >= Len(users)
         /\ \A i \in 1..Len(users) : users'[i] = users[i]
         /\ Len(scores') \in Nat /\ Len(scores) \in Nat /\ Len(scores') >= Len(scores)
         /\ \A i \in 1..Len(scores) : scores'[i] = scores[i]
         /\ torn \in Nat /\ torn' \in Nat /\ torn' >= torn
         /\ Len(userTail) \in Nat /\ Len(userTail') \in Nat
<1>1. TypeOK'
  BY TypeStep
<1>2. users' = users \/ \E line : users' = Append(users, line)
  BY FileSteps, UserWritten, ScoreWritten DEF files, userFile
<1>3. scores' = scores \/ \E line : scores' = Append(scores, line)
  BY FileSteps, UserWritten, ScoreWritten DEF files, scoreFile
<1>4. torn' = torn \/ torn' = torn + 1
  BY FileSteps, UserWritten, ScoreWritten, Zenon DEF files
<1>5. Len(users') >= Len(users) /\ \A i \in 1..Len(users) : users'[i] = users[i]
  BY <1>1, <1>2 DEF TypeOK
<1>6. Len(scores') >= Len(scores) /\ \A i \in 1..Len(scores) : scores'[i] = scores[i]
  <2>1. scores \in Seq(ScoreLine) /\ scores' \in Seq(ScoreLine)
    BY <1>1 DEF TypeOK
  <2> QED
    BY <1>3, <2>1
<1>7. torn \in Nat /\ torn' \in Nat /\ torn' >= torn
  BY <1>1, <1>4, BoundsAssumption DEF TypeOK
<1>8. QED
  BY <1>1, <1>5, <1>6, <1>7 DEF TypeOK

\* A set of line numbers can be counted.
LEMMA LinesCountable ==
  ASSUME NEW n \in Nat, NEW L \in SUBSET (1..n)
  PROVE  IsFiniteSet(L) /\ Cardinality(L) \in Nat
<1>1. IsFiniteSet(1..n)
  BY FS_Interval
<1> QED
  BY <1>1, FS_Subset, FS_CardinalityType

\* So can the spoilt lines.
LEMMA SpoiltCountable ==
  ASSUME TypeOK
  PROVE  /\ IsFiniteSet(SpoiltUsers) /\ Cardinality(SpoiltUsers) \in Nat
         /\ IsFiniteSet(SpoiltScores) /\ Cardinality(SpoiltScores) \in Nat
<1>1. Len(users) \in Nat /\ Len(scores) \in Nat
  BY DEF TypeOK
<1>2. SpoiltUsers \in SUBSET (1..Len(users)) /\ SpoiltScores \in SUBSET (1..Len(scores))
  BY DEF SpoiltUsers, SpoiltScores
<1> QED
  BY <1>1, <1>2, LinesCountable

\* As long as no write broke off, users.txt ends with a newline and each of its
\* lines stands for itself.
LEMMA WholeFile ==
  ASSUME TypeOK, OneLinePerTear, torn = 0
  PROVE  /\ userTail = << >>
         /\ \A i \in 1..Len(users) :
              users[i].reads = ReadingOf(users[i].name, users[i].pw)
<1> DEFINE tail == IF scoreTail THEN 1 ELSE 0
<1>1. Cardinality(SpoiltUsers) + Len(userTail) + Cardinality(SpoiltScores) + tail <= 0
  BY DEF OneLinePerTear
<1>2. Len(userTail) \in Nat /\ tail \in Nat
  BY DEF TypeOK
<1>3. Cardinality(SpoiltUsers) \in Nat /\ Cardinality(SpoiltScores) \in Nat
  BY SpoiltCountable
<1> HIDE DEF tail
<1>4. Cardinality(SpoiltUsers) = 0 /\ Len(userTail) = 0
  BY <1>1, <1>2, <1>3
<1>5. SpoiltUsers = {}
  BY <1>4, SpoiltCountable, FS_EmptySet
<1>6. userTail = << >>
  BY <1>4 DEF TypeOK
<1> QED
  BY <1>5, <1>6 DEF SpoiltUsers

\* Then a name is looked for among the whole lines, and all of them are read.
LEMMA WholeLines ==
  ASSUME TypeOK, OneLinePerTear, torn = 0, NEW u \in User
  PROVE  /\ LinesOf(u) = {i \in 1..Len(users) : users[i].reads.name = u}
         /\ Exists(u) => Firm(u)
<1>1. userTail = << >> /\ Len(users) \in Nat
  BY WholeFile DEF TypeOK
<1>2. Texts = 1..Len(users)
  BY <1>1 DEF Texts
<1>3. ASSUME NEW i \in 1..Len(users)
      PROVE  Text(i) = users[i].reads /\ Text(i) # EndsRead
  <2>1. Text(i) = users[i].reads
    BY <1>1 DEF Text
  <2>2. users[i].reads = ReadingOf(users[i].name, users[i].pw)
    BY WholeFile
  <2>3. users[i].name \in User
    <3>1. users \in Seq(Account)
      BY DEF TypeOK
    <3>2. users[i] \in Account
      BY <3>1
    <3> QED
      BY <3>2 DEF Account
  <2>4. ReadAs[users[i].name] # EndOfFile
    BY <2>3, NamesAssumption
  <2> QED
    BY <2>1, <2>2, <2>4 DEF ReadingOf, EndsRead
<1>4. LinesOf(u) = {i \in 1..Len(users) : users[i].reads.name = u}
  <2>1. \A i \in Texts : \A j \in 1..i : j \in 1..Len(users)
    BY <1>1, <1>2
  <2> QED
    BY <1>2, <1>3, <2>1 DEF LinesOf
<1>5. Exists(u) => Firm(u)
  BY <1>1, <1>4 DEF Exists, Firm
<1> QED
  BY <1>4, <1>5

\* Sessions, slots and scores keep to registered names: a name enters a session
\* only through its line in the file, and everything else copies it from there.
LEMMA AccountsStep ==
  ASSUME TypeOK, \A c \in Conn : RequestShape(c), OneLinePerTear, OnlyAccountsPlay,
         [Next]_vars
  PROVE  OnlyAccountsPlay'
<1>1. \A u : HasAccount(u) => HasAccount(u)'
  BY FilesGrow DEF HasAccount
<1> SUFFICES ASSUME torn' = 0
             PROVE  /\ \A d \in Conn : cur'[d] # NoUser => HasAccount(cur'[d])
                    /\ \A i \in Slot : slots'[i] # NoUser => HasAccount(slots'[i])
                    /\ \A i \in 1..Len(scores') : HasAccount(scores'[i].name)
  BY <1>1 DEF OnlyAccountsPlay
<1>0. torn = 0
  BY FilesGrow
<1>2. ASSUME NEW u \in User, NEW p \in Password, Authenticates(u, p) PROVE HasAccount(u)
  <2> DEFINE i == FirstOf(LinesOf(u))
  <2>1. LinesOf(u) = {k \in 1..Len(users) : users[k].reads.name = u} /\ LinesOf(u) # {}
    BY <1>0, <1>2, WholeLines DEF Authenticates, Exists
  <2>2. i \in 1..Len(users) /\ users[i].reads.name = u
    BY <2>1, FirstExists
  <2>3. users[i].reads.pw = p
    BY <1>2, <2>2 DEF Authenticates, LineOf, Text
  <2> HIDE DEF i
  <2>4. users[i].reads = ReadingOf(users[i].name, users[i].pw)
    BY <1>0, <2>2, WholeFile
  <2>5. p # NoHash
    BY NamesAssumption
  <2>6. users[i].name = u
    BY <2>2, <2>3, <2>4, <2>5 DEF ReadingOf
  <2> QED
    BY <2>2, <2>6 DEF HasAccount
<1>3. ASSUME NEW d \in Conn, cur'[d] # NoUser PROVE HasAccount(cur'[d])
  <2>1. CASE cur'[d] = cur[d]
    BY <1>0, <1>3, <2>1 DEF OnlyAccountsPlay
  <2>2. CASE cur'[d] # cur[d]
    <3>1. \E c \in Conn : CheckPassword(c)
      <4>1. ASSUME NEW c \in Conn, Handle(c), ~CheckPassword(c)
            PROVE  cur'[d] \in {cur[d], NoUser}
        BY <4>1 DEF Handle, LookUpNewName, AppendUser, CheckNotLoggedIn,
           AddLoggedInUser, Refused, SubmitScore, Leaderboard, WordList, Logout,
           Leave, TypeOK
      <4>2. ASSUME NEW c \in Conn,
                   Accept(c) \/ Receive(c) \/ Finish(c) \/ Disconnect(c)
            PROVE  cur'[d] \in {cur[d], NoUser}
        BY <4>2 DEF Accept, Receive, Finish, Send, SendInVain, EndOfStream, Cleanup,
           Leave, Disconnect, threads, TypeOK
      <4>3. ASSUME NEW how, Die(how) PROVE cur'[d] = NoUser
        BY <4>3 DEF Die
      <4>4. ASSUME RequestShutdown \/ Start \/ UNCHANGED vars PROVE cur'[d] = cur[d]
        BY <4>4 DEF RequestShutdown, Start, threads, vars
      <4>5. QED
        BY <1>3, <2>2, <4>1, <4>2, <4>3, <4>4, Zenon
           DEF Next, SigPipe, Exit, Crash
    <3>2. PICK c \in Conn : CheckPassword(c)
      BY <3>1
    <3>3. c = d /\ cur'[d] = req[d].user /\ Authenticates(req[d].user, req[d].pw)
      BY <1>3, <2>2, <3>2 DEF CheckPassword, TypeOK
    <3>4. req[d].user \in User
      BY <3>2, <3>3, RequestFields DEF CheckPassword, At, RequestShape, TypeOK
    <3>5. req[d].pw \in Password
      BY <3>2, <3>3, RequestFields DEF CheckPassword, At, RequestShape, TypeOK
    <3>6. QED
      BY <1>2, <3>3, <3>4, <3>5
  <2>3. QED
    BY <2>1, <2>2
<1>4. ASSUME NEW i \in Slot, slots'[i] # NoUser PROVE HasAccount(slots'[i])
  <2>1. slots'[i] = slots[i] \/ \E c \in Conn : slots'[i] = cur[c]
    BY <1>4 DEF Next, Handle, Finish, SigPipe, Exit, Crash, Die, Accept,
       Receive, LookUpNewName, AppendUser, CheckNotLoggedIn, CheckPassword,
       AddLoggedInUser, TakeSlot, FreeSlot, EmptyTable, SubmitScore, Leaderboard,
       WordList, Logout, Leave, Send, SendInVain, EndOfStream, Cleanup, Disconnect,
       RequestShutdown, Start, vars, TypeOK, threads
  <2>2. QED
    BY <1>0, <1>4, <2>1 DEF OnlyAccountsPlay
<1>5. ASSUME NEW i \in 1..Len(scores') PROVE HasAccount(scores'[i].name)
  <2>1. CASE scores' = scores
    BY <1>0, <1>5, <2>1 DEF OnlyAccountsPlay
  <2>2. CASE scores' # scores
    <3>1. PICK c \in Conn : SubmitScore(c)
      BY <2>2, FileSteps, UserWritten DEF files, scoreFile
    <3>3. /\ cur[c] # NoUser
          /\ scores' = Append(scores, [name |-> cur[c], score |-> req[c].score,
                                       alone |-> ~scoreTail])
      BY <2>2, <3>1, ScoreWritten DEF scoreFile
    <3>4. HasAccount(cur[c])
      BY <1>0, <3>3 DEF OnlyAccountsPlay
    <3>5. i \in 1..Len(scores) \/ scores'[i].name = cur[c]
      BY <1>5, <3>3 DEF TypeOK
    <3>6. i \in 1..Len(scores) => scores'[i] = scores[i]
      BY FilesGrow
    <3>7. QED
      BY <1>0, <3>4, <3>5, <3>6 DEF OnlyAccountsPlay
  <2>3. QED
    BY <2>1, <2>2
<1>6. QED
  BY <1>3, <1>4, <1>5

\* A line written behind no fragment reads as it should; one behind a fragment
\* takes its place among what is spoilt.
LEMMA SpoiltByWrite ==
  ASSUME TypeOK, NEW u, NEW p, NEW r \in Behind(u, p), userTail' = << >>,
         users' = Append(users, [name |-> u, pw |-> p, reads |-> r])
  PROVE  Cardinality(SpoiltUsers)' + Len(userTail') <= Cardinality(SpoiltUsers) + Len(userTail)
<1> DEFINE n == Len(users) + 1
           B(l) == l.reads # ReadingOf(l.name, l.pw)
           line == [name |-> u, pw |-> p, reads |-> r]
<1>1. Len(users) \in Nat /\ Len(userTail) \in Nat /\ Len(userTail') = 0
  BY DEF TypeOK
<1>2. line.name = u /\ line.pw = p /\ line.reads = r
  OBVIOUS
<1>3. users' = Append(users, line)
  OBVIOUS
<1>4. Len(users') = n /\ users'[n] = line /\ \A i \in 1..Len(users) : users'[i] = users[i]
  <2> HIDE DEF line
  <2> QED
    BY <1>3 DEF TypeOK
<1>5. userTail = << >> => r = ReadingOf(u, p)
  BY DEF Behind
<1>6. \A l : B(l)' <=> B(l)
  BY DEF ReadingOf
<1>7. SpoiltUsers = {i \in 1..Len(users) : B(users[i])}
  BY DEF SpoiltUsers
<1>8. SpoiltUsers' = {i \in 1..n : B(users'[i])}
  BY <1>4 DEF SpoiltUsers, ReadingOf
<1>9. B(line) <=> r # ReadingOf(u, p)
  BY <1>2
<1> HIDE DEF line, B
<1>10. SpoiltUsers' = IF B(line) THEN SpoiltUsers \cup {n} ELSE SpoiltUsers
  BY <1>1, <1>4, <1>7, <1>8
<1>11. n \notin SpoiltUsers
  BY <1>1, <1>7
<1>12. CASE B(line)
  <2>1. Cardinality(SpoiltUsers') = Cardinality(SpoiltUsers) + 1
    BY <1>10, <1>11, <1>12, SpoiltCountable, AddOne
  <2>2. Len(userTail) # 0
    BY <1>5, <1>9, <1>12 DEF TypeOK
  <2> QED
    BY <1>1, <2>1, <2>2, SpoiltCountable
<1>13. CASE ~B(line)
  BY <1>1, <1>10, <1>13, SpoiltCountable
<1> QED
  BY <1>12, <1>13

LEMMA ScoreSpoiltByWrite ==
  ASSUME TypeOK, NEW u, NEW k,
         scores' = Append(scores, [name |-> u, score |-> k, alone |-> ~scoreTail])
  PROVE  Cardinality(SpoiltScores)' =
           IF scoreTail THEN Cardinality(SpoiltScores) + 1 ELSE Cardinality(SpoiltScores)
<1> DEFINE n == Len(scores) + 1
           line == [name |-> u, score |-> k, alone |-> ~scoreTail]
<1>1. Len(scores) \in Nat
  BY DEF TypeOK
<1>2. line.alone <=> ~scoreTail
  BY Zenon
<1>3. scores' = Append(scores, line)
  OBVIOUS
<1> HIDE DEF line
<1>4. Len(scores') = n /\ scores'[n] = line /\ \A i \in 1..Len(scores) : scores'[i] = scores[i]
  BY <1>3 DEF TypeOK
<1>5. SpoiltScores' = IF ~line.alone THEN SpoiltScores \cup {n} ELSE SpoiltScores
  BY <1>1, <1>4 DEF SpoiltScores
<1>6. n \notin SpoiltScores
  BY <1>1 DEF SpoiltScores
<1>7. SpoiltScores' = IF scoreTail THEN SpoiltScores \cup {n} ELSE SpoiltScores
  BY <1>2, <1>5, Zenon
<1>8. CASE scoreTail
  <2>1. SpoiltScores' = SpoiltScores \cup {n}
    BY <1>7, <1>8
  <2> QED
    BY <1>6, <1>8, <2>1, SpoiltCountable, AddOne
<1>9. CASE ~scoreTail
  BY <1>7, <1>9
<1> QED
  BY <1>8, <1>9

\* A write that broke off costs at most the next line: the fragment it left is
\* gone when that line has its newline.
LEMMA TearStep ==
  ASSUME TypeOK, \A c \in Conn : RequestShape(c), OneLinePerTear, [Next]_vars
  PROVE  OneLinePerTear'
<1> DEFINE U == Cardinality(SpoiltUsers)
           S == Cardinality(SpoiltScores)
           T == Len(userTail)
           V == IF scoreTail THEN 1 ELSE 0
<1>1. TypeOK'
  BY TypeStep
<1>2. U \in Nat /\ S \in Nat /\ T \in Nat /\ V \in Nat /\ torn \in Nat
  BY SpoiltCountable, FilesGrow
<1>3. U' \in Nat /\ S' \in Nat /\ T' \in Nat /\ V' \in Nat /\ torn' \in Nat
  <2>1. SpoiltUsers' \in SUBSET (1..Len(users')) /\ SpoiltScores' \in SUBSET (1..Len(scores'))
    BY DEF SpoiltUsers, SpoiltScores
  <2>2. U' \in Nat /\ S' \in Nat
    BY <2>1, LinesCountable, FilesGrow
  <2> QED
    BY <2>2, FilesGrow
<1>4. U + T + S + V <= torn
  BY DEF OneLinePerTear
<1>5. UNCHANGED users => U' = U
  BY DEF SpoiltUsers, ReadingOf
<1>6. UNCHANGED userTail => T' = T
  OBVIOUS
<1>7. UNCHANGED scores => S' = S
  BY DEF SpoiltScores
<1>8. UNCHANGED scoreTail => V' = V
  OBVIOUS
<1>9. SUFFICES U' + T' + S' + V' <= torn'
  BY DEF OneLinePerTear
<1> HIDE DEF U, S, T, V
<1>10. CASE UNCHANGED files
  <2>1. U' = U /\ T' = T /\ S' = S /\ V' = V /\ torn' = torn
    BY <1>5, <1>6, <1>7, <1>8, <1>10 DEF files, userFile, scoreFile
  <2> QED
    BY <1>4, <2>1
<1>11. ASSUME NEW c \in Conn, AppendUser(c) PROVE U' + T' + S' + V' <= torn'
  <2>1. S' = S /\ V' = V
    BY <1>7, <1>8, <1>11, UserWritten DEF scoreFile
  <2>2. CASE /\ \E r \in Behind(req[c].user, req[c].pw) :
                  users' = Append(users, [name |-> req[c].user, pw |-> req[c].pw,
                                          reads |-> r])
             /\ userTail' = << >> /\ torn' = torn
    <3>1. U' + T' <= U + T
      BY <2>2, SpoiltByWrite DEF U, T
    <3>2. \A a, b, n \in Nat : a + b <= U + T /\ U + T + S + V <= n => a + b + S + V <= n
      BY <1>2
    <3> QED
      BY <1>2, <1>3, <1>4, <2>1, <2>2, <3>1, <3>2
  <2>3. CASE /\ torn' = torn + 1 /\ users' = users
             /\ \E r \in Fragments(req[c].user, req[c].pw) : userTail' = <<r>>
    <3>1. U' = U /\ T' = 1
      BY <1>5, <2>3 DEF T
    <3> QED
      BY <1>2, <1>3, <1>4, <2>1, <2>3, <3>1
  <2>4. CASE UNCHANGED userFile /\ torn' = torn
    <3>1. U' = U /\ T' = T
      BY <1>5, <1>6, <2>4 DEF userFile
    <3> QED
      BY <1>4, <2>1, <2>4, <3>1
  <2> QED
    BY <1>11, <2>2, <2>3, <2>4, UserWritten
<1>12. ASSUME NEW c \in Conn, SubmitScore(c) PROVE U' + T' + S' + V' <= torn'
  <2>1. U' = U /\ T' = T
    BY <1>5, <1>6, <1>12, ScoreWritten DEF userFile
  <2>2. CASE /\ scores' = Append(scores, [name |-> cur[c], score |-> req[c].score,
                                          alone |-> ~scoreTail])
             /\ scoreTail' = FALSE /\ torn' = torn
    <3>1. V' = 0 /\ (scoreTail => V = 1) /\ (~scoreTail => V = 0)
      BY <2>2 DEF V
    <3>2. S' = IF scoreTail THEN S + 1 ELSE S
      BY <2>2, ScoreSpoiltByWrite DEF S
    <3> QED
      BY <1>2, <1>3, <1>4, <2>1, <2>2, <3>1, <3>2
  <2>3. CASE torn' = torn + 1 /\ scores' = scores /\ scoreTail' = TRUE
    <3>1. S' = S /\ V' = 1
      BY <1>7, <2>3 DEF V
    <3> QED
      BY <1>2, <1>3, <1>4, <2>1, <2>3, <3>1
  <2>4. CASE UNCHANGED scoreFile /\ torn' = torn
    <3>1. S' = S /\ V' = V
      BY <1>7, <1>8, <2>4 DEF scoreFile
    <3> QED
      BY <1>4, <2>1, <2>4, <3>1
  <2>5. \/ /\ scores' = Append(scores, [name |-> cur[c], score |-> req[c].score,
                                         alone |-> ~scoreTail])
           /\ scoreTail' = FALSE /\ torn' = torn
        \/ torn' = torn + 1 /\ scores' = scores /\ scoreTail' = TRUE
        \/ UNCHANGED scoreFile /\ torn' = torn
    BY <1>12, ScoreWritten, Zenon
  <2> QED
    BY <2>2, <2>3, <2>4, <2>5
<1> QED
  BY <1>10, <1>11, <1>12, FileSteps

\* A thread gets to a reply of success for a registration or a score only through
\* the append, and no later step takes a line away.
LEMMA AcknowledgedStep ==
  ASSUME TypeOK, \A c \in Conn : RequestShape(c), AcknowledgedIsStored, [Next]_vars
  PROVE  AcknowledgedIsStored'
<1>0. OneLinePerTear'
  BY TearStep DEF AcknowledgedIsStored
<1> SUFFICES ASSUME NEW d \in Conn, pc'[d] = "send", ok'[d] PROVE Stored(d)'
  BY <1>0 DEF AcknowledgedIsStored
<1>1. CASE pc[d] = "send" /\ ok[d] /\ req'[d] = req[d] /\ cur'[d] = cur[d]
  <2>1. Stored(d)
    BY <1>1 DEF AcknowledgedIsStored
  <2>2. \A i \in 1..Len(users) : i \in 1..Len(users') /\ users'[i] = users[i]
    BY FilesGrow
  <2>3. \A i \in 1..Len(scores) : i \in 1..Len(scores') /\ scores'[i] = scores[i]
    BY FilesGrow
  <2>4. QED
    BY <1>1, <2>1, <2>2, <2>3, Zenon DEF Stored
<1>2. CASE AppendUser(d)
  <2> DEFINE n == Len(users) + 1
  <2>1. PICK r : users' = Append(users, [name |-> req[d].user, pw |-> req[d].pw,
                                         reads |-> r])
    BY <1>2, UserWritten
  <2>2. req' = req /\ req[d].type = "register"
    BY <1>2, UserWritten
  <2>3. n \in 1..Len(users') /\ users'[n].name = req[d].user /\ users'[n].pw = req[d].pw
    BY <2>1 DEF TypeOK
  <2> HIDE DEF n
  <2> QED
    BY <2>2, <2>3 DEF Stored
<1>3. CASE SubmitScore(d)
  <2> DEFINE n == Len(scores) + 1
             line == [name |-> cur[d], score |-> req[d].score, alone |-> ~scoreTail]
  <2>1. scores' = Append(scores, line)
    BY <1>3, ScoreWritten
  <2>2. req' = req /\ cur' = cur /\ req[d].type = "score"
    BY <1>3, ScoreWritten
  <2>3. line.name = cur[d] /\ line.score = req[d].score
    OBVIOUS
  <2> HIDE DEF line
  <2>4. n \in 1..Len(scores') /\ scores'[n] = line
    BY <2>1 DEF TypeOK
  <2> HIDE DEF n
  <2> QED
    BY <2>2, <2>3, <2>4 DEF Stored
<1>4. CASE req'[d].type \notin {"register", "score"}
  BY <1>4 DEF Stored
<1>5. QED
  <2> DEFINE Goal == \/ pc[d] = "send" /\ ok[d] /\ req'[d] = req[d] /\ cur'[d] = cur[d]
                     \/ AppendUser(d) \/ SubmitScore(d)
                     \/ req'[d].type \notin {"register", "score"}
  <2>1. ASSUME NEW c \in Conn,
               \/ Accept(c) \/ Receive(c) \/ LookUpNewName(c) \/ CheckNotLoggedIn(c)
               \/ CheckPassword(c) \/ AddLoggedInUser(c)
        PROVE  Goal
    BY <2>1, AskedRequests DEF Accept, Receive, LookUpNewName, CheckNotLoggedIn, CheckPassword,
       AddLoggedInUser, At, Goto, Reply, RequestShape, TypeOK
  <2>2. ASSUME NEW c \in Conn, AppendUser(c) \/ SubmitScore(c) PROVE Goal
    BY <2>2 DEF AppendUser, SubmitScore, At, Reply, TypeOK
  <2>3. ASSUME NEW c \in Conn, Leaderboard(c) \/ WordList(c) \/ Logout(c) PROVE Goal
    BY <2>3 DEF Leaderboard, WordList, Logout, Leave, At, Reply, RequestShape, TypeOK
  <2>4. ASSUME NEW c \in Conn,
               \/ Send(c) \/ SendInVain(c) \/ EndOfStream(c) \/ Cleanup(c)
               \/ Disconnect(c)
        PROVE  Goal
    BY <2>4 DEF Send, SendInVain, EndOfStream, Cleanup, Leave, Disconnect, threads,
       At, Goto, TypeOK
  <2>5. ASSUME NEW how \in {"down", "killed"}, Die(how) PROVE Goal
    BY <2>5 DEF Die
  <2>6. ASSUME RequestShutdown \/ Start \/ UNCHANGED vars PROVE Goal
    BY <2>6 DEF RequestShutdown, Start, threads, vars
  <2>7. Goal
    BY <2>1, <2>2, <2>3, <2>4, <2>5, <2>6
       DEF Next, Handle, Finish, SigPipe, Exit, Crash
  <2>8. QED
    BY <1>1, <1>2, <1>3, <1>4, <2>7

\* A line appended behind a name's first line does not change the answer, whatever
\* breaks off behind it.
LEMMA AccountsKept ==
  ASSUME TypeOK, \A c \in Conn : RequestShape(c), [Next]_vars, NEW u \in User, Firm(u)
  PROVE  Firm(u)' /\ Exists(u)' /\ LineOf(u)' = LineOf(u)
<1> DEFINE i == FirstOf(LinesOf(u))
<1>1. /\ Len(users) \in Nat /\ Len(users') \in Nat /\ Len(users') >= Len(users)
      /\ Len(userTail) \in Nat /\ Len(userTail') \in Nat
      /\ \A j \in 1..Len(users) : users'[j] = users[j]
  BY FilesGrow
<1>2. \A j \in 1..Len(users) : Text(j)' = Text(j)
  BY <1>1 DEF Text
<1>3. /\ LinesOf(u) \in SUBSET Nat
      /\ i \in LinesOf(u) /\ \A j \in LinesOf(u) : i <= j
  <2>1. LinesOf(u) \in SUBSET Nat /\ LinesOf(u) # {}
    BY <1>1 DEF Firm, LinesOf, Texts
  <2>2. QED
    BY <2>1, FirstExists
<1>4. i \in 1..Len(users)
  BY <1>1, <1>3 DEF Firm, LinesOf, Texts
<1> HIDE DEF i
<1>5. \A k \in 1..Len(users) : k \in LinesOf(u)' <=> k \in LinesOf(u)
  <2>1. \A k \in 1..Len(users) : \A j \in 1..k : j \in 1..Len(users)
    BY <1>1
  <2>2. \A k \in 1..Len(users) : k \in Texts /\ k \in Texts'
    BY <1>1 DEF Texts
  <2>3. QED
    BY <1>2, <2>1, <2>2 DEF LinesOf, EndsRead
<1>6. /\ LinesOf(u)' \in SUBSET Nat
      /\ FirstOf(LinesOf(u)') \in LinesOf(u)'
      /\ \A j \in LinesOf(u)' : FirstOf(LinesOf(u)') <= j
  <2>1. LinesOf(u)' \in SUBSET Nat
    BY <1>1 DEF LinesOf, Texts
  <2>2. LinesOf(u)' # {}
    BY <1>3, <1>4, <1>5
  <2>3. QED
    BY <2>1, <2>2, FirstExists
<1>7. FirstOf(LinesOf(u)') = i
  <2>1. FirstOf(LinesOf(u)') \in 1..i
    BY <1>1, <1>3, <1>4, <1>5, <1>6 DEF LinesOf, Texts
  <2>2. FirstOf(LinesOf(u)') \in LinesOf(u)
    BY <1>1, <1>4, <1>5, <1>6, <2>1
  <2>3. QED
    BY <1>3, <1>4, <2>1, <2>2
<1>8. Text(i)' = Text(i) /\ i' = i
  BY <1>2, <1>4, <1>7 DEF i
<1>9. LineOf(u)' = LineOf(u)
  BY <1>8 DEF LineOf, i
<1>10. Firm(u)'
  BY <1>1, <1>3, <1>4, <1>5 DEF Firm
<1>11. QED
  BY <1>9, <1>10 DEF Exists, Firm

\* An account does not change between the password check and the taking of a slot.
LEMMA StillOpenStep ==
  ASSUME TypeOK, \A c \in Conn : RequestShape(c) /\ StillOpen(c), OneLinePerTear,
         [Next]_vars
  PROVE  \A c \in Conn : StillOpen(c)'
<1> SUFFICES ASSUME NEW d \in Conn, pc'[d] = "add_slot", torn' = 0
             PROVE  Authenticates(cur[d], req[d].pw)'
  BY DEF StillOpen
<1>0. torn = 0
  BY FilesGrow
<1>1. CASE pc[d] = "add_slot" /\ req'[d] = req[d] /\ cur'[d] = cur[d]
  <2>1. cur[d] \in User /\ Authenticates(cur[d], req[d].pw)
    BY <1>0, <1>1 DEF StillOpen, RequestShape, TypeOK
  <2>2. Exists(cur[d])' /\ LineOf(cur[d])' = LineOf(cur[d])
    <3>1. ASSUME NEW u \in User, Exists(u), u = cur[d], cur'[d] = u
          PROVE  Exists(u)' /\ LineOf(u)' = LineOf(u)
      BY <1>0, <3>1, WholeLines, AccountsKept
    <3>2. QED
      BY <1>1, <2>1, <3>1 DEF Authenticates, Exists, LineOf, LinesOf
  <2>3. QED
    BY <1>1, <2>1, <2>2 DEF Authenticates
<1>2. CASE CheckPassword(d)
  <2>1. /\ cur'[d] = req[d].user /\ req' = req /\ UNCHANGED userFile
        /\ Authenticates(req[d].user, req[d].pw)
    BY <1>2 DEF CheckPassword, Reply, files, TypeOK
  <2>2. QED
    BY <2>1 DEF Authenticates, Exists, LineOf, LinesOf, Texts, Text, userFile, EndsRead
<1>3. QED
  <2> DEFINE Goal == \/ pc[d] = "add_slot" /\ req'[d] = req[d] /\ cur'[d] = cur[d]
                     \/ CheckPassword(d)
  <2>1. ASSUME NEW c \in Conn, Receive(c) PROVE Goal
    <3>1. PICK m \in Askable(peer[c]) :
            pc' = [pc EXCEPT ![c] = m.type] /\ req' = [req EXCEPT ![c] = m]
      BY <2>1 DEF Receive, Goto
    <3>2. m.type # "add_slot"
      BY <3>1, AskedRequests DEF TypeOK
    <3>3. QED
      BY <2>1, <3>1, <3>2 DEF Receive, TypeOK
  <2>2. ASSUME NEW c \in Conn, Accept(c) \/ Handle(c) PROVE Goal
    BY <2>2 DEF Accept, Handle, LookUpNewName, AppendUser, CheckNotLoggedIn,
       CheckPassword, AddLoggedInUser, SubmitScore, Leaderboard, WordList, Logout,
       Leave, At, Goto, Reply, TypeOK
  <2>3. ASSUME NEW c \in Conn, Finish(c) \/ Disconnect(c) PROVE Goal
    BY <2>3 DEF Finish, Send, SendInVain, EndOfStream, Cleanup, Leave, Disconnect,
       threads, At, Goto, TypeOK
  <2>4. ASSUME NEW how \in {"down", "killed"}, Die(how) PROVE Goal
    BY <2>4 DEF Die
  <2>5. ASSUME RequestShutdown \/ Start \/ UNCHANGED vars PROVE Goal
    BY <2>5 DEF RequestShutdown, Start, threads, vars
  <2>6. Goal
    BY <2>1, <2>2, <2>3, <2>4, <2>5 DEF Next, SigPipe, Exit, Crash
  <2>7. QED
    BY <1>1, <1>2, <2>6

-----------------------------------------------------------------------------
(* The theorems.                                                           *)

\* What every step of the server preserves.
ServerInvariant ==
  TypeOK /\ SessionInvariant /\ OnlyAccountsPlay /\ AcknowledgedIsStored

\* A server that has just been installed satisfies the invariant.
LEMMA InitInvariant == Init => ServerInvariant
<1> SUFFICES ASSUME Init PROVE ServerInvariant
  OBVIOUS
<1> USE DEF Init
<1>1. TypeOK
  <2>1. /\ proc \in {"up", "closing", "down", "killed"} /\ pc \in [Conn -> PCs]
        /\ cur \in [Conn -> User \cup {NoUser}] /\ req \in [Conn -> Request]
        /\ ok \in [Conn -> BOOLEAN] /\ peer \in [Conn -> Peers]
    BY DEF PCs, Peers, Request
  <2>2. slots \in [Slot -> User \cup {NoUser}]
    BY DEF EmptyTable
  <2>3. /\ users \in Seq(Account) /\ scores \in Seq(ScoreLine)
        /\ userTail \in Seq(Reading) /\ Len(userTail) <= 1
    OBVIOUS
  <2>4. scoreTail \in BOOLEAN
    BY Zenon
  <2>5. torn \in 0..MaxTorn
    BY BoundsAssumption
  <2> QED
    BY <2>1, <2>2, <2>3, <2>4, <2>5 DEF TypeOK
<1>2. \A c \in Conn : RequestShape(c) /\ ReplyShape(c) /\ StillOpen(c)
  BY DEF RequestShape, ReplyShape, StillOpen, Running
<1>3. ClientServerAgree
  BY DEF ClientServerAgree
<1>4. SlotsMatchSessions /\ SlotsTaken
  <2>1. \A u \in User : SlotsOf(u) = {} /\ Holders(u) = {}
    BY NamesAssumption DEF SlotsOf, Holders, EmptyTable, SessionOf, Holds
  <2>2. Slot \ SlotsOf(NoUser) = {} /\ Conn \ Holders(NoUser) = {}
    BY DEF SlotsOf, Holders, EmptyTable, SessionOf, Holds
  <2>3. QED
    BY <2>1, <2>2 DEF SlotsMatchSessions, SlotsTaken
<1>5. OnlyAccountsPlay
  BY DEF OnlyAccountsPlay, EmptyTable
<1>6. AcknowledgedIsStored
  <2>1. SpoiltUsers = {} /\ SpoiltScores = {}
    BY DEF SpoiltUsers, SpoiltScores
  <2>2. OneLinePerTear
    BY <2>1, FS_EmptySet DEF OneLinePerTear
  <2> QED
    BY <2>2 DEF AcknowledgedIsStored
<1>7. QED
  BY <1>1, <1>2, <1>3, <1>4, <1>5, <1>6 DEF ServerInvariant, SessionInvariant

\* Every step of the server keeps the invariant.
LEMMA StepInvariant == ServerInvariant /\ [Next]_vars => ServerInvariant'
<1> SUFFICES ASSUME ServerInvariant, [Next]_vars PROVE ServerInvariant'
  OBVIOUS
<1> USE DEF ServerInvariant, SessionInvariant
<1>1. TypeOK'
  BY TypeStep
<1>2. /\ (\A c \in Conn : RequestShape(c) /\ ReplyShape(c))'
      /\ ClientServerAgree'
  BY ShapeStep
<1>3. SlotsMatchSessions' /\ SlotsTaken'
  BY CountStep
<1>4. \A c \in Conn : StillOpen(c)'
  BY StillOpenStep DEF AcknowledgedIsStored
<1>5. OnlyAccountsPlay'
  BY AccountsStep DEF AcknowledgedIsStored
<1>6. AcknowledgedIsStored'
  BY AcknowledgedStep
<1>7. QED
  BY <1>1, <1>2, <1>3, <1>4, <1>5, <1>6

\* The invariant of the server (server_network.c, auth_manager.c): threads, table,
\* replies and files fit together in every reachable state, for any number of
\* connections and slots, any names, and files that any number of writes tore.
THEOREM ServerInvariantHolds == Spec => []ServerInvariant
<1>1. Init => ServerInvariant
  BY InitInvariant
<1>2. ServerInvariant /\ [Next]_vars => ServerInvariant'
  BY StepInvariant
<1>3. QED
  BY <1>1, <1>2, PTL DEF Spec

\* The inductive part about sessions, as the runs check it.
THEOREM SessionsFitTogether == Spec => [](TypeOK /\ SessionInvariant)
<1>1. ServerInvariant => TypeOK /\ SessionInvariant
  BY DEF ServerInvariant
<1>2. QED
  BY <1>1, ServerInvariantHolds, PTL

\* The steps of handle_client and of the files' functions keep every variable in
\* its range: threads, slots, requests and the lines of both files.
THEOREM TypeCorrect == Spec => []TypeOK
<1>1. ServerInvariant => TypeOK
  BY DEF ServerInvariant
<1>2. QED
  BY <1>1, ServerInvariantHolds, PTL

\* logged_in_users has as many slots of a name as there are threads logged in
\* under it, although slots are freed by name (server_network.c:102-131).
THEOREM TableIsAccurate == Spec => []SlotsMatchSessions
<1>1. ServerInvariant => SlotsMatchSessions
  BY DEF ServerInvariant, SessionInvariant
<1>2. QED
  BY <1>1, ServerInvariantHolds, PTL

\* Between two requests client and server agree on whether the client is logged
\* in (server_network.c:200-231, 268-286).
THEOREM AgreementHolds == Spec => []ClientServerAgree
<1>1. ServerInvariant => ClientServerAgree
  BY DEF ServerInvariant, SessionInvariant
<1>2. QED
  BY <1>1, ServerInvariantHolds, PTL

\* As long as no write broke off, sessions, slots and score lines bear registered
\* names only (auth_manager.c:63-99, server_network.c:233-249).
THEOREM OnlyRegisteredPlay == Spec => []OnlyAccountsPlay
<1>1. ServerInvariant => OnlyAccountsPlay
  BY DEF ServerInvariant
<1>2. QED
  BY <1>1, ServerInvariantHolds, PTL

\* Success is reported for a registration or a score only when its line was written
\* to its end (auth_manager.c:52-60, server_network.c:233-249), and of all lines
\* with their newline at most one for each write that broke off, the one glued to
\* its fragment, reads as something else (db_handler.c:184, 227).
THEOREM RepliesAreTrue == Spec => []AcknowledgedIsStored
<1>1. ServerInvariant => AcknowledgedIsStored
  BY DEF ServerInvariant
<1>2. QED
  BY <1>1, ServerInvariantHolds, PTL

\* find_user_in_file never changes its answer for a name once the line it reads it
\* from has its newline (db_handler.c:105-164), whatever races append behind it and
\* whatever breaks off later.
THEOREM AccountsStayStable == Spec => AccountsAreStable
<1>1. ServerInvariant /\ [Next]_vars =>
        [\A u \in User : Firm(u) => Firm(u)' /\ LineOf(u)' = LineOf(u)]_vars
  BY AccountsKept DEF ServerInvariant, SessionInvariant
<1>2. QED
  BY <1>1, ServerInvariantHolds, PTL DEF Spec, AccountsAreStable

-----------------------------------------------------------------------------
(* The server implements LoginService.                                     *)

\* What LoginService sees of the server.
TakenNames == {u \in User : Exists(u)}
FirmNames == {u \in User : Firm(u)}
OpenedBy == [u \in User |-> IF Exists(u) THEN {LineOf(u).pw} \ {NoHash} ELSE {}]
SessionsNow == [c \in Conn |-> SessionOf(c)]

\* A step that leaves the accounts file alone leaves the accounts alone.
LEMMA SameAccounts ==
  ASSUME UNCHANGED userFile
  PROVE  UNCHANGED <<TakenNames, FirmNames, OpenedBy>>
<1>1. \A i : Text(i)' = Text(i)
  BY DEF Text, userFile
<1>2. Texts' = Texts /\ users' = users
  BY DEF Texts, userFile
<1>3. \A u : LinesOf(u)' = LinesOf(u)
  BY <1>1, <1>2 DEF LinesOf, EndsRead
<1>4. \A u : (Exists(u)' <=> Exists(u)) /\ (Firm(u)' <=> Firm(u)) /\ LineOf(u)' = LineOf(u)
  BY <1>1, <1>2, <1>3 DEF Exists, Firm, LineOf
<1>5. QED
  BY <1>4 DEF TakenNames, FirmNames, OpenedBy

\* If it leaves every session alone too, and breaks nothing off, it is a stutter.
LEMMA Stutters ==
  ASSUME UNCHANGED userFile, torn' = torn, \A d \in Conn : SessionOf(d)' = SessionOf(d)
  PROVE  UNCHANGED Service!vars
BY SameAccounts DEF TakenNames, FirmNames, OpenedBy, Service!vars

\* Once a write broke off, whatever a step does to the files is damage, and leaves
\* the accounts alone that were read from lines with their newline.
LEMMA Damages ==
  ASSUME TypeOK, \A c \in Conn : RequestShape(c), [Next]_vars, torn' # 0,
         \A d \in Conn : SessionOf(d)' = SessionOf(d)
  PROVE  Service!Damage
<1>1. TypeOK'
  BY TypeStep
<1>2. ASSUME NEW u \in User, Exists(u)' PROVE LineOf(u).pw' \in Password \cup {NoHash}
  <2> DEFINE i == FirstOf(LinesOf(u)')
  <2>1. LinesOf(u)' \in SUBSET Nat /\ LinesOf(u)' # {}
    BY <1>2, FilesGrow DEF Exists, LinesOf, Texts
  <2>2. i \in LinesOf(u)'
    BY <2>1, FirstExists
  <2>3. i \in Texts'
    BY <2>2 DEF LinesOf
  <2>4. LineOf(u)' = IF i <= Len(users') THEN users'[i].reads ELSE userTail'[1]
    BY DEF LineOf, Text
  <2> HIDE DEF i
  <2>5. i \in 1..(Len(users') + Len(userTail'))
    BY <2>3 DEF Texts
  <2>6. users' \in Seq(Account) /\ userTail' \in Seq(Reading)
    BY <1>1 DEF TypeOK
  <2>7. CASE i <= Len(users')
    <3>1. users'[i] \in Account
      BY <2>5, <2>6, <2>7, FilesGrow
    <3>2. users'[i].reads \in Reading
      BY <3>1 DEF Account
    <3> QED
      BY <2>4, <2>7, <3>2 DEF Reading
  <2>8. CASE ~(i <= Len(users'))
    <3>1. 1 \in 1..Len(userTail')
      BY <2>5, <2>8, FilesGrow
    <3>2. userTail'[1] \in Reading
      BY <2>6, <3>1
    <3> QED
      BY <2>4, <2>8, <3>2 DEF Reading
  <2> QED
    BY <2>7, <2>8
<1>3. OpenedBy' \in [User -> Service!AtMostOne]
  <2>1. OpenedBy' = [u \in User |-> IF Exists(u)' THEN {LineOf(u).pw'} \ {NoHash} ELSE {}]
    BY DEF OpenedBy
  <2>2. ASSUME NEW u \in User, Exists(u)'
        PROVE  {LineOf(u).pw'} \ {NoHash} \in Service!AtMostOne
    <3>1. CASE LineOf(u).pw' = NoHash
      BY <3>1 DEF Service!AtMostOne
    <3>2. CASE LineOf(u).pw' # NoHash
      <4>1. LineOf(u).pw' \in Password
        BY <1>2, <2>2, <3>2
      <4>2. {LineOf(u).pw'} \ {NoHash} = {LineOf(u).pw'}
        BY <3>2
      <4> QED
        BY <4>1, <4>2 DEF Service!AtMostOne
    <3> QED
      BY <3>1, <3>2
  <2>3. {} \in Service!AtMostOne
    BY DEF Service!AtMostOne
  <2> QED
    BY <2>1, <2>2, <2>3
<1>4. TakenNames' \in SUBSET User /\ FirmNames' \in SUBSET TakenNames'
  BY DEF TakenNames, FirmNames, Firm, Exists
<1>5. ASSUME NEW u \in FirmNames PROVE u \in FirmNames' /\ OpenedBy'[u] = OpenedBy[u]
  <2>1. u \in User /\ Firm(u) /\ Exists(u)
    BY DEF FirmNames, Firm, Exists
  <2>2. Firm(u)' /\ Exists(u)' /\ LineOf(u)' = LineOf(u)
    BY <2>1, AccountsKept
  <2> QED
    BY <2>1, <2>2 DEF FirmNames, OpenedBy
<1>6. SessionsNow' = SessionsNow
  BY DEF SessionsNow
<1> QED
  BY <1>3, <1>4, <1>5, <1>6
     DEF Service!Damage, TakenNames, FirmNames, OpenedBy, SessionsNow

WholeReading ==
  \A u \in User : /\ LinesOf(u) = {i \in 1..Len(users) : users[i].reads.name = u}
                  /\ Exists(u) => Firm(u)

\* WholeLines, of the state that a step leads to.
LEMMA WholeReads == TypeOK /\ OneLinePerTear /\ torn = 0 => WholeReading
  BY WholeLines DEF WholeReading

LEMMA WholeReadsNext == TypeOK' /\ OneLinePerTear' /\ (torn = 0)' => WholeReading'
  BY WholeReads, PTL

\* As long as none broke off, a line creates the account of the name it is read as,
\* unless there is one: with its password, or with none if the name was cut.
LEMMA Creates ==
  ASSUME TypeOK, \A c \in Conn : RequestShape(c), OneLinePerTear, [Next]_vars,
         torn = 0, torn' = 0,
         NEW n \in User, NEW p \in Password,
         users' = Append(users, [name |-> n, pw |-> p, reads |-> ReadingOf(n, p)]),
         \A d \in Conn : SessionOf(d)' = SessionOf(d)
  PROVE  [Service!Next]_Service!vars
<1> DEFINE m == ReadAs[n]
           line == [name |-> n, pw |-> p, reads |-> ReadingOf(n, p)]
<1>1. m \in User \cup {NoUser} /\ line.reads = ReadingOf(n, p) /\ line.reads.name = m
  BY NamesAssumption DEF ReadingOf
<1>2. users' = Append(users, line)
  OBVIOUS
<1> HIDE DEF line
<1>3. /\ Len(users') = Len(users) + 1 /\ Len(users) \in Nat
      /\ users'[Len(users) + 1] = line
      /\ \A i \in 1..Len(users) : users'[i] = users[i]
  BY <1>2 DEF TypeOK
<1>4. TypeOK' /\ OneLinePerTear'
  BY TypeStep, TearStep
<1>5. ASSUME NEW u \in User
      PROVE  /\ LinesOf(u) = {i \in 1..Len(users) : users[i].reads.name = u}
             /\ LinesOf(u)' = {i \in 1..Len(users') : users'[i].reads.name = u}
             /\ Exists(u) <=> Firm(u)
             /\ Exists(u)' <=> Firm(u)'
  <2>1. /\ LinesOf(u) = {i \in 1..Len(users) : users[i].reads.name = u}
        /\ Exists(u) => Firm(u)
    BY WholeLines
  <2>2. /\ LinesOf(u)' = {i \in 1..Len(users') : users'[i].reads.name = u}
        /\ Exists(u)' => Firm(u)'
    BY <1>4, WholeReadsNext DEF WholeReading
  <2> QED
    BY <2>1, <2>2 DEF Exists, Firm
<1>6. ASSUME NEW u \in User, Exists(u) \/ u # m
      PROVE  /\ Exists(u)' <=> Exists(u)
             /\ Exists(u) => LineOf(u)' = LineOf(u)
  <2>1. CASE Exists(u)
    BY <1>5, <2>1, AccountsKept
  <2>2. CASE ~Exists(u) /\ u # m
    BY <1>1, <1>3, <1>5, <2>2 DEF Exists
  <2>3. QED
    BY <1>6, <2>1, <2>2
<1>7. SessionsNow' = SessionsNow
  BY DEF SessionsNow
<1>8. CASE m = NoUser \/ Exists(m)
  <2>1. \A u \in User : Exists(u) \/ u # m
    BY <1>8, NamesAssumption
  <2>2. TakenNames' = TakenNames /\ FirmNames' = FirmNames /\ OpenedBy' = OpenedBy
    BY <1>5, <1>6, <2>1 DEF TakenNames, FirmNames, OpenedBy
  <2>3. QED
    BY <1>7, <2>2 DEF Service!vars, TakenNames, FirmNames, OpenedBy, SessionsNow
<1>9. CASE m \in User /\ ~Exists(m)
  <2> DEFINE P == {ReadingOf(n, p).pw} \ {NoHash}
  <2>1. LinesOf(m)' = {Len(users) + 1}
    BY <1>1, <1>3, <1>5, <1>9 DEF Exists
  <2>2. FirstOf({Len(users) + 1}) = Len(users) + 1
    BY <1>3, FirstExists
  <2>3. Exists(m)' /\ LineOf(m)' = ReadingOf(n, p)
    BY <1>1, <1>3, <2>1, <2>2 DEF Exists, LineOf, Text
  <2>4. P \in Service!AtMostOne
    BY NamesAssumption DEF ReadingOf, Service!AtMostOne
  <2>5. TakenNames' = TakenNames \cup {m} /\ FirmNames' = FirmNames \cup {m}
    BY <1>5, <1>6, <1>9, <2>3 DEF TakenNames, FirmNames
  <2>6. OpenedBy' = [OpenedBy EXCEPT ![m] = P]
    BY <1>6, <1>9, <2>3 DEF OpenedBy
  <2>7. m \in User \ TakenNames
    BY <1>9 DEF TakenNames
  <2> HIDE DEF P
  <2>8. Service!CreateAccount(m)
    BY <1>7, <2>4, <2>5, <2>6
       DEF Service!CreateAccount, TakenNames, FirmNames, OpenedBy, SessionsNow
  <2>9. QED
    BY <2>7, <2>8 DEF Service!Next, TakenNames
<1>10. QED
  BY <1>1, <1>8, <1>9

\* The end of a session, however it ends.
LEMMA SessionEnds ==
  ASSUME UNCHANGED userFile, torn' = torn,
         NEW c \in Conn, SessionOf(c) # NoUser, SessionOf(c)' = NoUser,
         \A d \in Conn \ {c} : SessionOf(d)' = SessionOf(d)
  PROVE  Service!Next
<1>1. SessionsNow' = [SessionsNow EXCEPT ![c] = NoUser]
  BY DEF SessionsNow, SessionOf, Holds
<1>2. Service!LogOut(c)
  BY <1>1, SameAccounts
     DEF Service!LogOut, TakenNames, FirmNames, OpenedBy, SessionsNow
<1>3. QED
  BY <1>2 DEF Service!Next

\* A session begins only with the password of its account, unless a write broke
\* off, and with a free slot: there are as many slots taken as sessions.
LEMMA SessionBegins ==
  ASSUME TypeOK, SlotsTaken, UNCHANGED userFile, torn' = torn, ~TableFull,
         NEW c \in Conn, NEW u \in User, NEW p \in Password,
         torn = 0 => Authenticates(u, p),
         SessionOf(c) = NoUser, SessionOf(c)' = u,
         \A d \in Conn \ {c} : SessionOf(d)' = SessionOf(d)
  PROVE  Service!Next
<1>1. SessionsNow' = [SessionsNow EXCEPT ![c] = u]
  BY DEF SessionsNow, SessionOf, Holds
<1>2. torn = 0 => u \in TakenNames /\ p \in OpenedBy[u]
  BY NamesAssumption DEF TakenNames, OpenedBy, Authenticates
<1>3. Service!Sessions = Conn \ Holders(NoUser)
  BY DEF Service!Sessions, Holders
<1>4. Cardinality(Slot \ SlotsOf(NoUser)) < MaxSlots
  <2>1. IsFiniteSet(Slot) /\ Cardinality(Slot) = MaxSlots
    BY BoundsAssumption, FS_Interval DEF Slot
  <2>2. Slot \ SlotsOf(NoUser) \in SUBSET Slot /\ Slot \ SlotsOf(NoUser) # Slot
    BY DEF TableFull, SlotsOf
  <2>3. /\ Cardinality(Slot \ SlotsOf(NoUser)) <= Cardinality(Slot)
        /\ Cardinality(Slot \ SlotsOf(NoUser)) # Cardinality(Slot)
    BY <2>1, <2>2, FS_Subset
  <2>4. Cardinality(Slot \ SlotsOf(NoUser)) \in Nat
    BY Countable
  <2>5. QED
    BY <2>1, <2>3, <2>4, BoundsAssumption
<1>5. Cardinality(Service!Sessions) < MaxSlots
  BY <1>3, <1>4 DEF SlotsTaken
<1>6. SessionsNow[c] = NoUser
  BY DEF SessionsNow
<1>7. UNCHANGED <<TakenNames, FirmNames, OpenedBy>>
  BY SameAccounts
<1>8. Service!Cardinality(Service!Sessions) = Cardinality(Service!Sessions)
  BY DEF Cardinality, Service!Cardinality
<1>9. Service!LogIn(c, u, p)
  BY <1>1, <1>2, <1>5, <1>6, <1>7, <1>8
     DEF Service!LogIn, TakenNames, FirmNames, OpenedBy, SessionsNow
<1>10. QED
  BY <1>9 DEF Service!Next

\* Every step of the server is a step of LoginService or a stutter.
LEMMA ServiceStep ==
  ASSUME ServerInvariant, [Next]_vars
  PROVE  [Service!Next]_Service!vars
<1> DEFINE Step1 == [Service!Next]_Service!vars
           Kept == UNCHANGED userFile /\ torn' = torn
<1> USE DEF ServerInvariant, SessionInvariant, TypeOK, SessionOf, Holds
<1>1. ASSUME NEW c \in Conn, Accept(c) PROVE Step1
  <2>1. Kept /\ \A d \in Conn : SessionOf(d)' = SessionOf(d)
    BY <1>1 DEF Accept, RequestShape, files
  <2>2. QED
    BY <2>1, Stutters
<1>2. ASSUME NEW c \in Conn, LookUpNewName(c) PROVE Step1
  <2>1. Kept /\ \A d \in Conn : SessionOf(d)' = SessionOf(d)
    BY <1>2 DEF LookUpNewName, Goto, Reply, At, files
  <2>2. QED
    BY <2>1, Stutters
<1>3. ASSUME NEW c \in Conn, CheckNotLoggedIn(c) PROVE Step1
  <2>1. Kept /\ \A d \in Conn : SessionOf(d)' = SessionOf(d)
    BY <1>3 DEF CheckNotLoggedIn, Goto, Reply, At, files
  <2>2. QED
    BY <2>1, Stutters
<1>4. ASSUME NEW c \in Conn, CheckPassword(c) PROVE Step1
  <2>1. Kept /\ \A d \in Conn : SessionOf(d)' = SessionOf(d)
    BY <1>4 DEF CheckPassword, Goto, Reply, At, RequestShape, files
  <2>2. QED
    BY <2>1, Stutters
<1>5. ASSUME NEW c \in Conn, SubmitScore(c) PROVE Step1
  <2>1. UNCHANGED userFile /\ \A d \in Conn : SessionOf(d)' = SessionOf(d)
    BY <1>5 DEF SubmitScore, Reply, At
  <2>2. CASE torn' = torn
    BY <2>1, <2>2, Stutters
  <2>3. CASE torn' # torn
    <3>1. torn' # 0
      BY <2>3, FilesGrow
    <3>2. Service!Damage
      BY <2>1, <3>1, Damages
    <3> QED
      BY <3>2 DEF Service!Next
  <2> QED
    BY <2>2, <2>3
<1>6. ASSUME NEW c \in Conn, Leaderboard(c) PROVE Step1
  <2>1. Kept /\ \A d \in Conn : SessionOf(d)' = SessionOf(d)
    BY <1>6 DEF Leaderboard, Reply, At, files
  <2>2. QED
    BY <2>1, Stutters
<1>7. ASSUME NEW c \in Conn, WordList(c) PROVE Step1
  <2>1. Kept /\ \A d \in Conn : SessionOf(d)' = SessionOf(d)
    BY <1>7 DEF WordList, Reply, At, files
  <2>2. QED
    BY <2>1, Stutters
<1>8. ASSUME NEW c \in Conn, Send(c) PROVE Step1
  <2>1. Kept /\ \A d \in Conn : SessionOf(d)' = SessionOf(d)
    BY <1>8 DEF Send, Goto, At, files
  <2>2. QED
    BY <2>1, Stutters
<1>9. ASSUME NEW c \in Conn, SendInVain(c) PROVE Step1
  <2>1. Kept /\ \A d \in Conn : SessionOf(d)' = SessionOf(d)
    BY <1>9 DEF SendInVain, Goto, At, files
  <2>2. QED
    BY <2>1, Stutters
<1>10. ASSUME NEW c \in Conn, EndOfStream(c) PROVE Step1
  <2>1. Kept /\ \A d \in Conn : SessionOf(d)' = SessionOf(d)
    BY <1>10 DEF EndOfStream, Goto, At, files
  <2>2. QED
    BY <2>1, Stutters
<1>11. ASSUME NEW c \in Conn, Disconnect(c) PROVE Step1
  <2>1. Kept /\ \A d \in Conn : SessionOf(d)' = SessionOf(d)
    BY <1>11 DEF Disconnect, threads, files
  <2>2. QED
    BY <2>1, Stutters
<1>12. ASSUME NEW c \in Conn, Receive(c) PROVE Step1
  <2>1. PICK m \in Askable(peer[c]) : pc' = [pc EXCEPT ![c] = m.type]
    BY <1>12 DEF Receive, Goto
  <2>2. m.type # "add_slot"
    BY <2>1, AskedRequests
  <2>3. Kept /\ \A d \in Conn : SessionOf(d)' = SessionOf(d)
    BY <1>12, <2>1, <2>2 DEF Receive, At, files
  <2>4. QED
    BY <2>3, Stutters
<1>13. ASSUME NEW c \in Conn, AppendUser(c) PROVE Step1
  <2> DEFINE u == req[c].user
             p == req[c].pw
  <2>1. \A d \in Conn : SessionOf(d)' = SessionOf(d)
    BY <1>13 DEF AppendUser, Reply, At
  <2>2. CASE torn' # 0
    <3>1. Service!Damage
      BY <2>1, <2>2, Damages
    <3> QED
      BY <3>1 DEF Service!Next
  <2>3. CASE torn' = 0
    <3>1. torn = 0
      BY <2>3, FilesGrow
    <3>2. userTail = << >>
      BY <3>1, WholeFile DEF AcknowledgedIsStored
    <3>3. Behind(u, p) = {ReadingOf(u, p)}
      BY <3>2 DEF Behind
    <3>4. /\ u \in User /\ p \in Password
          /\ \/ users' = Append(users, [name |-> u, pw |-> p, reads |-> ReadingOf(u, p)])
             \/ UNCHANGED userFile
      <4>1. \A r \in Behind(u, p) : r = ReadingOf(u, p)
        BY <3>3
      <4>2. torn' # torn + 1
        BY <2>3, <3>1
      <4> HIDE DEF u, p
      <4> QED
        BY <1>13, <4>1, <4>2, UserWritten, Zenon DEF u, p
    <3>5. CASE UNCHANGED userFile
      BY <2>1, <2>3, <3>1, <3>5, Stutters
    <3>6. CASE users' = Append(users, [name |-> u, pw |-> p, reads |-> ReadingOf(u, p)])
      BY <2>1, <2>3, <3>1, <3>4, <3>6, Creates DEF AcknowledgedIsStored
    <3> QED
      BY <3>4, <3>5, <3>6
  <2> QED
    BY <2>2, <2>3
<1>14. ASSUME NEW c \in Conn, AddLoggedInUser(c) PROVE Step1
  <2>1. SessionOf(c) = NoUser /\ cur[c] \in User /\ Kept
    BY <1>14 DEF AddLoggedInUser, At, RequestShape, files
  <2>2. \A d \in Conn \ {c} : SessionOf(d)' = SessionOf(d)
    BY <1>14 DEF AddLoggedInUser, Reply
  <2>3. CASE TableFull
    <3>1. SessionOf(c)' = NoUser
      BY <1>14, <2>3 DEF AddLoggedInUser, Reply, Refused
    <3>2. QED
      BY <2>1, <2>2, <3>1, Stutters
  <2>4. CASE ~TableFull
    <3>1. SessionOf(c)' = cur[c]
      BY <1>14, <2>1, <2>4, NamesAssumption DEF AddLoggedInUser, Reply
    <3>2. req[c].pw \in Password /\ (torn = 0 => Authenticates(cur[c], req[c].pw))
      BY <1>14, RequestFields DEF AddLoggedInUser, At, RequestShape, StillOpen
    <3>3. QED
      BY <2>1, <2>2, <2>4, <3>1, <3>2, SessionBegins
  <2>5. QED
    BY <2>3, <2>4
<1>15. ASSUME NEW c \in Conn, Logout(c) PROVE Step1
  <2>1. SessionOf(c)' = NoUser /\ Kept
    BY <1>15 DEF Logout, Leave, Reply, At, files
  <2>2. \A d \in Conn \ {c} : SessionOf(d)' = SessionOf(d)
    BY <1>15 DEF Logout, Leave, Reply, At, files
  <2>3. QED
    BY <2>1, <2>2, SessionEnds, Stutters
<1>16. ASSUME NEW c \in Conn, Cleanup(c) PROVE Step1
  <2>1. SessionOf(c)' = NoUser /\ Kept
    BY <1>16 DEF Cleanup, Leave, Goto, At, files
  <2>2. \A d \in Conn \ {c} : SessionOf(d)' = SessionOf(d)
    BY <1>16 DEF Cleanup, Leave, Goto, At, files
  <2>3. QED
    BY <2>1, <2>2, SessionEnds, Stutters
<1>17. ASSUME NEW how \in {"down", "killed"}, Die(how) PROVE Step1
  <2>1. Kept /\ SessionsNow' = [c \in Conn |-> NoUser]
    BY <1>17 DEF Die, files, SessionsNow
  <2>2. Service!LoseSessions
    BY <2>1, SameAccounts
       DEF Service!LoseSessions, TakenNames, FirmNames, OpenedBy, SessionsNow
  <2>3. QED
    BY <2>2 DEF Service!Next
<1>18. ASSUME RequestShutdown \/ Start \/ UNCHANGED vars PROVE Step1
  BY <1>18, Stutters DEF RequestShutdown, Start, threads, files, vars
<1>19. QED
  BY <1>1, <1>2, <1>3, <1>4, <1>5, <1>6, <1>7, <1>8, <1>9, <1>10, <1>11, <1>12,
     <1>13, <1>14, <1>15, <1>16, <1>17, <1>18
     DEF Next, Handle, Finish, SigPipe, Exit, Crash

\* The server implements LoginService: behind its threads, its table and racing
\* registrations are accounts that keep their password and sessions that were
\* opened with it, at most one per slot (server_network.c, auth_manager.c); once a
\* write broke off (db_handler.c:184, 227) the accounts that have their newline
\* still keep it.
THEOREM ServerImplementsService == Spec => ImplementsLoginService
<1>1. Init => Service!Init
  <2>1. ASSUME Init PROVE \A u : LinesOf(u) = {}
    BY <2>1 DEF Init, LinesOf, Texts
  <2> QED
    BY <2>1, Zenon DEF Init, Service!Init, Exists, Firm, SessionOf, Holds
<1>2. ServerInvariant /\ [Next]_vars => [Service!Next]_Service!vars
  BY ServiceStep
<1>3. QED
  BY <1>1, <1>2, ServerInvariantHolds, PTL DEF Spec, Service!Spec, ImplementsLoginService

-----------------------------------------------------------------------------
(* The protocol of the clients.                                            *)

\* A thread has a request from the moment it is received until it is answered.
Pending ==
  \A c \in Conn :
    /\ pc[c] \in {"closed", "recv", "cleanup"} => req[c] = NoRequest
    /\ pc[c] \notin {"closed", "recv", "cleanup"} => req[c].type # "none"

PhaseNow == [c \in Conn |-> IF Linked(c) THEN peer[c] ELSE "closed"]
AskedNow == [c \in Conn |-> IF Linked(c) THEN req[c].type ELSE "none"]

LEMMA NoRequestType == NoRequest.type = "none"
  BY DEF NoRequest

\* A step that leaves one thread in the middle of a request, or between two, as
\* it was, and does not touch the others.
LEMMA PendingKept ==
  ASSUME TypeOK, Pending, NEW c \in Conn, req' = req,
         \A d \in Conn \ {c} : pc'[d] = pc[d],
         pc'[c] \in {"closed", "recv", "cleanup"} <=> pc[c] \in {"closed", "recv", "cleanup"}
  PROVE  Pending'
<1> SUFFICES ASSUME NEW d \in Conn
             PROVE  /\ pc'[d] \in {"closed", "recv", "cleanup"} => req'[d] = NoRequest
                    /\ pc'[d] \notin {"closed", "recv", "cleanup"} => req'[d].type # "none"
  BY DEF Pending
<1>1. CASE d = c
  BY <1>1 DEF Pending
<1>2. CASE d # c
  BY <1>2 DEF Pending
<1> QED
  BY <1>1, <1>2

LEMMA PendingStep ==
  ASSUME TypeOK, Pending, [Next]_vars
  PROVE  Pending'
<1> USE DEF TypeOK
<1>1. ASSUME NEW c \in Conn, Accept(c) PROVE Pending'
  BY <1>1, PendingKept DEF Accept
<1>2. ASSUME NEW c \in Conn, Receive(c) PROVE Pending'
  <2>1. PICK m \in Askable(peer[c]) :
          req' = [req EXCEPT ![c] = m] /\ pc' = [pc EXCEPT ![c] = m.type]
    BY <1>2 DEF Receive, Goto
  <2>2. m.type # "none" /\ m.type \notin {"closed", "recv", "cleanup"}
    BY <2>1, AskedRequests
  <2> QED
    BY <2>1, <2>2 DEF Pending
<1>3. ASSUME NEW c \in Conn, Handle(c) PROVE Pending'
  <2>1. /\ req' = req
        /\ pc[c] \notin {"closed", "recv", "cleanup"}
        /\ \E step \in {"append", "find", "add_slot", "send"} : pc' = [pc EXCEPT ![c] = step]
    BY <1>3 DEF Handle, LookUpNewName, AppendUser, CheckNotLoggedIn, CheckPassword,
       AddLoggedInUser, SubmitScore, Leaderboard, WordList, Logout, At, Goto, Reply
  <2> QED
    BY <2>1, PendingKept
<1>4. ASSUME NEW c \in Conn, Send(c) \/ SendInVain(c) PROVE Pending'
  <2>1. /\ req' = [req EXCEPT ![c] = NoRequest]
        /\ \E step \in {"recv", "cleanup"} : pc' = [pc EXCEPT ![c] = step]
    BY <1>4 DEF Send, SendInVain, Goto
  <2> QED
    BY <2>1 DEF Pending
<1>5. ASSUME NEW c \in Conn, EndOfStream(c) \/ Cleanup(c) PROVE Pending'
  BY <1>5, PendingKept DEF EndOfStream, Cleanup, At, Goto
<1>6. ASSUME NEW how \in {"down", "killed"}, Die(how) PROVE Pending'
  BY <1>6 DEF Die, Pending
<1>7. ASSUME pc' = pc, req' = req PROVE Pending'
  BY <1>7 DEF Pending
<1> QED
  BY <1>1, <1>2, <1>3, <1>4, <1>5, <1>6, <1>7
     DEF Next, Finish, Disconnect, SigPipe, RequestShutdown, Exit, Crash, Start, threads, vars

\* Every step of the server is a step of the protocol, or none of its business.
LEMMA PeerStep ==
  ASSUME ServerInvariant, Pending, [Next]_vars
  PROVE  [Peer!Next]_<<PhaseNow, AskedNow>>
<1> USE DEF TypeOK, ServerInvariant
<1> DEFINE Goal == [Peer!Next]_<<PhaseNow, AskedNow>>
<1>1. ASSUME peer' = peer, req' = req PROVE Goal
  BY <1>1 DEF PhaseNow, AskedNow, Linked
<1>2. ASSUME NEW c \in Conn, Accept(c) PROVE Goal
  <2>1. req[c].type = "none" /\ req' = req /\ peer' = [peer EXCEPT ![c] = "auth"]
    BY <1>2, NoRequestType DEF Accept, Pending
  <2>2. AskedNow' = AskedNow
    BY <2>1 DEF AskedNow, Linked
  <2>3. PhaseNow' = [PhaseNow EXCEPT ![c] = "auth"]
    BY <2>1 DEF PhaseNow, Linked
  <2>4. PhaseNow[c] = "closed"
    BY <1>2 DEF Accept, PhaseNow, Linked, SessionInvariant, RequestShape
  <2>5. Peer!Connect(c)
    BY <2>2, <2>3, <2>4 DEF Peer!Connect, PhaseNow, AskedNow
  <2> QED
    BY <2>5 DEF Peer!Next
<1>3. ASSUME NEW c \in Conn, Receive(c) PROVE Goal
  <2>1. PICK m \in Askable(peer[c]) : req' = [req EXCEPT ![c] = m] /\ peer' = peer
    BY <1>3 DEF Receive
  <2>2. \/ m.type \in {"register", "login"} /\ peer[c] = "auth"
        \/ /\ m.type \in {"score", "leaderboard", "wordlist", "logout"}
           /\ peer[c] = "menu"
    BY <2>1, AskedRequests
  <2>3. PhaseNow' = PhaseNow /\ PhaseNow[c] = peer[c]
    BY <2>1, <2>2 DEF PhaseNow, Linked
  <2>4. AskedNow' = [AskedNow EXCEPT ![c] = m.type]
    BY <2>1, <2>2 DEF AskedNow, Linked
  <2>5. AskedNow[c] = "none"
    BY <1>3, NoRequestType DEF Receive, At, Pending, AskedNow
  <2>6. Peer!Ask(c, m.type)
    BY <2>2, <2>3, <2>4, <2>5 DEF Peer!Ask, Peer!Askable, PhaseNow, AskedNow
  <2> QED
    BY <2>2, <2>6 DEF Peer!Next, Peer!Askable
<1>4. ASSUME NEW c \in Conn, Handle(c) PROVE Goal
  BY <1>1, <1>4 DEF Handle, LookUpNewName, AppendUser, CheckNotLoggedIn, CheckPassword,
     AddLoggedInUser, SubmitScore, Leaderboard, WordList, Logout
<1>5. ASSUME NEW c \in Conn, Send(c) PROVE Goal
  <2>1. /\ req' = [req EXCEPT ![c] = NoRequest]
        /\ peer' = [peer EXCEPT ![c] = PhaseAfter(peer[c], req[c].type, ok[c])]
        /\ req[c].type # "none" /\ peer[c] \notin {"none", "gone"}
    BY <1>5 DEF Send, At, Pending, SessionInvariant, RequestShape
  <2>2. /\ AskedNow[c] = req[c].type /\ AskedNow[c] # "none"
        /\ PhaseNow[c] = peer[c]
    BY <2>1 DEF AskedNow, PhaseNow, Linked
  <2>3. PhaseAfter(peer[c], req[c].type, ok[c]) \notin {"none", "gone"}
    BY <2>1 DEF PhaseAfter
  <2>4. PhaseNow' = [PhaseNow EXCEPT ![c] = PhaseAfter(peer[c], req[c].type, ok[c])]
    BY <2>1, <2>3 DEF PhaseNow, Linked
  <2>5. AskedNow' = [AskedNow EXCEPT ![c] = "none"]
    BY <2>1, <2>3, NoRequestType DEF AskedNow, Linked
  <2>6. \/ PhaseNow' = PhaseNow
        \/ AskedNow[c] = "login" /\ PhaseNow' = [PhaseNow EXCEPT ![c] = "menu"]
        \/ AskedNow[c] = "logout" /\ PhaseNow' = [PhaseNow EXCEPT ![c] = "bye"]
    <3>1. PhaseNow = [PhaseNow EXCEPT ![c] = peer[c]]
      BY <2>2 DEF PhaseNow
    <3> QED
      BY <2>2, <2>4, <3>1 DEF PhaseAfter
  <2>7. Peer!Answer(c)
    BY <2>2, <2>5, <2>6 DEF Peer!Answer, PhaseNow, AskedNow
  <2> QED
    BY <2>7 DEF Peer!Next
<1>6. ASSUME NEW c \in Conn, SendInVain(c) PROVE Goal
  <2>1. /\ req' = [req EXCEPT ![c] = NoRequest] /\ peer' = peer /\ ~Linked(c)
    BY <1>6 DEF SendInVain, Linked
  <2> QED
    BY <2>1 DEF PhaseNow, AskedNow, Linked
<1>7. ASSUME NEW c \in Conn, EndOfStream(c) PROVE Goal
  BY <1>1, <1>7 DEF EndOfStream
<1>8. ASSUME NEW c \in Conn, req' = req,
             \E end \in {"none", "gone"} : peer' = [peer EXCEPT ![c] = end]
      PROVE  Goal
  <2>1. /\ PhaseNow' = [PhaseNow EXCEPT ![c] = "closed"]
        /\ AskedNow' = [AskedNow EXCEPT ![c] = "none"]
    BY <1>8 DEF PhaseNow, AskedNow, Linked
  <2>2. CASE PhaseNow[c] = "closed"
    <3>1. ~Linked(c)
      BY <2>2 DEF PhaseNow, Peers, Linked
    <3>2. PhaseNow' = PhaseNow /\ AskedNow' = AskedNow
      BY <1>8, <3>1 DEF PhaseNow, AskedNow, Linked
    <3> QED
      BY <3>2
  <2>3. CASE PhaseNow[c] # "closed"
    <3>1. Peer!Close(c)
      BY <2>1, <2>3 DEF Peer!Close, PhaseNow, AskedNow
    <3> QED
      BY <3>1 DEF Peer!Next
  <2> QED
    BY <2>2, <2>3
<1>9. ASSUME NEW c \in Conn, Cleanup(c) PROVE Goal
  BY <1>8, <1>9 DEF Cleanup
<1>10. ASSUME NEW c \in Conn, Disconnect(c) PROVE Goal
  BY <1>8, <1>10 DEF Disconnect, threads
<1>11. ASSUME NEW how \in {"down", "killed"}, Die(how) PROVE Goal
  <2>1. Peer!CloseAll
    BY <1>11 DEF Die, Peer!CloseAll, Linked
  <2> QED
    BY <2>1 DEF Peer!Next
<1>12. ASSUME RequestShutdown \/ Start \/ UNCHANGED vars PROVE Goal
  BY <1>1, <1>12 DEF RequestShutdown, Start, threads, vars
<1> QED
  BY <1>2, <1>3, <1>4, <1>5, <1>6, <1>7, <1>9, <1>10, <1>11, <1>12
     DEF Next, Finish, SigPipe, Exit, Crash

\* The clients that ServerSessions assumes are clients of PeerProtocol, which
\* ClientApp implements: every request is answered once, on its own connection.
THEOREM ServerKeepsProtocol == Spec => ClientsKeepProtocol
<1>1. Init => Peer!Init
  BY DEF Init, Peer!Init, Linked
<1>2. Init => Pending
  BY DEF Init, Pending
<1>3. ServerInvariant /\ Pending /\ [Next]_vars => Pending'
  BY PendingStep DEF ServerInvariant
<1>4. ServerInvariant /\ Pending /\ [Next]_vars => [Peer!Next]_Peer!vars
  BY PeerStep DEF Peer!vars, PhaseNow, AskedNow
<1> QED
  BY <1>1, <1>2, <1>3, <1>4, ServerInvariantHolds, PTL
     DEF Spec, Peer!Spec, ClientsKeepProtocol

-----------------------------------------------------------------------------
(* The safety half of EveryRequestAnswered and GoneClientIsReleased.       *)

\* How many critical sections and calls are at most ahead of a thread, from a step
\* of handle_client to the end of the connection, if no request comes any more.
StepsFrom(step) ==
  IF step = "login" THEN 6 ELSE IF step \in {"register", "find"} THEN 5
  ELSE IF step \in {"append", "add_slot", "score", "leaderboard", "wordlist", "logout"} THEN 4
  ELSE IF step = "send" THEN 3 ELSE IF step = "recv" THEN 2
  ELSE IF step = "cleanup" THEN 1 ELSE 0

ToGo(c) == StepsFrom(pc[c])

\* A thread's own steps bring it nearer to its reply and to the end of its
\* connection; nothing but a new connection or a new request of a client that is
\* still there makes its way longer.
Forward(c) ==
  /\ Handle(c) \/ Finish(c) => ToGo(c)' < ToGo(c)
  /\ ToGo(c)' > ToGo(c) => pc[c] \in {"closed", "recv"} /\ peer[c] # "gone"

\* Where a step of a thread leads it.
LEMMA OwnStep ==
  ASSUME TypeOK, NEW c \in Conn, Handle(c) \/ Finish(c)
  PROVE  /\ \A d \in Conn \ {c} : pc'[d] = pc[d]
         /\ ToGo(c)' < ToGo(c)
<1> USE DEF TypeOK
<1>1. ASSUME NEW step, Goto(c, step) \/ (\E s : Reply(c, s) /\ step = "send")
      PROVE  (\A d \in Conn \ {c} : pc'[d] = pc[d]) /\ pc'[c] = step
  BY <1>1 DEF Goto, Reply
<1>2. ASSUME NEW s, Reply(c, s)
      PROVE  (\A d \in Conn \ {c} : pc'[d] = pc[d]) /\ pc'[c] = "send"
  BY <1>2 DEF Reply
<1> DEFINE Others == \A d \in Conn \ {c} : pc'[d] = pc[d]
<1>3. CASE LookUpNewName(c)
  <2>1. pc[c] = "register" /\ Others /\ pc'[c] \in {"send", "append"}
    BY <1>1, <1>2, <1>3 DEF LookUpNewName, At
  <2> QED
    BY <2>1 DEF ToGo, StepsFrom
<1>4. CASE AppendUser(c) \/ SubmitScore(c) \/ Leaderboard(c) \/ WordList(c) \/ Logout(c)
  <2>1. /\ pc[c] \in {"append", "score", "leaderboard", "wordlist", "logout"}
        /\ \E s : Reply(c, s)
    BY <1>4 DEF AppendUser, SubmitScore, Leaderboard, WordList, Logout, At
  <2>2. Others /\ pc'[c] = "send"
    BY <1>2, <2>1
  <2> QED
    BY <2>1, <2>2 DEF ToGo, StepsFrom
<1>5. CASE CheckNotLoggedIn(c)
  <2>1. pc[c] = "login" /\ Others /\ pc'[c] \in {"send", "find"}
    BY <1>1, <1>2, <1>5 DEF CheckNotLoggedIn, At
  <2> QED
    BY <2>1 DEF ToGo, StepsFrom
<1>6. CASE CheckPassword(c)
  <2>1. pc[c] = "find" /\ Others /\ pc'[c] \in {"send", "add_slot"}
    BY <1>1, <1>2, <1>6 DEF CheckPassword, At
  <2> QED
    BY <2>1 DEF ToGo, StepsFrom
<1>7. CASE AddLoggedInUser(c)
  <2>1. pc[c] = "add_slot" /\ \E s : Reply(c, s)
    BY <1>7 DEF AddLoggedInUser, At
  <2>2. Others /\ pc'[c] = "send"
    BY <1>2, <2>1
  <2> QED
    BY <2>1, <2>2 DEF ToGo, StepsFrom
<1>8. CASE Send(c) \/ SendInVain(c)
  <2>1. pc[c] = "send" /\ Others /\ pc'[c] \in {"recv", "cleanup"}
    BY <1>1, <1>8 DEF Send, SendInVain, At
  <2> QED
    BY <2>1 DEF ToGo, StepsFrom
<1>9. CASE EndOfStream(c)
  <2>1. pc[c] = "recv" /\ Others /\ pc'[c] = "cleanup"
    BY <1>1, <1>9 DEF EndOfStream, At
  <2> QED
    BY <2>1 DEF ToGo, StepsFrom
<1>10. CASE Cleanup(c)
  <2>1. pc[c] = "cleanup" /\ Others /\ pc'[c] = "closed"
    BY <1>1, <1>10 DEF Cleanup, At
  <2> QED
    BY <2>1 DEF ToGo, StepsFrom
<1> QED
  BY <1>3, <1>4, <1>5, <1>6, <1>7, <1>8, <1>9, <1>10 DEF Handle, Finish

LEMMA ForwardStep ==
  ASSUME TypeOK, SessionInvariant, [Next]_vars, NEW c \in Conn
  PROVE  Forward(c)
<1> DEFINE Longer == ToGo(c)' > ToGo(c)
<1>1. /\ ToGo(c) \in 0..6 /\ ToGo(c)' \in 0..6
      /\ pc'[c] = pc[c] => ToGo(c)' = ToGo(c)
      /\ pc'[c] = "closed" => ToGo(c)' = 0
  BY DEF ToGo, StepsFrom
<1>2. Handle(c) \/ Finish(c) => ToGo(c)' < ToGo(c)
  BY OwnStep
<1>3. ASSUME Longer PROVE pc[c] \in {"closed", "recv"} /\ peer[c] # "gone"
  <2>1. pc'[c] # pc[c] /\ pc'[c] # "closed"
    BY <1>1, <1>3
  <2>2. ~(Handle(c) \/ Finish(c))
    BY <1>1, <1>2, <1>3
  <2>3. \A d \in Conn : ~(Handle(d) \/ Finish(d))
    BY <2>1, <2>2, OwnStep
  <2>4. ~RequestShutdown /\ ~Start /\ ~UNCHANGED vars /\ \A d \in Conn : ~Disconnect(d)
    BY <2>1 DEF RequestShutdown, Start, Disconnect, vars, threads
  <2>5. ~Exit /\ ~Crash /\ \A d \in Conn : ~SigPipe(d)
    BY <2>1 DEF Exit, Crash, SigPipe, Die
  <2>6. PICK d \in Conn : Accept(d) \/ Receive(d)
    BY <2>3, <2>4, <2>5 DEF Next
  <2>7. d = c
    BY <2>1, <2>6 DEF Accept, Receive, Goto, TypeOK
  <2>8. CASE Accept(c)
    BY <2>8 DEF Accept, SessionInvariant, RequestShape
  <2>9. CASE Receive(c)
    BY <2>9 DEF Receive, At, Askable
  <2> QED
    BY <2>6, <2>7, <2>8, <2>9
<1> QED
  BY <1>2, <1>3 DEF Forward

\* A request is answered after at most four steps of its thread, and a client that
\* vanished, at whatever point, is released after at most six: whatever the other
\* threads, the clients and the signals do, none of them sets a thread back
\* (server_network.c:143-306).  This is what EveryRequestAnswered and
\* GoneClientIsReleased need besides the scheduling of the threads.
THEOREM ThreadsGoForward == Spec => [][\A c \in Conn : Forward(c)]_vars
<1>1. TypeOK /\ SessionInvariant /\ [Next]_vars => [\A c \in Conn : Forward(c)]_vars
  BY ForwardStep
<1> QED
  BY <1>1, SessionsFitTogether, PTL DEF Spec

=============================================================================
