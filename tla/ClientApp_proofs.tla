--------------------------- MODULE ClientApp_proofs ---------------------------
(***************************************************************************)
(* Proofs of the safety properties of ClientApp, for every set of names    *)
(* and passwords, every hash and every choice of the calls that may fail.  *)
(***************************************************************************)
EXTENDS ClientApp, TLAPS

Inv == TypeOK /\ ClientInvariant /\ RoundHasWords /\ SentAsTyped

AuthTypes == {"register", "login"}
MenuTypes == {"score", "leaderboard", "wordlist", "logout"}

\* The type of a request says which kind of request it is.
LEMMA RequestKinds ==
  /\ NoRequest \in Request /\ NoRequest.type = "none"
  /\ \A r \in Request :
       /\ r.type \in AuthTypes \cup MenuTypes \cup {"none"}
       /\ r = NoRequest <=> r.type = "none"
       /\ r \in AuthRequest <=> r.type \in AuthTypes
       /\ r \in MenuRequest <=> r.type \in MenuTypes
       /\ r \in AuthRequest => r.user \in Name
<1>1. NoRequest.type = "none"
  BY DEF NoRequest
<1>2. \A r \in AuthRequest : r.type \in AuthTypes /\ r.user \in Name
  BY DEF AuthRequest, AuthTypes
<1>3. \A r \in MenuRequest : r.type \in MenuTypes
  BY DEF MenuRequest, MenuTypes
<1> QED
  BY <1>1, <1>2, <1>3 DEF Request, AuthTypes, MenuTypes

LEMMA MenuRequests ==
  \A t \in MenuTypes : [type |-> t] \in MenuRequest /\ [type |-> t].type = t
BY DEF MenuRequest, MenuTypes

LEMMA Drafts ==
  /\ NoDraft \in Draft /\ NoLogin \in Login
  /\ NoDraft.choice = "none" /\ NoDraft.id = NoUser
BY NamesAssumption DEF NoDraft, Draft, NoLogin, Login

LEMMA ClientInit == Init => Inv
<1> SUFFICES ASSUME Init PROVE Inv
  OBVIOUS
<1> USE RequestKinds, Drafts
<1>1. owed \in {r.type : r \in Request}
  BY DEF Init
<1>2. TypeOK
  BY <1>1 DEF Init, TypeOK, PCs, Afters
<1>3. ClientInvariant
  BY DEF Init, ClientInvariant, InCaseOne, AuthTypes, MenuTypes
<1> QED
  BY <1>2, <1>3 DEF Init, Inv, RoundHasWords, SentAsTyped

\* perform_cleanup_and_exit leaves nothing behind.
LEMMA ExitSafe ==
  ASSUME Inv, Exit
  PROVE  Inv'
<1> USE RequestKinds, Drafts DEF Exit, Goto
<1>1. (owed \in {r.type : r \in Request})'
  OBVIOUS
<1>2. TypeOK'
  BY <1>1 DEF Inv, TypeOK, PCs, Afters
<1>3. ClientInvariant'
  BY DEF ClientInvariant, InCaseOne, AuthTypes, MenuTypes
<1> QED
  BY <1>2, <1>3 DEF Inv, RoundHasWords, SentAsTyped

\* The steps that make no request and start no round.
LEMMA ScreenSafe ==
  ASSUME Inv,
         \/ HandleSigint \/ Boot \/ Connect \/ Quit \/ ConnectFailed \/ AuthMenu
         \/ AuthChoice \/ LeaveField \/ EnterId \/ Menu \/ Confirm \/ KeyPressed
         \/ KeyPressedQuit \/ SmallScreen \/ RoundEnds \/ Launch
  PROVE  Inv'
<1>1. CASE Exit
  BY <1>1, ExitSafe
<1> SUFFICES ASSUME ~Exit PROVE Inv'
  BY <1>1
<1> USE RequestKinds, Drafts DEF Goto, WaitThen, place, conn, form, flags, round
<1>2. ~Quit /\ ~ConnectFailed /\ ~LeaveField /\ ~KeyPressedQuit
  BY DEF Quit, ConnectFailed, LeaveField, KeyPressedQuit
<1>3. CASE HandleSigint
  <2> USE <1>3 DEF HandleSigint
  <2>1. TypeOK'
    <3>1. (sigint \in BOOLEAN /\ game \in BOOLEAN)'
      BY DEF Inv, TypeOK
    <3> QED
      BY <3>1 DEF Inv, TypeOK
  <2>2. ClientInvariant'
    BY DEF Inv, TypeOK, ClientInvariant, InCaseOne, AuthTypes, MenuTypes, Interrupted
  <2>3. RoundHasWords' /\ SentAsTyped'
    BY DEF Inv, TypeOK, RoundHasWords, SentAsTyped, ClientInvariant
  <2> QED
    BY <2>1, <2>2, <2>3 DEF Inv
<1>4. CASE AuthMenu
  <2> USE <1>4 DEF AuthMenu
  <2>1. TypeOK'
    BY DEF Inv, TypeOK, PCs, Afters
  <2>2. ClientInvariant'
    BY DEF Inv, TypeOK, ClientInvariant, InCaseOne, AuthTypes, MenuTypes, Interrupted
  <2>3. RoundHasWords' /\ SentAsTyped'
    BY DEF Inv, TypeOK, RoundHasWords, SentAsTyped, ClientInvariant
  <2> QED
    BY <2>1, <2>2, <2>3 DEF Inv
<1>5. CASE EnterId
  <2> USE <1>5 DEF EnterId
  <2>1. TypeOK'
    BY FieldsAssumption DEF Inv, TypeOK, PCs, Afters, Draft, Login
  <2>2. ClientInvariant'
    BY DEF Inv, TypeOK, ClientInvariant, InCaseOne, AuthTypes, MenuTypes, Interrupted
  <2>3. RoundHasWords' /\ SentAsTyped'
    BY DEF Inv, TypeOK, RoundHasWords, SentAsTyped, ClientInvariant
  <2> QED
    BY <2>1, <2>2, <2>3 DEF Inv
<1>6. CASE Menu
  <2> USE <1>6 DEF Menu
  <2>1. TypeOK'
    BY DEF Inv, TypeOK, PCs, Afters
  <2>2. ClientInvariant'
    BY DEF Inv, TypeOK, ClientInvariant, InCaseOne, AuthTypes, MenuTypes, Interrupted
  <2>3. RoundHasWords' /\ SentAsTyped'
    BY DEF Inv, TypeOK, RoundHasWords, SentAsTyped, ClientInvariant
  <2> QED
    BY <2>1, <2>2, <2>3 DEF Inv
<1>7. CASE RoundEnds
  <2> USE <1>7 DEF RoundEnds
  <2>1. TypeOK'
    BY DEF Inv, TypeOK, PCs, Afters
  <2>2. ClientInvariant'
    BY DEF Inv, TypeOK, ClientInvariant, InCaseOne, AuthTypes, MenuTypes, Interrupted
  <2>3. RoundHasWords' /\ SentAsTyped'
    BY DEF Inv, TypeOK, RoundHasWords, SentAsTyped, ClientInvariant
  <2> QED
    BY <2>1, <2>2, <2>3 DEF Inv
<1>8. CASE Launch
  <2> USE <1>8 DEF Launch
  <2>1. TypeOK'
    BY DEF Inv, TypeOK, PCs, Afters
  <2>2. ClientInvariant'
    BY DEF Inv, TypeOK, ClientInvariant, InCaseOne, AuthTypes, MenuTypes, Interrupted
  <2>3. RoundHasWords' /\ SentAsTyped'
    BY DEF Inv, TypeOK, RoundHasWords, SentAsTyped, ClientInvariant
  <2> QED
    BY <2>1, <2>2, <2>3 DEF Inv
<1>9. CASE Boot
  <2> USE <1>9 DEF Boot
  <2>1. TypeOK'
    BY DEF Inv, TypeOK, PCs, Afters
  <2>2. ClientInvariant'
    BY DEF Inv, TypeOK, ClientInvariant, InCaseOne, AuthTypes, MenuTypes, Interrupted
  <2>3. RoundHasWords' /\ SentAsTyped'
    BY DEF Inv, TypeOK, RoundHasWords, SentAsTyped, ClientInvariant
  <2> QED
    BY <2>1, <2>2, <2>3 DEF Inv
<1>10. CASE Connect
  <2> USE <1>10 DEF Connect
  <2>1. TypeOK'
    <3>1. (pc \in PCs /\ after \in Afters)'
      BY DEF PCs, Afters
    <3>2. (sock \in BOOLEAN /\ user \in Name \cup {NoUser})'
      BY DEF Inv, TypeOK
    <3>3. UNCHANGED <<req, owed, draft, meant, sigint, running, store, table, nodelay>>
      OBVIOUS
    <3> QED
      BY <3>1, <3>2, <3>3 DEF Inv, TypeOK
  <2>2. ClientInvariant'
    BY DEF Inv, TypeOK, ClientInvariant, InCaseOne, AuthTypes, MenuTypes, Interrupted
  <2>3. RoundHasWords' /\ SentAsTyped'
    BY DEF Inv, TypeOK, RoundHasWords, SentAsTyped, ClientInvariant
  <2> QED
    BY <2>1, <2>2, <2>3 DEF Inv
<1>11. CASE AuthChoice
  <2> USE <1>11 DEF AuthChoice
  <2>1. TypeOK'
    BY DEF Inv, TypeOK, PCs, Afters, Draft
  <2>2. ClientInvariant'
    BY DEF Inv, TypeOK, ClientInvariant, InCaseOne, AuthTypes, MenuTypes, Interrupted
  <2>3. RoundHasWords' /\ SentAsTyped'
    BY DEF Inv, TypeOK, RoundHasWords, SentAsTyped, ClientInvariant
  <2> QED
    BY <2>1, <2>2, <2>3 DEF Inv
<1>12. CASE Confirm
  <2> USE <1>12 DEF Confirm
  <2>1. TypeOK'
    BY DEF Inv, TypeOK, PCs, Afters
  <2>2. ClientInvariant'
    BY DEF Inv, TypeOK, ClientInvariant, InCaseOne, AuthTypes, MenuTypes, Interrupted
  <2>3. RoundHasWords' /\ SentAsTyped'
    BY DEF Inv, TypeOK, RoundHasWords, SentAsTyped, ClientInvariant
  <2> QED
    BY <2>1, <2>2, <2>3 DEF Inv
<1>13. CASE KeyPressed
  <2> USE <1>13 DEF KeyPressed
  <2>1. TypeOK'
    <3>1. (pc \in PCs /\ after \in Afters)'
      BY DEF PCs, Afters
    <3>2. (sock \in BOOLEAN /\ running \in BOOLEAN)'
      BY DEF RunningAfterKey
    <3> QED
      BY <3>1, <3>2 DEF Inv, TypeOK
  <2>2. ClientInvariant'
    BY DEF Inv, TypeOK, ClientInvariant, InCaseOne, AuthTypes, MenuTypes,
           Interrupted, RunningAfterKey, Afters
  <2>3. RoundHasWords' /\ SentAsTyped'
    BY DEF Inv, TypeOK, RoundHasWords, SentAsTyped, ClientInvariant
  <2> QED
    BY <2>1, <2>2, <2>3 DEF Inv
<1>14. CASE SmallScreen
  <2> USE <1>14 DEF SmallScreen
  <2>1. TypeOK'
    BY DEF Inv, TypeOK, PCs, Afters
  <2>2. ClientInvariant'
    BY DEF Inv, TypeOK, ClientInvariant, InCaseOne, AuthTypes, MenuTypes, Interrupted
  <2>3. RoundHasWords' /\ SentAsTyped'
    BY DEF Inv, TypeOK, RoundHasWords, SentAsTyped, ClientInvariant
  <2> QED
    BY <2>1, <2>2, <2>3 DEF Inv
<1> QED
  BY <1>2, <1>3, <1>4, <1>5, <1>6, <1>7, <1>8, <1>9, <1>10, <1>11, <1>12, <1>13, <1>14

\* run_rain_typing_game is called while is_game_running is set, by a user who has
\* logged in, with words.
LEMMA RoundStarts ==
  ASSUME Inv, StartRound, pc \notin {"round", "over"},
         store' = "loaded", user' = user, user # NoUser,
         req' = NoRequest, owed' = "none",
         sock' \in BOOLEAN, sigint' = sigint, game' = game,
         draft' \in Draft, meant' \in Login
  PROVE  Inv'
<1> USE RequestKinds, Drafts DEF StartRound, Goto, WaitThen
<1>1. TypeOK'
  <2>1. (pc \in PCs /\ after \in Afters)'
    BY DEF PCs, Afters
  <2>2. (running \in BOOLEAN /\ nodelay \in BOOLEAN /\ table \in {"raw", "ready", "destroyed"})'
    BY DEF Inv, TypeOK
  <2>3. (owed \in {r.type : r \in Request})'
    OBVIOUS
  <2> QED
    BY <2>1, <2>2, <2>3 DEF Inv, TypeOK
<1>2. ClientInvariant'
  BY DEF Inv, TypeOK, ClientInvariant, InCaseOne, AuthTypes, MenuTypes
<1>3. RoundHasWords' /\ SentAsTyped'
  BY DEF Inv, RoundHasWords, SentAsTyped
<1> QED
  BY <1>1, <1>2, <1>3 DEF Inv

\* What the callers of send_request_and_receive_response do next.
LEMMA ProceedSafe ==
  ASSUME Inv, pc \in {"ask", "reply"},
         NEW outcome \in {"yes", "no", "fail"}, Proceed(outcome),
         outcome = "yes" => sock',
         sock' \in BOOLEAN, owed' = "none"
  PROVE  Inv'
<1> USE RequestKinds, Drafts
<1>1. /\ req \in Request /\ req # NoRequest
      /\ req' = NoRequest /\ draft' = NoDraft /\ meant' = NoLogin
      /\ sigint' = sigint /\ game' = game
  BY DEF Inv, TypeOK, ClientInvariant, Proceed, RequestDone
<1>2. CASE req.type = "wordlist"
  <2>1. user' = user /\ user # NoUser /\ LoadWords(outcome)
    BY <1>1, <1>2 DEF Proceed, UserAfter, Inv, ClientInvariant, MenuTypes
  <2>2. CASE StartRound /\ store' = "loaded"
    BY <1>1, <2>1, <2>2, RoundStarts
  <2>3. CASE LoadFailed /\ store' \in {store, "none", "empty"}
    <3> USE <1>1, <1>2, <2>1, <2>3 DEF LoadFailed, WaitThen
    <3>1. TypeOK'
      BY DEF Inv, TypeOK, PCs, Afters
    <3>2. ClientInvariant'
      BY DEF Inv, TypeOK, ClientInvariant, InCaseOne, AuthTypes, MenuTypes
    <3>3. RoundHasWords' /\ SentAsTyped'
      BY DEF Inv, RoundHasWords, SentAsTyped
    <3> QED
      BY <3>1, <3>2, <3>3 DEF Inv
  <2> QED
    BY <2>1, <2>2, <2>3 DEF LoadWords, StoreAfterFailure
<1>3. CASE req.type # "wordlist"
  <2> USE <1>1, <1>3 DEF WaitThen
  <2>1. /\ pc' = "key" /\ after' = StepAfter(outcome) /\ user' = UserAfter(outcome)
        /\ UNCHANGED <<running, store, table, nodelay>>
    BY DEF Proceed, round
  <2>2. StepAfter(outcome) \in {"auth", "bye", "menu"}
    BY DEF StepAfter
  <2>3. /\ UserAfter(outcome) \in Name \cup {NoUser}
        /\ StepAfter(outcome) = "menu" => UserAfter(outcome) # NoUser
        /\ StepAfter(outcome) \in {"auth", "bye"} => UserAfter(outcome) = NoUser
    BY NamesAssumption
       DEF StepAfter, UserAfter, Inv, TypeOK, ClientInvariant, AuthTypes, MenuTypes
  <2>4. TypeOK'
    BY <2>1, <2>2, <2>3 DEF Inv, TypeOK, PCs, Afters
  <2>5. ~running /\ pc' \notin {"round", "over"} /\ table # "ready"
    BY <2>1 DEF Inv, ClientInvariant, InCaseOne, RoundHasWords
  <2>6. ClientInvariant'
    BY <2>1, <2>2, <2>3, <2>5 DEF ClientInvariant, InCaseOne, AuthTypes, MenuTypes
  <2>7. RoundHasWords' /\ SentAsTyped'
    BY <2>1, <2>5 DEF RoundHasWords, SentAsTyped
  <2> QED
    BY <2>4, <2>6, <2>7 DEF Inv
<1> QED
  BY <1>2, <1>3

\* A request that failed.
LEMMA FailSafe ==
  ASSUME Inv, pc \in {"ask", "reply"}, Fail
  PROVE  Inv'
<1>1. CASE Exit
  BY <1>1, ExitSafe
<1>2. CASE Disconnect /\ Proceed("fail")
  BY <1>2, ProceedSafe DEF Disconnect
<1> QED
  BY <1>1, <1>2 DEF Fail

\* A request is made on the menu, or after a round.
LEMMA MenuAskSafe ==
  ASSUME Inv, NEW t \in MenuTypes, MenuAsk(t), user # NoUser,
         running' = (t = "wordlist"),
         table' \in {"raw", "destroyed"},
         store' \in {"none", "empty", "loaded"},
         owed = "none",
         UNCHANGED <<sock, owed, user, draft, meant, sigint, game, nodelay>>
  PROVE  Inv'
<1> USE RequestKinds, Drafts, MenuRequests DEF MenuAsk, Goto
<1>1. req' \in MenuRequest /\ req' \in Request /\ req'.type = t
  BY DEF Request
<1>2. TypeOK'
  BY <1>1 DEF Inv, TypeOK, PCs, Afters
<1>3. ClientInvariant'
  BY <1>1 DEF ClientInvariant, InCaseOne, AuthTypes, MenuTypes
<1>4. RoundHasWords' /\ SentAsTyped'
  BY <1>1 DEF RoundHasWords, SentAsTyped, MenuTypes
<1> QED
  BY <1>2, <1>3, <1>4 DEF Inv

\* The steps that make a request, send it, or see its outcome.
LEMMA RequestSafe ==
  ASSUME Inv,
         \/ EnterPassword \/ Ask \/ Receive \/ ReceiveFails
         \/ StartGame \/ Choose \/ RoundOver
  PROVE  Inv'
<1> USE RequestKinds, Drafts, MenuRequests
    DEF Goto, WaitThen, place, conn, form, flags, round
<1>1. CASE EnterPassword
  <2> USE <1>1 DEF EnterPassword
  <2>1. /\ user' = user /\ user = NoUser /\ owed' = owed /\ owed = "none"
        /\ UNCHANGED <<sock, sigint, game, running, store, table, nodelay>>
        /\ ~running /\ table # "ready" /\ draft.choice \in AuthTypes
        /\ draft.id = Kept[meant.user] /\ meant.user \in Name /\ draft.id \in Name
    BY FieldsAssumption
       DEF Inv, TypeOK, ClientInvariant, InCaseOne, RoundHasWords, Draft, AuthTypes
  <2>2. CASE /\ \E p \in PasswordsRead : req' = AuthRequestOf(p)
             /\ pc' = "ask" /\ after' = "none" /\ UNCHANGED <<draft, meant>>
    <3>1. PICK p \in PasswordsRead : req' = AuthRequestOf(p)
      BY <2>2
    <3>2. /\ p \in Password
          /\ p = KeptPw[meant.pw] \/ (meant.user \in Full /\ p = KeptPw[Spill[meant.user]])
      <4>1. meant.pw \in Password
        BY DEF Inv, TypeOK, Login
      <4> QED
        BY <4>1, FieldsAssumption DEF PasswordsRead
    <3>3. /\ req' = [type |-> draft.choice, user |-> draft.id, pw |-> Hash[p]]
          /\ req' \in AuthRequest
      BY <2>1, <3>1, <3>2 DEF AuthRequestOf, AuthRequest, AuthTypes
    <3>4. /\ req' \in Request /\ req'.type = draft.choice
          /\ req'.user = draft.id /\ req'.pw = Hash[p]
      BY <3>3 DEF Request
    <3>5. TypeOK'
      BY <2>1, <2>2, <3>4 DEF Inv, TypeOK, PCs, Afters
    <3>6. ClientInvariant'
      BY <2>1, <2>2, <3>3, <3>4 DEF ClientInvariant, InCaseOne, AuthTypes, MenuTypes
    <3>7. RoundHasWords' /\ SentAsTyped'
      BY <2>1, <2>2, <3>2, <3>4 DEF RoundHasWords, SentAsTyped
    <3> QED
      BY <3>5, <3>6, <3>7 DEF Inv
  <2>3. CASE pc' = "key" /\ after' = "auth" /\ req' = req /\ draft' = NoDraft /\ meant' = NoLogin
    <3>1. TypeOK'
      BY <2>1, <2>3 DEF Inv, TypeOK, PCs, Afters
    <3>2. ClientInvariant'
      BY <2>1, <2>3 DEF Inv, TypeOK, ClientInvariant, InCaseOne, AuthTypes, MenuTypes
    <3>3. RoundHasWords' /\ SentAsTyped'
      BY <2>1, <2>3 DEF RoundHasWords, SentAsTyped
    <3> QED
      BY <3>1, <3>2, <3>3 DEF Inv
  <2> QED
    BY <2>2, <2>3
<1>2. CASE Ask
  <2>1. CASE Fail
    BY <1>2, <2>1, FailSafe DEF Ask
  <2>2. CASE ~Fail
    <3> USE <1>2, <2>2 DEF Ask
    <3>1. TypeOK'
      BY DEF Inv, TypeOK, PCs, Afters
    <3>2. ClientInvariant'
      BY DEF Inv, TypeOK, ClientInvariant, InCaseOne, AuthTypes, MenuTypes
    <3>3. RoundHasWords' /\ SentAsTyped'
      BY DEF Inv, RoundHasWords, SentAsTyped
    <3> QED
      BY <3>1, <3>2, <3>3 DEF Inv
  <2> QED
    BY <2>1, <2>2
<1>3. CASE Receive
  <2>1. PICK outcome \in {"yes", "no", "fail"} : Proceed(outcome)
    BY <1>3 DEF Receive
  <2>2. sock /\ sock' /\ sock' \in BOOLEAN /\ owed' = "none" /\ pc = "reply"
    BY <1>3 DEF Receive, Inv, ClientInvariant, TypeOK
  <2> QED
    BY <2>1, <2>2, ProceedSafe
<1>4. CASE ReceiveFails
  BY <1>4, FailSafe DEF ReceiveFails
<1>5. CASE StartGame
  <2> USE <1>5 DEF StartGame
  <2>1. /\ user # NoUser /\ owed = "none" /\ req = NoRequest /\ pc = "menukey"
        /\ table # "ready" /\ table \in {"raw", "ready", "destroyed"}
        /\ sock \in BOOLEAN /\ draft \in Draft /\ meant \in Login
        /\ store \in {"none", "empty", "loaded"}
    BY DEF Inv, TypeOK, ClientInvariant, RoundHasWords
  <2>2. CASE NeedsWords
    BY <2>1, <2>2, MenuAskSafe DEF MenuTypes
  <2>3. CASE ~NeedsWords
    BY <2>1, <2>3, RoundStarts DEF NeedsWords
  <2> QED
    BY <2>2, <2>3
<1>6. CASE Choose
  <2>1. /\ user # NoUser /\ owed = "none" /\ ~running /\ running \in BOOLEAN
        /\ req = NoRequest
        /\ table # "ready" /\ table \in {"raw", "ready", "destroyed"}
        /\ store \in {"none", "empty", "loaded"}
    BY <1>6 DEF Choose, Inv, TypeOK, ClientInvariant, InCaseOne, RoundHasWords
  <2>2. UNCHANGED <<sock, owed, user, draft, meant, sigint, game, running, store, table, nodelay>>
    BY <1>6 DEF Choose
  <2>3. CASE \E type \in {"leaderboard", "logout"} : MenuAsk(type)
    <3>1. PICK type \in {"leaderboard", "logout"} : MenuAsk(type)
      BY <2>3
    <3>2. running' = (type = "wordlist") /\ type \in MenuTypes
      BY <2>1, <2>2, <3>1 DEF MenuTypes
    <3> QED
      BY <2>1, <2>2, <3>1, <3>2, MenuAskSafe
  <2>4. CASE req' = req /\ \/ pc' = "confirm" /\ after' = "none"
                           \/ pc' = "key" /\ after' \in {"page2", "menu"}
    <3>1. TypeOK'
      BY <2>2, <2>4 DEF Inv, TypeOK, PCs, Afters
    <3>2. ClientInvariant'
      BY <2>1, <2>2, <2>4 DEF ClientInvariant, InCaseOne, AuthTypes, MenuTypes
    <3>3. RoundHasWords' /\ SentAsTyped'
      BY <2>1, <2>2, <2>4 DEF RoundHasWords, SentAsTyped
    <3> QED
      BY <3>1, <3>2, <3>3 DEF Inv
  <2>5. \/ \E type \in {"leaderboard", "logout"} : MenuAsk(type)
        \/ req' = req /\ \/ pc' = "confirm" /\ after' = "none"
                         \/ pc' = "key" /\ after' \in {"page2", "menu"}
    BY <1>6 DEF Choose
  <2> QED
    BY <2>3, <2>4, <2>5
<1>7. CASE RoundOver
  <2>1. CASE Exit
    BY <2>1, ExitSafe
  <2>2. CASE ~Exit
    <3>1. user # NoUser /\ owed = "none"
      BY <1>7 DEF RoundOver, Inv, ClientInvariant
    <3> QED
      BY <1>7, <2>2, <3>1, MenuAskSafe DEF RoundOver, MenuTypes
  <2> QED
    BY <2>1, <2>2
<1> QED
  BY <1>1, <1>2, <1>3, <1>4, <1>5, <1>6, <1>7

\* What a Ctrl+C and the start of case '1' may do.
LEMMA RoutedStep ==
  ASSUME Inv, Inv', Next
  PROVE  /\ ~sigint /\ sigint' => ~InCaseOne
         /\ ~game /\ game' => InCaseOne
         /\ ~running /\ running' => ~game'
<1> USE DEF Goto, WaitThen, place, conn, form, flags, round
<1>0. running <=> InCaseOne
  BY DEF Inv, ClientInvariant
<1>1. CASE HandleSigint
  BY <1>0, <1>1 DEF HandleSigint, Inv, TypeOK
<1>2. ASSUME ~HandleSigint
      PROVE  /\ sigint' => sigint
             /\ game' => game
  <2>1. Exit => UNCHANGED <<sigint, game>>
    BY DEF Exit
  <2>2. Fail => UNCHANGED <<sigint, game>>
    BY <2>1 DEF Fail, Proceed
  <2>3. Ask \/ Receive \/ ReceiveFails => UNCHANGED <<sigint, game>>
    BY <2>2 DEF Ask, Receive, ReceiveFails, Proceed
  <2>4. StartGame \/ Choose \/ Confirm \/ KeyPressed \/ KeyPressedQuit \/ SmallScreen \/ RoundOver
          => UNCHANGED <<sigint, game>>
    BY <2>1 DEF StartGame, Choose, Confirm, KeyPressed, KeyPressedQuit, SmallScreen, RoundOver
  <2>5. (Boot \/ Quit \/ ConnectFailed \/ AuthMenu \/ AuthChoice \/ LeaveField
         \/ EnterId \/ EnterPassword)
          => UNCHANGED <<sigint, game>>
    BY <2>1 DEF Boot, Quit, ConnectFailed, AuthMenu, AuthChoice, LeaveField, EnterId, EnterPassword
  <2>6. Connect \/ Menu \/ RoundEnds \/ Launch => (sigint' => sigint) /\ (game' => game)
    BY DEF Connect, Menu, RoundEnds, Launch
  <2> QED
    BY <1>2, <2>3, <2>4, <2>5, <2>6 DEF Next, Screens
<1>3. ~running /\ running' => pc = "menukey"
  <2>1. Exit => ~running'
    BY DEF Exit
  <2>2. \A o \in {"yes", "no", "fail"} :
          pc \in {"ask", "reply"} /\ Proceed(o) /\ ~running => ~running'
    BY <1>0 DEF Proceed, InCaseOne
  <2>3. pc \in {"ask", "reply"} /\ Fail /\ ~running => ~running'
    BY <2>1, <2>2 DEF Fail
  <2>4. Ask \/ Receive \/ ReceiveFails => (~running => ~running')
    BY <2>2, <2>3 DEF Ask, Receive, ReceiveFails
  <2>5. StartGame \/ Choose => pc = "menukey"
    BY DEF StartGame, Choose
  <2>6. Confirm \/ KeyPressed \/ KeyPressedQuit \/ SmallScreen \/ RoundOver
          => (~running => ~running')
    BY <2>1 DEF Confirm, KeyPressed, KeyPressedQuit, SmallScreen, RoundOver, RunningAfterKey
  <2>7. (Boot \/ Quit \/ ConnectFailed \/ AuthMenu \/ AuthChoice \/ LeaveField
         \/ EnterId \/ EnterPassword)
          => (~running => ~running')
    BY <2>1 DEF Boot, Quit, ConnectFailed, AuthMenu, AuthChoice, LeaveField, EnterId, EnterPassword
  <2>8. HandleSigint \/ Connect \/ Menu \/ RoundEnds \/ Launch => (~running => ~running')
    BY DEF HandleSigint, Connect, Menu, RoundEnds, Launch
  <2> QED
    BY <2>4, <2>5, <2>6, <2>7, <2>8 DEF Next, Screens
<1>4. pc = "menukey" => ~game
  BY DEF Inv, ClientInvariant
<1>5. ~running /\ running' /\ HandleSigint => FALSE
  BY DEF HandleSigint
<1> QED
  BY <1>1, <1>2, <1>3, <1>4, <1>5

LEMMA InvStep == Inv /\ [Next]_vars => Inv'
<1> SUFFICES ASSUME Inv, [Next]_vars PROVE Inv'
  OBVIOUS
<1>1. CASE UNCHANGED vars
  BY <1>1 DEF vars, Inv, TypeOK, ClientInvariant, InCaseOne, RoundHasWords, SentAsTyped
<1>2. CASE Next
  BY <1>2, ScreenSafe, RequestSafe DEF Next, Screens
<1> QED
  BY <1>1, <1>2

\* The inductive invariant, from which the rest follows.
THEOREM ClientInvariantHolds == Spec => []ClientInvariant
<1>1. Inv => ClientInvariant
  BY DEF Inv
<1> QED
  BY ClientInit, InvStep, <1>1, PTL DEF Spec

\* Every variable keeps its range: no request carries a password that was not
\* hashed.
THEOREM TypeCorrect == Spec => []TypeOK
<1>1. Inv => TypeOK
  BY DEF Inv
<1> QED
  BY ClientInit, InvStep, <1>1, PTL DEF Spec

\* Every round is played by a logged-in user, with words and a table.
THEOREM RoundsHaveWords == Spec => []RoundHasWords
<1>1. Inv => RoundHasWords
  BY DEF Inv
<1> QED
  BY ClientInit, InvStep, <1>1, PTL DEF Spec

\* The login screen asks for what was typed as far as its fields hold it: a name of
\* fewer than MAX_ID_LEN - 1 keys goes out whole, with the hash of the password as
\* pw_plain keeps it.  Of a name that fills the ID field (auth_ui.c:46) the head goes
\* out, and the hash is that of the password or of what was typed behind the field.
THEOREM LoginsAreSentAsTyped == Spec => []SentAsTyped
<1>1. Inv => SentAsTyped
  BY DEF Inv
<1> QED
  BY ClientInit, InvStep, <1>1, PTL DEF Spec

\* handle_sigint's choice between the round and the program is the right one.
THEOREM CtrlCGoesWhereItBelongs == Spec => CtrlCIsRouted
<1> DEFINE Routed == /\ ~sigint /\ sigint' => ~InCaseOne
                     /\ ~game /\ game' => InCaseOne
                     /\ ~running /\ running' => ~game'
<1>1. Inv /\ Inv' /\ [Next]_vars => [Routed]_vars
  BY RoutedStep
<1> HIDE DEF Routed
<1>2. Spec => [][Routed]_vars
  BY ClientInit, InvStep, <1>1, PTL DEF Spec
<1> QED
  BY <1>2 DEF CtrlCIsRouted, Routed

-----------------------------------------------------------------------------
(* The client implements PeerProtocol.                                     *)

Phase == IF ~sock THEN "closed"
         ELSE IF user # NoUser THEN "menu"
         ELSE IF after = "bye" THEN "bye" ELSE "auth"

\* The five things a step can be for the connection.
Stays == Phase' = Phase /\ owed' = owed
Opens == Phase = "closed" /\ Phase' = "auth" /\ owed' = owed
Asks ==
  /\ owed = "none" /\ Phase' = Phase
  /\ \/ Phase = "auth" /\ owed' \in AuthTypes
     \/ Phase = "menu" /\ owed' \in MenuTypes
Answered ==
  /\ owed # "none" /\ owed' = "none"
  /\ \/ Phase' = Phase
     \/ owed = "login" /\ Phase' = "menu"
     \/ owed = "logout" /\ Phase' = "bye"
Ends == Phase' = "closed" /\ owed' = "none"

LEMMA PeerStep ==
  ASSUME Stays \/ Opens \/ Asks \/ Answered \/ Ends
  PROVE  [Peer!Next]_(Peer!vars)
<1>1. CASE Stays
  BY <1>1 DEF Stays, Phase, Peer!vars
<1>2. CASE Opens
  <2>1. Peer!Connect(1)
    BY <1>2 DEF Opens, Phase, Peer!Connect
  <2> QED
    BY <2>1 DEF Peer!Next
<1>3. CASE Asks
  <2>1. Peer!Ask(1, owed')
    BY <1>3 DEF Asks, Phase, Peer!Ask, Peer!Askable, AuthTypes, MenuTypes
  <2>2. owed' \in Peer!Askable("auth") \cup Peer!Askable("menu")
    BY <1>3 DEF Asks, Peer!Askable, AuthTypes, MenuTypes
  <2> QED
    BY <2>1, <2>2 DEF Peer!Next
<1>4. CASE Answered
  <2>1. Peer!Answer(1)
    BY <1>4 DEF Answered, Phase, Peer!Answer
  <2> QED
    BY <2>1 DEF Peer!Next
<1>5. CASE Ends
  <2>1. Peer!CloseAll
    BY <1>5 DEF Ends, Phase, Peer!CloseAll
  <2> QED
    BY <2>1 DEF Peer!Next
<1> QED
  BY <1>1, <1>2, <1>3, <1>4, <1>5

\* Which of them each step of the client is.
LEMMA ClientRefines ==
  ASSUME Inv, Next
  PROVE  Stays \/ Opens \/ Asks \/ Answered \/ Ends
<1> USE RequestKinds DEF Goto, WaitThen, place, conn, form, flags, round
<1>1. CASE Exit
  BY <1>1 DEF Exit, Ends, Phase
<1> SUFFICES ASSUME ~Exit PROVE Stays \/ Opens \/ Asks \/ Answered \/ Ends
  BY <1>1
<1>2. pc # "key" <=> after = "none"
  BY DEF Inv, ClientInvariant
<1>3. CASE Fail
  BY <1>3 DEF Fail, Disconnect, Ends, Phase
<1>4. CASE Ask /\ ~Fail
  <2>1. /\ pc = "ask" /\ owed = "none" /\ sock /\ req \in Request /\ req # NoRequest
        /\ req \in MenuRequest => user # NoUser
        /\ req \in AuthRequest => user = NoUser
    BY <1>4 DEF Ask, Inv, TypeOK, ClientInvariant
  <2>2. owed' = req.type /\ sock' = sock /\ user' = user /\ after' = "none"
    BY <1>4 DEF Ask
  <2>3. Asks
    BY <1>2, <2>1, <2>2 DEF Asks, Phase, AuthTypes, MenuTypes
  <2> QED
    BY <2>3
<1>5. CASE Receive
  <2>1. PICK outcome \in {"yes", "no", "fail"} : Proceed(outcome)
    BY <1>5 DEF Receive
  <2>2. /\ pc = "reply" /\ sock /\ sock' = sock /\ owed' = "none"
        /\ req \in Request /\ req # NoRequest /\ owed = req.type
        /\ req \in MenuRequest => user # NoUser
        /\ req \in AuthRequest => user = NoUser
    BY <1>5 DEF Receive, Inv, TypeOK, ClientInvariant
  <2>3. user' = UserAfter(outcome)
    BY <2>1 DEF Proceed
  <2>4. CASE req.type = "wordlist"
    BY <1>2, <2>2, <2>3, <2>4 DEF UserAfter, Answered, Phase, MenuTypes
  <2>5. CASE req.type # "wordlist"
    <3>1. after' = StepAfter(outcome)
      BY <2>1, <2>5 DEF Proceed
    <3>2. Answered
      BY <1>2, <2>2, <2>3, <2>5, <3>1, NamesAssumption
         DEF UserAfter, StepAfter, Answered, Phase, AuthTypes, MenuTypes
    <3> QED
      BY <3>2
  <2> QED
    BY <2>4, <2>5
<1>6. CASE Connect
  BY <1>2, <1>6 DEF Connect, Inv, ClientInvariant, Stays, Opens, Phase
<1>7. CASE KeyPressed
  BY <1>2, <1>7 DEF KeyPressed, Inv, ClientInvariant, Stays, Ends, Phase
<1>8. CASE HandleSigint \/ Boot \/ AuthMenu \/ AuthChoice \/ EnterId \/ EnterPassword
  BY <1>2, <1>8 DEF HandleSigint, Boot, AuthMenu, AuthChoice, EnterId, EnterPassword, Stays, Phase
<1>9. CASE Menu \/ Choose \/ Confirm \/ SmallScreen \/ RoundEnds \/ RoundOver
  BY <1>2, <1>9 DEF Menu, Choose, MenuAsk, Confirm, SmallScreen, RoundEnds, RoundOver,
                    Inv, ClientInvariant, Stays, Phase
<1>10. CASE StartGame
  BY <1>2, <1>10 DEF StartGame, MenuAsk, StartRound, Inv, ClientInvariant, Stays, Phase
<1>11. CASE Launch
  BY <1>11 DEF Launch, Inv, ClientInvariant, Stays, Phase
<1>12. ~Quit /\ ~ConnectFailed /\ ~LeaveField /\ ~KeyPressedQuit
  BY DEF Quit, ConnectFailed, LeaveField, KeyPressedQuit
<1> QED
  BY <1>3, <1>4, <1>5, <1>6, <1>7, <1>8, <1>9, <1>10, <1>11, <1>12
     DEF Next, Screens, ReceiveFails

\* The client keeps to the protocol of its connection, whatever fails and
\* whenever Ctrl+C comes.
THEOREM ClientKeepsProtocol == Spec => ImplementsPeerProtocol
<1>1. Init => Peer!Init
  BY DEF Init, Peer!Init
<1>2. Inv /\ [Next]_vars => [Peer!Next]_(Peer!vars)
  <2> SUFFICES ASSUME Inv, [Next]_vars PROVE [Peer!Next]_(Peer!vars)
    OBVIOUS
  <2>1. CASE Next
    BY <2>1, ClientRefines, PeerStep
  <2>2. CASE UNCHANGED vars
    BY <2>2, PeerStep DEF vars, Stays, Phase
  <2> QED
    BY <2>1, <2>2
<1> QED
  BY ClientInit, InvStep, <1>1, <1>2, PTL DEF Spec, ImplementsPeerProtocol, Peer!Spec

-----------------------------------------------------------------------------
(* The safety half of the liveness properties: how far main is, at most,   *)
(* from the exit and from the menu.                                        *)

\* What main does by itself.
MainStep == Screens \/ RoundEnds

ToExit ==
  IF pc = "menukey" THEN 3 ELSE IF pc \in {"boot", "authkey", "round"} THEN 2
  ELSE IF pc = "exited" THEN 0 ELSE 1

\* Once sigint_received is set it stays set until the program has ended, and each
\* step of main leads towards the end.
Quitting ==
  sigint /\ pc # "exited" =>
    sigint' /\ IF MainStep THEN ToExit' < ToExit ELSE pc' = pc

LEMMA ExitStep ==
  ASSUME MainStep, sigint, pc # "exited"
  PROVE  sigint' /\ ToExit' < ToExit
<1> USE DEF ToExit, Interrupted
<1>1. ASSUME Exit PROVE sigint' /\ ToExit' < ToExit
  BY <1>1 DEF Exit, Goto
<1>2. CASE Boot
  <2>1. CASE ~Exit
    <3>1. pc = "boot" /\ pc' = "connect" /\ sigint' = sigint
      BY <1>2, <2>1 DEF Boot, Goto, flags
    <3> QED
      BY <3>1
  <2> QED
    BY <1>1, <2>1
<1>3. CASE Quit \/ ConnectFailed \/ LeaveField \/ KeyPressedQuit
  BY <1>1, <1>3 DEF Quit, ConnectFailed, LeaveField, KeyPressedQuit
<1>4. ~Connect /\ ~AuthMenu /\ ~EnterId /\ ~EnterPassword /\ ~Receive /\ ~Menu /\ ~KeyPressed
  BY DEF Connect, AuthMenu, EnterId, EnterPassword, Receive, Menu, KeyPressed
<1>5. CASE AuthChoice
  <2>1. CASE ~Exit
    <3>1. pc = "authkey" /\ pc' \in {"id", "auth", "key"} /\ sigint' = sigint
      BY <1>5, <2>1 DEF AuthChoice, Goto, WaitThen, flags
    <3> QED
      BY <3>1
  <2> QED
    BY <1>1, <2>1
<1>6. CASE Ask \/ ReceiveFails
  BY <1>1, <1>6 DEF Ask, ReceiveFails, Fail
<1>7. CASE StartGame
  <2>1. sigint' = sigint /\ pc = "menukey"
    BY <1>7 DEF StartGame
  <2>2. pc' \in {"ask", "round", "small", "key"}
    BY <1>7 DEF StartGame, MenuAsk, StartRound, Goto, WaitThen
  <2> QED
    BY <2>1, <2>2
<1>8. CASE Choose
  <2>1. sigint' = sigint /\ pc = "menukey"
    BY <1>8 DEF Choose, flags
  <2>2. pc' \in {"ask", "key", "confirm"}
    BY <1>8 DEF Choose, MenuAsk, Goto, WaitThen
  <2> QED
    BY <2>1, <2>2
<1>9. CASE Confirm \/ SmallScreen \/ RoundOver
  BY <1>1, <1>9 DEF Confirm, SmallScreen, RoundOver
<1>10. CASE RoundEnds
  BY <1>10 DEF RoundEnds, Goto, flags
<1> QED
  BY <1>2, <1>3, <1>4, <1>5, <1>6, <1>7, <1>8, <1>9, <1>10 DEF MainStep, Screens

\* After a Ctrl+C outside a round, main ends the program in at most three steps from
\* wherever it was: no loop, field, prompt or request forgets to look at the flag
\* (client_main.c:107-269, auth_ui.c:47-236, client_network.c:54-124).  This is what
\* QuitIsHonoured needs besides that main runs and a key is pressed.
THEOREM ExitIsNear == Spec => [][Quitting]_vars
<1>1. ASSUME [Next]_vars PROVE Quitting
  <2>1. CASE MainStep
    BY <2>1, ExitStep DEF Quitting
  <2>2. CASE ~MainStep
    BY <1>1, <2>2 DEF Quitting, MainStep, Next, HandleSigint, place, Launch, vars
  <2> QED
    BY <2>1, <2>2
<1> QED
  BY <1>1, PTL DEF Spec

\* From a round, or from one of the other screens of the menu, back to the menu.
WayBack == pc \in {"round", "over"} \/ req.type = "score" \/ after = "menu"

ToMenu ==
  IF pc = "round" THEN 5 ELSE IF pc = "over" THEN 4
  ELSE IF pc = "ask" THEN 3 ELSE IF pc = "reply" THEN 2 ELSE 1

\* Each step of main leads towards the menu or out of the program, and nothing else
\* leads away.
Returning ==
  WayBack =>
    \/ pc' \in {"menu", "exited"}
    \/ WayBack' /\ IF MainStep THEN ToMenu' < ToMenu ELSE ToMenu' = ToMenu

LEMMA WayBackPlaces ==
  ASSUME Inv, WayBack
  PROVE  /\ pc \in {"round", "over", "ask", "reply", "key"}
         /\ pc \in {"ask", "reply"} => req.type = "score"
         /\ pc = "key" => after = "menu"
<1>1. /\ pc \in PCs /\ req \in Request
      /\ pc = "key" <=> after # "none"
      /\ pc \in {"ask", "reply"} <=> req # NoRequest
  BY DEF Inv, TypeOK, ClientInvariant
<1> QED
  BY <1>1, RequestKinds DEF WayBack

LEMMA MenuStep ==
  ASSUME Inv, WayBack, MainStep, pc' \notin {"menu", "exited"}
  PROVE  WayBack' /\ ToMenu' < ToMenu
<1> USE DEF ToMenu
<1>1. WayBack' <=> pc' \in {"round", "over"} \/ req'.type = "score" \/ after' = "menu"
  BY DEF WayBack
<1>2. /\ pc \in {"round", "over", "ask", "reply", "key"}
      /\ pc \in {"ask", "reply"} => req.type = "score"
      /\ pc = "key" => after = "menu"
  BY WayBackPlaces
<1>3. ~Exit
  BY DEF Exit, Goto
<1>4. CASE RoundEnds
  BY <1>1, <1>4 DEF RoundEnds, Goto
<1>5. CASE RoundOver
  <2>1. pc = "over" /\ pc' = "ask" /\ req' = [type |-> "score"]
    BY <1>3, <1>5 DEF RoundOver, MenuAsk, Goto
  <2> QED
    BY <1>1, <2>1
<1>6. ASSUME NEW outcome, Proceed(outcome), pc \in {"ask", "reply"}
      PROVE  pc' = "key" /\ after' = "menu"
  BY <1>2, <1>6 DEF Proceed, StepAfter, WaitThen
<1>7. CASE Ask
  <2>1. CASE Fail
    BY <1>1, <1>3, <1>6, <1>7, <2>1 DEF Ask, Fail
  <2>2. CASE ~Fail
    <3>1. pc = "ask" /\ pc' = "reply" /\ req' = req
      BY <1>7, <2>2 DEF Ask, Goto
    <3> QED
      BY <1>1, <1>2, <3>1
  <2> QED
    BY <1>7, <2>1, <2>2 DEF Ask
<1>8. CASE Receive
  BY <1>1, <1>6, <1>8 DEF Receive
<1>9. CASE ReceiveFails
  BY <1>1, <1>3, <1>6, <1>9 DEF ReceiveFails, Fail
<1>10. ~KeyPressed /\ ~KeyPressedQuit
  BY <1>2, <1>3 DEF KeyPressed, KeyPressedQuit, Goto, WaitThen
<1>11. ~Boot /\ ~Connect /\ ~Quit /\ ~ConnectFailed /\ ~AuthMenu /\ ~AuthChoice
  BY <1>2 DEF Boot, Connect, Quit, ConnectFailed, AuthMenu, AuthChoice
<1>12. ~LeaveField /\ ~EnterId /\ ~EnterPassword /\ ~Menu /\ ~StartGame /\ ~Choose
       /\ ~Confirm /\ ~SmallScreen
  BY <1>2 DEF LeaveField, EnterId, EnterPassword, Menu, StartGame, Choose, Confirm, SmallScreen
<1> QED
  BY <1>4, <1>5, <1>7, <1>8, <1>9, <1>10, <1>11, <1>12 DEF MainStep, Screens

\* A round that has ended leads back to the menu in at most four steps, whatever
\* becomes of the score: its submission, answered, refused or failed, is followed by
\* a key and the menu (client_main.c:175-198).  This is what InterruptReturnsToMenu
\* needs besides that the round sees the flag and main runs.
THEOREM MenuIsNear == Spec => [][Returning]_vars
<1>1. ASSUME Inv, [Next]_vars PROVE Returning
  <2>1. CASE MainStep
    BY <1>1, <2>1, MenuStep DEF Returning
  <2>2. CASE ~MainStep /\ WayBack
    <3>1. pc # "exited"
      BY <1>1, <2>2, WayBackPlaces
    <3>2. UNCHANGED <<pc, req, after>>
      BY <1>1, <2>2, <3>1 DEF MainStep, Next, HandleSigint, Launch, vars, place, conn
    <3> QED
      BY <2>2, <3>2 DEF Returning, WayBack, ToMenu
  <2> QED
    BY <2>1, <2>2 DEF Returning
<1> QED
  BY <1>1, ClientInit, InvStep, PTL DEF Spec

=============================================================================
