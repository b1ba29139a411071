------------------------------ MODULE ClientApp ------------------------------
(***************************************************************************)
(* The client program around a round of the game: main and its menu        *)
(* (client_main.c), the login screen (auth_ui.c), the other screens, and   *)
(* the request/response calls on its one connection (client_network.c),    *)
(* with a Ctrl+C that may come at any time.                                *)
(*                                                                         *)
(* Grain: an action leads from one place where the main thread can block,  *)
(* or where it looks at the Ctrl+C flags, to the next.  The player, the    *)
(* server and the network are choices; a round is one place, RainGame is   *)
(* its inside.                                                             *)
(***************************************************************************)
EXTENDS Naturals

CONSTANTS
  Name,       \* names a player types; not the empty one, which opens no account
  NoUser,     \* the empty user_id
  Full,       \* names of at least MAX_ID_LEN - 1 characters, which end the ID field
  Kept,       \* what the ID field keeps of a name
  Spill,      \* what the player types of a full name behind the ID field
  Password,   \* passwords, as typed
  NoPassword, \* the empty password
  KeptPw,     \* what the password field (pw_plain) keeps of a password
  Hash,       \* hash_user_password
  MayFail     \* which calls may fail: "crypto", "connect", "memory", "screen"

ASSUME NamesAssumption ==
  /\ NoUser \notin Name
  /\ Full \subseteq Name
  /\ NoPassword \in Password
  /\ DOMAIN Hash = Password

\* A field keeps what fits it; of a name that just fits it nothing is left.
ASSUME FieldsAssumption ==
  /\ Kept \in [Name -> Name] /\ KeptPw \in [Password -> Password]
  /\ Spill \in [Full -> Password]
  /\ \A n \in Name \ Full : Kept[n] = n
  /\ \A n \in Full : Kept[n] \in Full /\ Kept[Kept[n]] = Kept[n]
  /\ \A n \in Full : Kept[n] = n => Spill[n] = NoPassword
  /\ \A p \in Password : KeptPw[KeptPw[p]] = KeptPw[p]
  /\ KeptPw[NoPassword] = NoPassword

ASSUME FaultsAssumption == MayFail \subseteq {"crypto", "connect", "memory", "screen"}

VARIABLES
  pc,       \* where the main thread is
  after,    \* where it goes from wait_for_key_or_signal
  sock,     \* is client_sock open?
  req,      \* the request being made
  owed,     \* history: the request whose answer was not yet read from the socket
  user,     \* user_id
  draft,    \* id and choice of the login screen
  meant,    \* the name and the password the player wants to log in with
  sigint,   \* sigint_received
  game,     \* sigint_game_exit_requested
  running,  \* is_game_running
  store,    \* g_word_manager: "none", "empty" or "loaded"
  table,    \* the mutex of g_active_words: "raw", "ready" or "destroyed"
  nodelay   \* does getch return at once?

vars == <<pc, after, sock, req, owed, user, draft, meant, sigint, game, running,
          store, table, nodelay>>
place == <<pc, after>>
conn == <<sock, req, owed>>
form == <<draft, meant>>
flags == <<sigint, game, running>>
round == <<store, table, nodelay>>

-----------------------------------------------------------------------------
PCs == {"boot", "connect", "connfail", "auth", "authkey", "id", "pw", "ask",
        "reply", "key", "menu", "menukey", "confirm", "small", "round", "over",
        "exited"}
Afters == {"none", "auth", "menu", "page2", "loadfail", "bye", "quit"}

NoRequest == [type |-> "none"]
AuthRequest == [type : {"register", "login"}, user : Name,
                pw : {Hash[p] : p \in Password}]
MenuRequest == [type : {"score", "leaderboard", "wordlist", "logout"}]
Request == AuthRequest \cup MenuRequest \cup {NoRequest}

NoDraft == [choice |-> "none", id |-> NoUser]
Draft == [choice : {"none", "login", "register"}, id : Name \cup {NoUser}]
NoLogin == [user |-> NoUser, pw |-> NoPassword]
Login == [user : Name \cup {NoUser}, pw : Password]

Init ==
  /\ pc = "boot" /\ after = "none"
  /\ sock = FALSE /\ req = NoRequest /\ owed = "none"
  /\ user = NoUser
  /\ draft = NoDraft /\ meant = NoLogin
  /\ sigint = FALSE /\ game = FALSE /\ running = FALSE
  /\ store = "none" /\ table = "raw" /\ nodelay = FALSE

-----------------------------------------------------------------------------
(* Ctrl+C, and the two ways on from anywhere.                              *)

\* handle_sigint.
HandleSigint ==
  /\ pc # "exited"
  /\ IF running THEN ~game /\ game' = TRUE /\ UNCHANGED sigint
                ELSE ~sigint /\ sigint' = TRUE /\ UNCHANGED game
  /\ UNCHANGED <<place, conn, user, form, running, round>>

Goto(step) == pc' = step /\ after' = "none"

\* wait_for_key_or_signal, after which main goes on at step.
WaitThen(step) == pc' = "key" /\ after' = step

\* perform_cleanup_and_exit: it also destroys a mutex that was never made, or
\* was destroyed after the last round.
Exit ==
  /\ Goto("exited")
  /\ running' = FALSE
  /\ store' = "none"
  /\ table' = "destroyed"
  /\ sock' = FALSE /\ req' = NoRequest /\ owed' = "none"
  /\ draft' = NoDraft /\ meant' = NoLogin
  /\ UNCHANGED <<user, sigint, game, nodelay>>

\* getch may return ERR: when it does not wait, or when a signal has come.
GetchErr == nodelay \/ sigint \/ game

-----------------------------------------------------------------------------
(* main up to the login screen.                                            *)

Boot ==
  /\ pc = "boot"
  /\ \/ /\ Goto("connect")
        /\ store' = "empty"
        /\ UNCHANGED <<conn, user, form, flags, table, nodelay>>
     \/ {"crypto", "memory"} \cap MayFail # {} /\ Exit

MutInterrupted == FALSE
Interrupted == sigint

\* The top of main's loop, connect_to_server, and auth_ui_main up to its loop,
\* which is left again when there is no crypto system.
Connect ==
  /\ pc = "connect" /\ ~Interrupted
  /\ game' = FALSE
  /\ \/ /\ sock' = TRUE
        /\ user' = NoUser
        /\ \/ Goto("auth")
           \/ "crypto" \in MayFail /\ WaitThen("quit")
     \/ "connect" \in MayFail /\ Goto("connfail") /\ UNCHANGED <<sock, user>>
  /\ UNCHANGED <<req, owed, form, sigint, running, round>>

\* Where main finds sigint_received set at the top of a loop.
Quit == pc \in {"connect", "auth", "menu"} /\ Interrupted /\ Exit

ConnectFailed == pc = "connfail" /\ Exit

-----------------------------------------------------------------------------
(* auth_ui_main.                                                           *)

AuthMenu ==
  /\ pc = "auth" /\ ~Interrupted
  /\ Goto("authkey")
  /\ UNCHANGED <<conn, user, form, flags, round>>

AuthChoice ==
  /\ pc = "authkey"
  /\ \/ \E choice \in {"login", "register"} :
          /\ draft' = [choice |-> choice, id |-> NoUser]
          /\ Goto("id")
          /\ UNCHANGED <<conn, user, meant, flags, round>>
     \/ /\ \/ GetchErr /\ Goto("auth")
           \/ WaitThen("auth")
        /\ UNCHANGED <<conn, user, form, flags, round>>
     \/ Exit

\* Both fields look at sigint_received before each key and after the last.
LeaveField == pc \in {"id", "pw"} /\ Interrupted /\ Exit

EnterId ==
  /\ pc = "id" /\ ~Interrupted
  /\ Goto("pw")
  /\ \E n \in Name, p \in Password :
       /\ meant' = [user |-> n, pw |-> p]
       /\ draft' = [draft EXCEPT !.id = Kept[n]]
  /\ UNCHANGED <<conn, user, flags, round>>

\* The last key a field has room for ends it.  What the player types of a full name
\* behind it goes to the password field, and the Enter ends that one; a player who
\* sees the other field in time types the password.
PasswordsRead ==
  {KeptPw[meant.pw]}
    \cup (IF meant.user \in Full THEN {KeptPw[Spill[meant.user]]} ELSE {})

MutAuthRequestPlain(p) == [type |-> draft.choice, user |-> draft.id, pw |-> p]
MutAuthRequestWiped(p) == [type |-> draft.choice, user |-> draft.id, pw |-> Hash[NoPassword]]
AuthRequestOf(p) == [type |-> draft.choice, user |-> draft.id, pw |-> Hash[p]]

\* The password is hashed, and the request is made.
EnterPassword ==
  /\ pc = "pw" /\ ~Interrupted
  /\ \/ /\ Goto("ask")
        /\ \E p \in PasswordsRead : req' = AuthRequestOf(p)
        /\ UNCHANGED form
     \/ "crypto" \in MayFail /\ WaitThen("auth") /\ UNCHANGED req
                             /\ draft' = NoDraft /\ meant' = NoLogin
  /\ UNCHANGED <<sock, owed, user, flags, round>>

-----------------------------------------------------------------------------
(* send_request_and_receive_response, and what its callers do with the     *)
(* outcome: "yes" and "no" are answers, "fail" is a negative return value. *)

MenuAsk(type) ==
  /\ Goto("ask")
  /\ req' = [type |-> type]

MutNeedsWords == store = "none"
NeedsWords == store # "loaded"

RequestDone == req' = NoRequest /\ draft' = NoDraft /\ meant' = NoLogin

\* run_rain_typing_game up to its loop.  A table without a mutex ends it at once;
\* a small screen, or no other mutexes, after a key.
StartRound ==
  \/ /\ Goto("round")
     /\ running' = TRUE
     /\ table' = "ready"
     /\ nodelay' = TRUE
  \/ /\ "screen" \in MayFail
     /\ Goto("small")
     /\ running' = TRUE
     /\ table' = "destroyed"
     /\ nodelay' = FALSE
  \/ /\ "memory" \in MayFail
     /\ WaitThen("menu")
     /\ running' = FALSE
     /\ UNCHANGED <<table, nodelay>>

LoadFailed == WaitThen("loadfail") /\ UNCHANGED <<running, table, nodelay>>

\* load_words_from_response empties the store before it copies the words: when
\* memory runs out it is what it was, freed, or without a word.
StoreAfterFailure == {store, "none", "empty"}

\* load_words_from_server.
LoadWords(outcome) ==
  \/ outcome = "yes" /\ store' = "loaded" /\ StartRound
  \/ /\ outcome = "yes" /\ "memory" \in MayFail
     /\ store' \in StoreAfterFailure
     /\ LoadFailed
  \/ outcome # "yes" /\ LoadFailed /\ UNCHANGED store

UserAfter(outcome) ==
  IF outcome = "yes" /\ req.type = "login" THEN req.user
  ELSE IF outcome = "yes" /\ req.type = "logout" THEN NoUser
  ELSE user

StepAfter(outcome) ==
  IF req.type \in {"login", "register"} /\ ~(req.type = "login" /\ outcome = "yes")
    THEN "auth"
  ELSE IF req.type = "logout" /\ outcome = "yes" THEN "bye" ELSE "menu"

Proceed(outcome) ==
  /\ RequestDone
  /\ user' = UserAfter(outcome)
  /\ IF req.type = "wordlist" THEN LoadWords(outcome)
     ELSE WaitThen(StepAfter(outcome)) /\ UNCHANGED <<running, round>>
  /\ UNCHANGED <<sigint, game>>

MutDisconnect == UNCHANGED <<sock, owed>>
Disconnect == sock' = FALSE /\ owed' = "none"

\* A failed send or recv.  Every caller looks at sigint_received first, which
\* also makes a request fail that was never sent, or whose answer is there.
Fail == IF Interrupted THEN Exit ELSE Disconnect /\ Proceed("fail")

\* The request is sent, or it is not: no connection, Ctrl+C, or send fails.
Ask ==
  /\ pc = "ask"
  /\ \/ /\ sock /\ ~sigint
        /\ Goto("reply")
        /\ owed' = req.type
        /\ UNCHANGED <<sock, req, user, form, flags, round>>
     \/ Fail

\* A whole answer is there.  An error or a wrong type is reported as a failure on
\* a connection that stays.
Receive ==
  /\ pc = "reply"
  /\ ~Interrupted
  /\ \E outcome \in {"yes", "no", "fail"} : Proceed(outcome)
  /\ owed' = "none"
  /\ UNCHANGED sock

\* The connection is lost while the client waits, or Ctrl+C was pressed.
ReceiveFails == pc = "reply" /\ Fail

-----------------------------------------------------------------------------
(* The menu.                                                               *)

Menu ==
  /\ pc = "menu" /\ ~Interrupted
  /\ Goto("menukey")
  /\ game' = FALSE
  /\ UNCHANGED <<conn, user, form, sigint, running, round>>

\* The first option: is_game_running is set, the words are loaded if need be.
StartGame ==
  /\ pc = "menukey"
  /\ IF NeedsWords
       THEN MenuAsk("wordlist") /\ running' = TRUE /\ UNCHANGED <<table, nodelay>>
       ELSE StartRound /\ UNCHANGED req
  /\ UNCHANGED <<sock, owed, user, form, sigint, game, store>>

\* The other options; ERR counts as an invalid one.
Choose ==
  /\ pc = "menukey"
  /\ \/ \E type \in {"leaderboard", "logout"} : MenuAsk(type)
     \/ \E step \in {"page2", "menu"} : WaitThen(step) /\ UNCHANGED req
     \/ Goto("confirm") /\ UNCHANGED req
  /\ UNCHANGED <<sock, owed, user, form, flags, round>>

Confirm ==
  /\ pc = "confirm"
  /\ \/ Exit
     \/ /\ ~Interrupted
        /\ Goto("menu")
        /\ UNCHANGED <<conn, user, form, flags, round>>

MutRunningAfterKey == running
RunningAfterKey == running /\ after # "loadfail"

\* wait_for_key_or_signal returns.
KeyPressed ==
  /\ pc = "key" /\ ~Interrupted /\ after # "quit"
  /\ IF after = "page2" THEN WaitThen("menu")
     ELSE Goto(IF after = "auth" THEN "auth" ELSE IF after = "bye" THEN "connect" ELSE "menu")
  /\ sock' = (sock /\ after # "bye")
  /\ running' = RunningAfterKey
  /\ UNCHANGED <<req, owed, user, form, sigint, game, round>>

KeyPressedQuit == pc = "key" /\ (Interrupted \/ after = "quit") /\ Exit

-----------------------------------------------------------------------------
(* A round, as main sees it.                                               *)

\* The player dismisses the message; nodelay is left on.
SmallScreen ==
  /\ pc = "small"
  /\ IF Interrupted THEN Exit
     ELSE /\ WaitThen("menu")
          /\ running' = FALSE
          /\ nodelay' = TRUE
          /\ UNCHANGED <<conn, user, form, sigint, game, store, table>>

MutRoundEnds ==
  /\ pc = "round"
  /\ Goto(IF game THEN "round" ELSE "over")
  /\ nodelay' = game
  /\ UNCHANGED <<conn, user, form, flags, store, table>>

\* The loop ends: the game is over, or the Ctrl+C flag was seen.
RoundEnds ==
  /\ pc = "round"
  /\ Goto("over")
  /\ nodelay' = FALSE
  /\ UNCHANGED <<conn, user, form, flags, store, table>>

\* A key, safe_game_cleanup, and the score is submitted.
RoundOver ==
  /\ pc = "over"
  /\ IF Interrupted THEN Exit
     ELSE /\ MenuAsk("score")
          /\ running' = FALSE
          /\ store' = "none"
          /\ table' = "destroyed"
          /\ UNCHANGED <<sock, owed, user, form, sigint, game, nodelay>>

\* The player starts the program again.
Launch ==
  /\ pc = "exited"
  /\ pc' = "boot"
  /\ user' = NoUser
  /\ sigint' = FALSE /\ game' = FALSE
  /\ table' = "raw" /\ nodelay' = FALSE
  /\ UNCHANGED <<after, conn, form, running, store>>

-----------------------------------------------------------------------------
Screens ==
  \/ Boot \/ Connect \/ Quit \/ ConnectFailed
  \/ AuthMenu \/ AuthChoice \/ LeaveField \/ EnterId \/ EnterPassword
  \/ Ask \/ Receive \/ ReceiveFails
  \/ Menu \/ StartGame \/ Choose \/ Confirm \/ KeyPressed \/ KeyPressedQuit
  \/ SmallScreen \/ RoundOver

Next == HandleSigint \/ Screens \/ RoundEnds \/ Launch

Spec == Init /\ [][Next]_vars

\* The main thread runs, the player presses the keys it waits for, and a request
\* is answered or its connection breaks.  A round ends when Ctrl+C was pressed;
\* otherwise it may go on for ever.
FairSpec ==
  /\ Spec
  /\ WF_vars(Screens)
  /\ WF_vars(RoundEnds /\ (game \/ sigint))

-----------------------------------------------------------------------------
(* Properties.                                                             *)

\* Every variable stays in its range; a password is hashed before it is part of
\* a request (auth_ui.c:183).
TypeOK ==
  /\ pc \in PCs /\ after \in Afters
  /\ sock \in BOOLEAN /\ req \in Request
  /\ owed \in {r.type : r \in Request}
  /\ user \in Name \cup {NoUser}
  /\ draft \in Draft /\ meant \in Login
  /\ sigint \in BOOLEAN /\ game \in BOOLEAN /\ running \in BOOLEAN
  /\ store \in {"none", "empty", "loaded"}
  /\ table \in {"raw", "ready", "destroyed"}
  /\ nodelay \in BOOLEAN

\* What case '1' of the menu does while is_game_running is set.
InCaseOne ==
  \/ pc \in {"round", "over", "small"}
  \/ req.type = "wordlist"
  \/ after = "loadfail"

\* A round is played by a user who has logged in, with words to spawn and a
\* table to keep them: spawn_word returns silently without words, and the round
\* would never end.  The word list is freed after each round, emptied by a load
\* that fails, and kept by a round that could not start.
RoundHasWords ==
  /\ pc \in {"round", "over"} => store = "loaded" /\ user # NoUser
  /\ table = "ready" <=> pc \in {"round", "over"}

\* handle_sigint goes by is_game_running: Ctrl+C is for the round, and never for
\* the program, from the start of case '1' until the round has returned, and for
\* the program everywhere else, on whatever path case '1' was left before; and a
\* Ctrl+C meant for one round is forgotten before the next case '1' begins.
CtrlCIsRouted ==
  [][/\ ~sigint /\ sigint' => ~InCaseOne
     /\ ~game /\ game' => InCaseOne
     /\ ~running /\ running' => ~game']_vars

\* The inductive invariant of the client: what the properties need and do not
\* say.  A Ctrl+C meant for one round is forgotten before the next one can start,
\* only a request being made fills req, the form and owed, the menu is for users
\* who have logged in, and nothing is open or running when the program has ended.
ClientInvariant ==
  /\ running <=> InCaseOne
  /\ pc = "menukey" => ~game
  /\ pc = "key" <=> after # "none"
  /\ pc \in {"ask", "reply"} <=> req # NoRequest
  /\ owed = IF pc = "reply" THEN req.type ELSE "none"
  /\ pc = "reply" => sock
  /\ pc \in {"boot", "connect", "exited"} => ~sock
  /\ \/ pc \in {"menu", "menukey", "confirm", "small", "round", "over"}
     \/ req \in MenuRequest
     \/ after \in {"menu", "page2", "loadfail"}
     => user # NoUser
  /\ \/ pc \in {"boot", "connect", "auth", "authkey", "id", "pw"}
     \/ req \in AuthRequest
     \/ after \in {"auth", "bye", "quit"}
     => user = NoUser
  /\ pc \in {"id", "pw"} \/ req \in AuthRequest => draft.choice # "none"
  /\ pc = "pw" \/ req \in AuthRequest =>
       draft.id = Kept[meant.user] /\ meant.user \in Name

\* The login screen asks for what the player typed, as far as the fields hold it: a
\* name of fewer than MAX_ID_LEN - 1 characters goes out whole with its own
\* password, or the first characters of one that is too long.  Of a longer name the
\* head goes out, and with it what was typed behind the ID field, or nothing, may
\* pass for the password.
SentAsTyped ==
  pc \in {"ask", "reply"} /\ req.type \in {"login", "register"} =>
    /\ req.user = Kept[meant.user]
    /\ \/ req.pw = Hash[KeptPw[meant.pw]]
       \/ meant.user \in Full /\ req.pw = Hash[KeptPw[Spill[meant.user]]]

\* The client keeps to the protocol ServerSessions assumes of its clients: after
\* a request that failed, at whatever point, nothing is asked on the connection
\* whose answer may still come, and a name is on the menu only while the server
\* has answered its login on this very connection.
Peer == INSTANCE PeerProtocol WITH
  Conn <- {1},
  phase <- [c \in {1} |-> IF ~sock THEN "closed"
                          ELSE IF user # NoUser THEN "menu"
                          ELSE IF after = "bye" THEN "bye" ELSE "auth"],
  asked <- [c \in {1} |-> owed]

ImplementsPeerProtocol == Peer!Spec

\* A Ctrl+C outside a round ends the program, wherever main was waiting: each
\* loop and each caller looks at sigint_received before it waits again.
QuitIsHonoured == sigint ~> pc = "exited"

\* A Ctrl+C in a round leads back to the menu (how_to_play_ui.c:81), through the
\* cleanup and the submission of the score.
InterruptReturnsToMenu == (pc = "round" /\ game) ~> pc \in {"menu", "exited"}

=============================================================================
