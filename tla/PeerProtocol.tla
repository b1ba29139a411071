----------------------------- MODULE PeerProtocol -----------------------------
(***************************************************************************)
(* How a client uses its connections, which is all that client and server  *)
(* assume of each other: it logs in before it asks for anything else, it   *)
(* asks for one thing at a time and waits for the answer, it asks nothing  *)
(* more once it has logged out, and after a request that failed it closes  *)
(* the connection before it asks again.                                    *)
(*                                                                         *)
(* ClientApp implements it for the one connection of a client program, and *)
(* ServerSessions, whose clients are part of the model, for all of its     *)
(* connections: the server is checked against clients that exist.          *)
(***************************************************************************)
CONSTANT Conn

VARIABLES
  phase,  \* what the client of each connection takes itself to be
  asked   \* the request it has sent and that is not yet answered

vars == <<phase, asked>>

Phases == {"closed", "auth", "menu", "bye"}

Askable(p) ==
  IF p = "auth" THEN {"register", "login"}
  ELSE IF p = "menu" THEN {"score", "leaderboard", "wordlist", "logout"}
  ELSE {}

TypeOK ==
  /\ phase \in [Conn -> Phases]
  /\ asked \in [Conn -> {"none"} \cup Askable("auth") \cup Askable("menu")]

Init ==
  /\ phase = [c \in Conn |-> "closed"]
  /\ asked = [c \in Conn |-> "none"]

Connect(c) ==
  /\ phase[c] = "closed"
  /\ phase' = [phase EXCEPT ![c] = "auth"]
  /\ UNCHANGED asked

Ask(c, type) ==
  /\ asked[c] = "none"
  /\ type \in Askable(phase[c])
  /\ asked' = [asked EXCEPT ![c] = type]
  /\ UNCHANGED phase

\* An answer that grants a login or a logout takes the client on; any other
\* leaves it where it is.
Answer(c) ==
  /\ asked[c] # "none"
  /\ asked' = [asked EXCEPT ![c] = "none"]
  /\ \/ UNCHANGED phase
     \/ asked[c] = "login" /\ phase' = [phase EXCEPT ![c] = "menu"]
     \/ asked[c] = "logout" /\ phase' = [phase EXCEPT ![c] = "bye"]

Close(c) ==
  /\ phase[c] # "closed"
  /\ phase' = [phase EXCEPT ![c] = "closed"]
  /\ asked' = [asked EXCEPT ![c] = "none"]

\* The server ends, and every connection with it.
CloseAll ==
  /\ phase' = [c \in Conn |-> "closed"]
  /\ asked' = [c \in Conn |-> "none"]

Next ==
  \/ \E c \in Conn :
       \/ Connect(c) \/ Answer(c) \/ Close(c)
       \/ \E type \in Askable("auth") \cup Askable("menu") : Ask(c, type)
  \/ CloseAll

Spec == Init /\ [][Next]_vars
=============================================================================
