----------------------------- MODULE LoginService -----------------------------
(***************************************************************************)
(* What the server promises about accounts and sessions, with no threads,  *)
(* files, slots or replies: an account once created keeps its password, a  *)
(* connection gets a session only with the password of its account, at     *)
(* most Capacity sessions exist at once, and a crash loses the sessions    *)
(* and none of the accounts.  When the store is damaged, accounts that     *)
(* are firm stay as they are; what else opens is anybody's guess.          *)
(*                                                                         *)
(* It does not promise one session per account: the code does not keep     *)
(* that promise (see SingleSessionPerUser in ServerSessions).              *)
(***************************************************************************)
EXTENDS Naturals, FiniteSets

CONSTANTS Conn, User, NoUser, Password, Capacity

VARIABLES
  accounts,   \* the names that are taken
  firm,       \* the accounts that no damage can reach any more
  opens,      \* the passwords that open each account: one, or none
  session,    \* the user each connection is logged in as
  intact      \* has the store never been damaged?

vars == <<accounts, firm, opens, session, intact>>

TypeOK ==
  /\ accounts \subseteq User
  /\ firm \subseteq accounts
  /\ opens \in [User -> SUBSET Password]
  /\ session \in [Conn -> User \cup {NoUser}]
  /\ intact \in BOOLEAN

Sessions == {c \in Conn : session[c] # NoUser}

Init ==
  /\ accounts = {} /\ firm = {}
  /\ opens = [u \in User |-> {}]
  /\ session = [c \in Conn |-> NoUser]
  /\ intact = TRUE

AtMostOne == {{}} \cup {{p} : p \in Password}

\* The name is taken, by an account that one password opens, or none when the
\* account is unusable.
CreateAccount(u) ==
  /\ accounts' = accounts \cup {u}
  /\ firm' = firm \cup {u}
  /\ \E P \in AtMostOne : opens' = [opens EXCEPT ![u] = P]
  /\ UNCHANGED <<session, intact>>

\* A write breaks off, or a later one meets what it left: accounts that are not
\* firm may appear, change and vanish.
Damage ==
  /\ intact' = FALSE
  /\ UNCHANGED session
  /\ accounts' \in SUBSET User
  /\ firm' \in SUBSET accounts'
  /\ opens' \in [User -> AtMostOne]
  /\ \A u \in firm : u \in firm' /\ opens'[u] = opens[u]

\* A damaged store may have let the password pass and lost the account since.
LogIn(c, u, p) ==
  /\ session[c] = NoUser
  /\ intact => u \in accounts /\ p \in opens[u]
  /\ Cardinality(Sessions) < Capacity
  /\ session' = [session EXCEPT ![c] = u]
  /\ UNCHANGED <<accounts, firm, opens, intact>>

LogOut(c) ==
  /\ session[c] # NoUser
  /\ session' = [session EXCEPT ![c] = NoUser]
  /\ UNCHANGED <<accounts, firm, opens, intact>>

LoseSessions ==
  /\ session' = [c \in Conn |-> NoUser]
  /\ UNCHANGED <<accounts, firm, opens, intact>>

Next ==
  \/ Damage
  \/ \E u \in User \ accounts : CreateAccount(u)
  \/ \E c \in Conn, u \in User, p \in Password : LogIn(c, u, p)
  \/ \E c \in Conn : LogOut(c)
  \/ LoseSessions

Spec == Init /\ [][Next]_vars
=============================================================================
