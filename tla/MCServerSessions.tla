-------------------------- MODULE MCServerSessions --------------------------
(***************************************************************************)
(* Instances of ServerSessions for TLC.                                    *)
(***************************************************************************)
EXTENDS ServerSessions, TLC

CONSTANTS c1, c2, u1, u2, u3, p1

ASSUME DistinctNames == Cardinality({u1, u2, u3}) = 3

\* Every name is plain.
PlainNames == [u \in User |-> u]

\* u2 stands for a name that begins with u1 and a ':'.
NameWithColon == [u \in User |-> IF u = u2 THEN u1 ELSE u]

\* Which connection makes no difference.
Alike == Permutations({c1, c2})
=============================================================================
