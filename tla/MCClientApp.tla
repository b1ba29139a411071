----------------------------- MODULE MCClientApp -----------------------------
(***************************************************************************)
(* An instance of ClientApp for TLC: a short name n1, one that just fills  *)
(* the ID field n2, and one n3 that begins with it; no password p0, one p1 *)
(* that fits its field, and one p2 that begins with p1 and does not fit.   *)
(***************************************************************************)
EXTENDS ClientApp

CONSTANTS n1, n2, n3, p0, p1, p2, h0, h1, h2

MCKept == [n \in {n1, n2, n3} |-> IF n = n3 THEN n2 ELSE n]
MCSpill == [n \in {n2, n3} |-> IF n = n3 THEN p2 ELSE p0]
MCKeptPw == [p \in {p0, p1, p2} |-> IF p = p2 THEN p1 ELSE p]
MCHash == [p \in {p0, p1, p2} |-> IF p = p0 THEN h0 ELSE IF p = p1 THEN h1 ELSE h2]
=============================================================================
