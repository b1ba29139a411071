----------------------------- MODULE MCRainGame -----------------------------
(***************************************************************************)
(* Instances of RainGame for TLC.                                          *)
(***************************************************************************)
EXTENDS RainGame

CONSTANTS w1, w2, long, t1, t2

\* w1 and w2 are shown whole; long is a word that is cut to t2.
MCShown == [p \in Pick |-> IF p = w1 THEN t1 ELSE t2]
MCLength == [t \in Text |-> IF t = t1 THEN 1 ELSE 2]
=============================================================================
