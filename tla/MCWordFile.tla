------------------------------ MODULE MCWordFile ------------------------------
EXTENDS WordFile

CONSTANTS
  MaxLineLen,   \* the longest line of an administrator's file (bound)
  MaxLines      \* lines of such a file (bound)

MCLine == [len : 0..MaxLineLen, cr : {0, 1}]
MCFiles == UNION {[1..n -> MCLine] : n \in 0..MaxLines}
MCDefaults == <<[len |-> 1, cr |-> 0], [len |-> 1, cr |-> 0]>>
=============================================================================
