---------------------------- MODULE WordFile_proofs ----------------------------
(***************************************************************************)
(* Proofs of the safety properties of WordFile: for every file, every line *)
(* length and every list size, what the server serves are ends of lines of *)
(* its file, and a file of proper lines is served and kept.                *)
(***************************************************************************)
EXTENDS WordFile, Loops, TLAPS

\* While the file is read: no read has failed, the reader is within a line, the
\* lines of the words are behind it, and of a clean file every line behind it is
\* a word.
ReaderInv ==
  pc = "read" =>
    /\ ~cut
    /\ next.line <= Len(file) => next.from <= file[next.line].len + file[next.line].cr
    /\ \A k \in 1..Len(list) : list[k].line < next.line
    /\ Clean(file) =>
         /\ next = [line |-> Len(list) + 1, from |-> 0]
         /\ Len(list) <= Len(file)
         /\ \A k \in 1..Len(list) : list[k] = [line |-> k, from |-> 0, len |-> file[k].len]

\* A file that is not there has no lines, and is made before it is appended to.
FileInv ==
  /\ ~present => file = << >>
  /\ pc = "append" => present

WordInv ==
  /\ TypeOK /\ ServesWords /\ WordsEndLines /\ CleanFileIsServed
  /\ ReaderInv /\ FileInv

LEMMA WordInit == Init => WordInv
<1> SUFFICES ASSUME Init PROVE WordInv
  OBVIOUS
<1> USE WordFileAssumption DEF Init
<1>1. TypeOK
  <2>1. file \in Seq(Line)
    <3>1. CASE present
      BY <3>1
    <3>2. CASE ~present
      BY <3>2
    <3> QED
      BY <3>1, <3>2
  <2>2. next \in [line : Nat \ {0}, from : Nat]
    BY DEF FirstLine
  <2>3. faults \in 0..MaxFaults
    BY DEF TypeOK
  <2>4. list \in Seq([line : Nat, from : Nat, len : Nat])
    OBVIOUS
  <2> QED
    BY <2>1, <2>2, <2>3, <2>4 DEF TypeOK, PCs
<1>2. ServesWords /\ WordsEndLines /\ CleanFileIsServed /\ ReaderInv
  BY DEF ServesWords, WordsEndLines, CleanFileIsServed, ReaderInv
<1>3. FileInv
  BY DEF FileInv
<1> QED
  BY <1>1, <1>2, <1>3 DEF WordInv

\* What one turn of the loop reads.
LEMMA PieceFacts ==
  ASSUME TypeOK, ReaderInv, pc = "read", ~AtEnd
  PROVE  /\ next.line \in 1..Len(file)
         /\ file[next.line] \in Line
         /\ Piece(next) \in [line : Nat, from : Nat, len : Nat]
         /\ Piece(next).line = next.line /\ Piece(next).from = next.from
         /\ After(next) \in [line : Nat \ {0}, from : Nat]
         /\ After(next).line >= next.line
         /\ After(next).line <= Len(file) =>
              After(next).from <= file[After(next).line].len + file[After(next).line].cr
         /\ IsWord(Piece(next)) =>
              /\ next.from + Piece(next).len = file[next.line].len
              /\ After(next) = [line |-> next.line + 1, from |-> 0]
         /\ Clean(file) /\ next.from = 0 =>
              /\ IsWord(Piece(next))
              /\ Piece(next) = [line |-> next.line, from |-> 0, len |-> file[next.line].len]
<1> USE WordFileAssumption
<1>1. next.line \in 1..Len(file) /\ Left(next) # 0
  BY DEF AtEnd, TypeOK
<1> DEFINE l == file[next.line]
<1>2. l \in Line /\ l.len \in Nat /\ l.cr \in {0, 1}
  <2>1. l \in Line
    BY <1>1 DEF TypeOK
  <2> QED
    BY <2>1 DEF Line
<1>3. next.from \in Nat /\ next.line \in Nat /\ next.from <= l.len + l.cr
  BY <1>1 DEF TypeOK, ReaderInv
<1>4. Left(next) = l.len + l.cr - next.from /\ Left(next) \in Nat \ {0}
  BY <1>1, <1>2, <1>3 DEF Left
<1> HIDE DEF l
<1>5. Room \in Nat /\ Room = MaxLen + 1
  BY DEF Room
<1>6. Chunk(next) \in Nat /\ Chunk(next) = IF Left(next) < Room THEN Left(next) ELSE Room
  BY <1>4, <1>5 DEF Chunk
<1> DEFINE letters == IF l.len < next.from THEN 0 ELSE l.len - next.from
<1>7. letters \in Nat
  BY <1>2, <1>3
<1>8. Piece(next) = [line |-> next.line, from |-> next.from,
                     len |-> IF letters < Chunk(next) THEN letters ELSE Chunk(next)]
  BY DEF Piece, l
<1>9. Piece(next).len = IF letters < Chunk(next) THEN letters ELSE Chunk(next)
  BY <1>8
<1>10. /\ Piece(next) \in [line : Nat, from : Nat, len : Nat]
       /\ Piece(next).line = next.line /\ Piece(next).from = next.from
  BY <1>3, <1>6, <1>7, <1>8
<1>11. CASE Left(next) < Room
  <2>1. After(next) = [line |-> next.line + 1, from |-> 0]
    BY <1>11 DEF After
  <2>2. After(next).line <= Len(file) =>
          After(next).from <= file[After(next).line].len + file[After(next).line].cr
    <3> SUFFICES ASSUME next.line + 1 <= Len(file)
                 PROVE  0 <= file[next.line + 1].len + file[next.line + 1].cr
      BY <2>1
    <3>1. file[next.line + 1] \in Line
      BY <1>3 DEF TypeOK
    <3> QED
      BY <3>1 DEF Line
  <2>3. IsWord(Piece(next)) => next.from + Piece(next).len = l.len
    BY <1>2, <1>3, <1>4, <1>6, <1>9, <1>11 DEF IsWord
  <2>4. Clean(file) /\ next.from = 0 => IsWord(Piece(next)) /\ Piece(next).len = l.len
    <3> SUFFICES ASSUME Clean(file), next.from = 0
                 PROVE  IsWord(Piece(next)) /\ Piece(next).len = l.len
      OBVIOUS
    <3>1. l.len \in 1..(MaxLen - 1)
      BY <1>1 DEF Clean, l
    <3>2. Piece(next).len = l.len
      BY <1>2, <1>4, <1>6, <1>9, <1>11, <3>1
    <3> QED
      BY <3>1, <3>2 DEF IsWord
  <2>5. /\ After(next) \in [line : Nat \ {0}, from : Nat]
        /\ After(next).line >= next.line
    BY <1>3, <2>1
  <2>6. Clean(file) /\ next.from = 0 =>
          Piece(next) = [line |-> next.line, from |-> 0, len |-> l.len]
    BY <1>8, <1>9, <2>4
  <2> QED
    BY <1>1, <1>2, <1>10, <2>1, <2>2, <2>3, <2>4, <2>5, <2>6 DEF l
<1>12. CASE ~(Left(next) < Room)
  <2>1. After(next) = [line |-> next.line, from |-> next.from + Room]
    BY <1>12 DEF After
  <2>2. next.from + Room <= l.len + l.cr
    BY <1>2, <1>3, <1>4, <1>5, <1>12
  <2>3. ~IsWord(Piece(next))
    BY <1>2, <1>3, <1>4, <1>5, <1>6, <1>9, <1>12 DEF IsWord
  <2>4. ~(Clean(file) /\ next.from = 0)
    <3> SUFFICES ASSUME Clean(file), next.from = 0
                 PROVE  FALSE
      OBVIOUS
    <3>1. l.len \in 1..(MaxLen - 1)
      BY <1>1 DEF Clean, l
    <3> QED
      BY <1>2, <1>4, <1>5, <1>12, <3>1
  <2> QED
    BY <1>1, <1>2, <1>3, <1>5, <1>10, <2>1, <2>2, <2>3, <2>4 DEF l
<1> QED
  BY <1>11, <1>12

-----------------------------------------------------------------------------
(* Type correctness.                                                       *)

LEMMA TypeStep ==
  ASSUME WordInv, [Next]_vars
  PROVE  TypeOK'
<1> USE WordFileAssumption DEF WordInv
<1>1. TypeOK
  OBVIOUS
<1>2. FirstLine \in [line : Nat \ {0}, from : Nat]
  BY DEF FirstLine
<1>3. << >> \in Seq([line : Nat, from : Nat, len : Nat]) /\ << >> \in Seq(Line)
  OBVIOUS
<1>4. ASSUME Die, present' \in BOOLEAN, file' \in Seq(Line)
      PROVE  TypeOK'
  <2>1. faults' \in 0..MaxFaults
    BY <1>4 DEF Die
  <2> QED
    BY <1>2, <1>3, <1>4, <2>1 DEF Die, TypeOK, PCs
<1>5. CASE Edit
  <2>1. file' \in Seq(Line)
    BY <1>3, <1>5 DEF Edit
  <2> QED
    BY <1>1, <1>5, <2>1 DEF Edit, TypeOK, load
<1>6. CASE Start \/ CheckEmpty \/ CloseDefaults \/ EndOfList
  BY <1>1, <1>6 DEF Start, CheckEmpty, CloseDefaults, EndOfList, EndRead, Goto,
     WriteDefaultsThen, disk, load, TypeOK, PCs
<1>7. CASE Open
  BY <1>1, <1>2, <1>3, <1>7 DEF Open, BeginRead, WriteDefaultsThen, disk, load, TypeOK, PCs
<1>8. CASE ReadLine
  <2>1. /\ Piece(next) \in [line : Nat, from : Nat, len : Nat]
        /\ After(next) \in [line : Nat \ {0}, from : Nat]
    BY <1>8, PieceFacts DEF ReadLine
  <2> DEFINE W == [line : Nat, from : Nat, len : Nat]
  <2>2. list' = list \/ list' = Append(list, Piece(next))
    BY <1>8 DEF ReadLine
  <2>3. list \in Seq(W) /\ Piece(next) \in W
    BY <1>1, <2>1 DEF TypeOK
  <2> HIDE DEF W
  <2>4. list' \in Seq(W)
    BY <2>2, <2>3
  <2> QED
    BY <1>1, <1>8, <2>1, <2>4 DEF ReadLine, TypeOK, disk, W
<1>9. CASE ReadFails
  BY <1>1, <1>9 DEF ReadFails, TypeOK, PCs, disk
<1>10. CASE Truncate
  BY <1>1, <1>3, <1>10 DEF Truncate, TypeOK, PCs, load
<1>11. CASE AppendDefault
  <2>1. Len(file) + 1 \in 1..Len(Defaults)
    BY <1>1, <1>11 DEF AppendDefault, TypeOK
  <2>2. DefaultLine(Len(file) + 1) \in Line
    BY <2>1 DEF DefaultLine
  <2>3. file' \in Seq(Line)
    BY <1>1, <1>11, <2>2 DEF AppendDefault, TypeOK
  <2> QED
    BY <1>1, <1>11, <2>3 DEF AppendDefault, TypeOK, load
<1>12. CASE AppendFails
  <2>1. Len(file) + 1 \in 1..Len(Defaults)
    BY <1>1, <1>12 DEF AppendFails, TypeOK
  <2>2. Defaults[Len(file) + 1] \in Line
    BY <2>1
  <2>3. PICK n \in 0..Defaults[Len(file) + 1].len :
          file' = IF n = 0 THEN file ELSE Append(file, [len |-> n, cr |-> 0])
    BY <1>12 DEF AppendFails
  <2>4. [len |-> n, cr |-> 0] \in Line
    BY <2>2, <2>3 DEF Line
  <2>5. file' \in Seq(Line)
    BY <1>1, <2>3, <2>4 DEF TypeOK
  <2> QED
    BY <1>1, <1>4, <1>12, <2>5 DEF AppendFails, TypeOK
<1>13. CASE OpenOrCloseFails \/ Stop
  BY <1>1, <1>4, <1>13 DEF OpenOrCloseFails, Stop, disk, TypeOK
<1>14. CASE UNCHANGED vars
  BY <1>1, <1>14 DEF vars, TypeOK
<1> QED
  BY <1>5, <1>6, <1>7, <1>8, <1>9, <1>10, <1>11, <1>12, <1>13, <1>14 DEF Next, Load

-----------------------------------------------------------------------------
(* The words and the reader.                                               *)

\* Of a clean file, the loop leaves off no line that there was room for.
LEMMA CleanEnd ==
  ASSUME WordInv, pc = "read", Clean(file), MoreRoom => AtEnd
  PROVE  Len(list) = Len(file) \/ Len(list) = MaxWords
<1> USE WordFileAssumption DEF WordInv
<1>1. /\ next.line = Len(list) + 1 /\ next.from = 0
      /\ Len(list) <= Len(file) /\ Len(list) \in Nat /\ Len(file) \in Nat
      /\ Len(list) <= MaxWords
  BY DEF ReaderInv, FirstLine, TypeOK, ServesWords
<1>2. CASE next.line <= Len(file)
  <2>1. next.line \in 1..Len(file)
    BY <1>1, <1>2
  <2>2. file[next.line] \in Line /\ file[next.line].len \in 1..(MaxLen - 1)
    BY <2>1 DEF TypeOK, Clean
  <2>3. Left(next) # 0
    BY <1>1, <2>2 DEF Left, Line
  <2> QED
    BY <1>1, <1>2, <2>3 DEF AtEnd, MoreRoom
<1>3. CASE ~(next.line <= Len(file))
  BY <1>1, <1>3
<1> QED
  BY <1>2, <1>3

\* Outside the two places where the list is filled or replaced, nothing that the
\* invariant speaks of changes.
LEMMA WordStep ==
  ASSUME WordInv, [Next]_vars, TypeOK'
  PROVE  /\ ServesWords' /\ WordsEndLines' /\ CleanFileIsServed'
         /\ ReaderInv' /\ FileInv'
<1> USE WordFileAssumption DEF WordInv
<1> DEFINE Goal == /\ ServesWords' /\ WordsEndLines' /\ CleanFileIsServed'
                   /\ ReaderInv' /\ FileInv'
<1>1. ASSUME list' = << >>, pc' \notin {"read", "serving"}, FileInv'
      PROVE  Goal
  BY <1>1 DEF ServesWords, WordsEndLines, CleanFileIsServed, ReaderInv
<1>2. ASSUME list' = list, pc' \notin {"read", "serving"}, FileInv'
      PROVE  Goal
  BY <1>2 DEF ServesWords, WordsEndLines, CleanFileIsServed, ReaderInv
<1>3. ASSUME UNCHANGED disk, pc' # "append"
      PROVE  FileInv'
  BY <1>3 DEF disk, FileInv
<1>4. ASSUME Die, FileInv'
      PROVE  Goal
  BY <1>1, <1>4 DEF Die
<1>5. CASE Edit
  BY <1>2, <1>5 DEF Edit, load, FileInv
<1>6. CASE Start \/ CheckEmpty
  BY <1>2, <1>3, <1>6 DEF Start, CheckEmpty, Goto, WriteDefaultsThen, disk, load
<1>7. CASE CloseDefaults
  <2>1. pc' \in {"open", "reopen", "reload"}
    BY <1>7 DEF CloseDefaults, Goto, TypeOK
  <2> QED
    BY <1>2, <1>3, <1>7, <2>1 DEF CloseDefaults, Goto, load
<1>8. CASE Open
  <2>1. CASE ~present
    BY <1>2, <1>3, <1>8, <2>1 DEF Open, WriteDefaultsThen, load
  <2>2. CASE present
    <3>1. /\ pc' = "read" /\ next' = FirstLine /\ list' = << >> /\ cut' = FALSE
          /\ UNCHANGED disk
      BY <1>8, <2>2 DEF Open, BeginRead
    <3>2. ServesWords' /\ WordsEndLines' /\ CleanFileIsServed' /\ FileInv'
      BY <1>3, <3>1 DEF ServesWords, WordsEndLines, CleanFileIsServed
    <3>3. next'.line <= Len(file)' => next'.from <= file'[next'.line].len + file'[next'.line].cr
      <4> SUFFICES ASSUME 1 <= Len(file)
                   PROVE  0 <= file[1].len + file[1].cr
        BY <3>1 DEF FirstLine, disk
      <4>1. file[1] \in Line
        BY DEF TypeOK
      <4> QED
        BY <4>1 DEF Line
    <3>4. ReaderInv'
      BY <3>1, <3>3 DEF ReaderInv, FirstLine, disk, Clean, TypeOK
    <3> QED
      BY <3>2, <3>4
  <2> QED
    BY <2>1, <2>2
<1>9. CASE ReadLine
  <2>1. /\ pc = "read" /\ pc' = "read" /\ Len(list) < MaxWords /\ ~AtEnd
        /\ list' = (IF IsWord(Piece(next)) THEN Append(list, Piece(next)) ELSE list)
        /\ next' = After(next)
        /\ cut' = cut /\ UNCHANGED disk
    BY <1>9 DEF ReadLine, MoreRoom
  <2> DEFINE W == [line : Nat, from : Nat, len : Nat]
  <2>2. list \in Seq(W)
    BY DEF TypeOK
  <2> HIDE DEF W
  <2>10. Len(list) \in Nat /\ \A k \in 1..Len(list) : list[k] \in W
    BY <2>2
  <2>11. Len(list) \in Nat /\ \A k \in 1..Len(list) : list[k].line \in Nat
    BY <2>10 DEF W
  <2> USE DEF W
  <2>3. /\ next.line \in 1..Len(file)
        /\ Piece(next) \in W
        /\ Piece(next).line = next.line /\ Piece(next).from = next.from
        /\ After(next).line \in Nat /\ After(next).line >= next.line
        /\ After(next).line <= Len(file) =>
             After(next).from <= file[After(next).line].len + file[After(next).line].cr
    BY <2>1, PieceFacts
  <2>4. ~cut /\ \A k \in 1..Len(list) : list[k].line < next.line
    BY <2>1 DEF ReaderInv
  <2>5. file' = file /\ FileInv'
    BY <1>3, <2>1 DEF disk
  <2>6. Clean(file)' = Clean(file)
    BY <2>5 DEF Clean
  <2>7. CASE ~IsWord(Piece(next))
    <3>1. list' = list
      BY <2>1, <2>7
    <3>2. ~Clean(file)
      <4> SUFFICES ASSUME Clean(file) PROVE FALSE
        OBVIOUS
      <4>1. next.from = 0
        BY <2>1 DEF ReaderInv, FirstLine
      <4> QED
        BY <2>1, <2>7, <4>1, PieceFacts
    <3>3. ServesWords'
      BY <2>1, <3>1 DEF ServesWords
    <3>4. WordsEndLines' /\ CleanFileIsServed'
      BY <2>1, <2>5, <3>1 DEF WordsEndLines, CleanFileIsServed
    <3>5. \A k \in 1..Len(list) : list[k].line < After(next).line
      <4> TAKE k \in 1..Len(list)
      <4> QED
        BY <2>3, <2>4, <2>11
    <3>6. ReaderInv'
      BY <2>1, <2>3, <2>4, <2>5, <2>6, <3>1, <3>2, <3>5 DEF ReaderInv
    <3> QED
      BY <2>5, <3>3, <3>4, <3>6
  <2>8. CASE IsWord(Piece(next))
    <3> DEFINE p == Piece(next)
    <3>1. list' = Append(list, p)
      BY <2>1, <2>8
    <3>2. /\ next.from + p.len = file[next.line].len
          /\ next' = [line |-> next.line + 1, from |-> 0]
      BY <2>1, <2>8, PieceFacts
    <3>3. p \in W /\ p.line = next.line /\ p.from = next.from /\ p.len \in 1..(MaxLen - 1)
      BY <2>3, <2>8 DEF IsWord
    <3> HIDE DEF p, W
    <3>4. /\ Len(list') = Len(list) + 1
          /\ list'[Len(list) + 1] = p
          /\ \A k \in 1..Len(list) : list'[k] = list[k]
      BY <2>2, <3>1, <3>3
    <3>5. Len(list) \in Nat /\ \A k \in 1..Len(list) : list[k].line \in Nat
      BY <2>11
    <3>6. \A k \in 1..Len(list') : k \in 1..Len(list) \/ k = Len(list) + 1
      BY <3>4, <3>5
    <3>7. ServesWords'
      BY <2>1, <3>3, <3>4, <3>5, <3>6 DEF ServesWords
    <3>8. WordsEndLines'
      <4>1. \A k \in 1..Len(list') :
              list'[k].from + list'[k].len = file[list'[k].line].len
        BY <2>1, <3>2, <3>3, <3>4, <3>6 DEF WordsEndLines
      <4>2. \A i, j \in 1..Len(list') : i < j => list'[i].line < list'[j].line
        BY <2>1, <2>4, <3>3, <3>4, <3>5, <3>6 DEF WordsEndLines
      <4> QED
        BY <2>5, <4>1, <4>2 DEF WordsEndLines
    <3>9. CleanFileIsServed'
      BY <2>1 DEF CleanFileIsServed
    <3>10. \A k \in 1..Len(list') : list'[k].line < next'.line
      BY <2>3, <2>4, <3>2, <3>3, <3>4, <3>5, <3>6
    <3>11. ASSUME Clean(file)
           PROVE  /\ next' = [line |-> Len(list') + 1, from |-> 0]
                  /\ Len(list') <= Len(file)
                  /\ \A k \in 1..Len(list') :
                       list'[k] = [line |-> k, from |-> 0, len |-> file[k].len]
      <4>1. next.from = 0 /\ next.line = Len(list) + 1
        BY <2>1, <3>11 DEF ReaderInv, FirstLine
      <4>2. p = [line |-> Len(list) + 1, from |-> 0, len |-> file[Len(list) + 1].len]
        BY <2>1, <3>11, <4>1, PieceFacts DEF p
      <4>3. \A k \in 1..Len(list) : list[k] = [line |-> k, from |-> 0, len |-> file[k].len]
        BY <2>1, <3>11 DEF ReaderInv
      <4>4. \A k \in 1..Len(list') :
              list'[k] = [line |-> k, from |-> 0, len |-> file[k].len]
        BY <3>4, <3>6, <4>2, <4>3
      <4>5. Len(list') <= Len(file)
        BY <2>3, <3>4, <4>1
      <4>6. next' = [line |-> Len(list') + 1, from |-> 0]
        BY <3>2, <3>4, <4>1
      <4> QED
        BY <4>4, <4>5, <4>6
    <3>12. next'.line <= Len(file) => next'.from <= file[next'.line].len + file[next'.line].cr
      BY <2>1, <2>3
    <3>13. ReaderInv'
      BY <2>1, <2>4, <2>5, <2>6, <3>2, <3>4, <3>10, <3>11, <3>12 DEF ReaderInv
    <3> QED
      BY <2>5, <3>7, <3>8, <3>9, <3>13
  <2> QED
    BY <2>7, <2>8
<1>10. ASSUME pc = "read", pc' = "serving", list' = list, list # << >>, UNCHANGED disk,
              cut' \/ (MoreRoom => AtEnd)
       PROVE  Goal
  <2>1. file' = file /\ FileInv'
    BY <1>3, <1>10 DEF disk
  <2>2. ServesWords' /\ WordsEndLines' /\ ReaderInv'
    BY <1>10, <2>1 DEF ServesWords, WordsEndLines, ReaderInv
  <2>3. ASSUME Clean(file), ~cut'
        PROVE  Len(list) = Len(file) \/ Len(list) = MaxWords
    BY <1>10, <2>3, CleanEnd DEF ServesWords
  <2>4. CleanFileIsServed'
    BY <1>10, <2>1, <2>3 DEF CleanFileIsServed, ReaderInv, Clean
  <2> QED
    BY <2>1, <2>2, <2>4
<1>11. CASE EndOfList
  <2>1. CASE list = << >>
    BY <1>2, <1>3, <1>11, <2>1 DEF EndOfList, EndRead, WriteDefaultsThen, load
  <2>2. CASE list # << >>
    BY <1>10, <1>11, <2>2 DEF EndOfList, EndRead, Goto, load
  <2> QED
    BY <2>1, <2>2
<1>12. CASE ReadFails
  <2>1. CASE list = << >>
    BY <1>2, <1>3, <1>12, <2>1 DEF ReadFails
  <2>2. CASE list # << >>
    BY <1>10, <1>12, <2>2 DEF ReadFails
  <2> QED
    BY <2>1, <2>2
<1>13. CASE Truncate \/ AppendDefault
  <2>1. FileInv'
    BY <1>13 DEF Truncate, AppendDefault, FileInv, TypeOK
  <2> QED
    BY <1>2, <1>13, <2>1 DEF Truncate, AppendDefault, load
<1>14. CASE AppendFails
  <2>1. present
    BY <1>14 DEF AppendFails, FileInv
  <2> QED
    BY <1>4, <1>14, <2>1 DEF AppendFails, FileInv, Die
<1>15. CASE OpenOrCloseFails \/ Stop
  BY <1>3, <1>4, <1>15 DEF OpenOrCloseFails, Stop, Die
<1>16. CASE UNCHANGED vars
  BY <1>16 DEF vars, ServesWords, WordsEndLines, CleanFileIsServed, ReaderInv, FileInv,
     Clean
<1> QED
  BY <1>5, <1>6, <1>7, <1>8, <1>9, <1>11, <1>12, <1>13, <1>14, <1>15, <1>16 DEF Next, Load

-----------------------------------------------------------------------------
(* The theorems.                                                           *)

\* The inductive invariant holds in every reachable state.
THEOREM WordInvHolds == Spec => []WordInv
<1>1. WordInv /\ [Next]_vars => WordInv'
  BY TypeStep, WordStep DEF WordInv
<1> QED
  BY <1>1, WordInit, PTL DEF Spec

\* Every variable of load_wordlist_from_file stays in its range.
THEOREM TypeCorrect == Spec => []TypeOK
  BY WordInvHolds, PTL DEF WordInv

\* A server that serves has at least one word, and no more and no longer ones than
\* g_wordlist has room for.
THEOREM WordsAreServed == Spec => []ServesWords
  BY WordInvHolds, PTL DEF WordInv

\* Every word is the end of a line of the file, one per line, in its order.
THEOREM WordsAreEndsOfLines == Spec => []WordsEndLines
  BY WordInvHolds, PTL DEF WordInv

\* A file of proper lines is served line by line.
THEOREM CleanFilesAreServed == Spec => []CleanFileIsServed
  BY WordInvHolds, PTL DEF WordInv

\* A file of proper lines is overwritten only after a failed read.
THEOREM CleanFilesAreKept == Spec => CleanFileIsKept
<1>1. ASSUME WordInv, [Next]_vars, pc # "truncate", pc' = "truncate", Clean(file)
      PROVE  cut'
  <2> USE WordFileAssumption DEF WordInv
  <2>1. file # << >> /\ present
    BY <1>1 DEF Clean, FileInv, TypeOK
  <2>2. CASE EndOfList
    <3>1. pc = "read" /\ list = << >> /\ (MoreRoom => AtEnd)
      BY <1>1, <2>2 DEF EndOfList, EndRead, Goto
    <3>2. Len(list) = Len(file) \/ Len(list) = MaxWords
      BY <1>1, <3>1, CleanEnd
    <3> QED
      BY <2>1, <3>1, <3>2 DEF TypeOK
  <2>3. CASE ~EndOfList
    <3>1. then # "truncate"
      BY <1>1 DEF TypeOK
    <3> QED
      BY <1>1, <2>1, <2>3, <3>1 DEF Next, Load, vars, Edit, Start, Goto, CheckEmpty, Open,
         BeginRead, WriteDefaultsThen, ReadLine, ReadFails, Truncate, AppendDefault,
         CloseDefaults, AppendFails, OpenOrCloseFails, Stop, Die
  <2> QED
    BY <2>2, <2>3
<1> QED
  BY <1>1, WordInvHolds, PTL DEF Spec, CleanFileIsKept

-----------------------------------------------------------------------------
(* The load ends: the safety half of LoadEnds.                             *)

\* What is written are the default words, from the first on; the reader is at most
\* behind the last line.
ProgressInv ==
  /\ pc = "append" =>
       /\ Len(file) <= Len(Defaults)
       /\ \A k \in 1..Len(file) : file[k] = Defaults[k]
  /\ pc = "read" => next.line <= Len(file) + 1

Loading == pc \notin {"down", "serving"}

\* How far the load is from its end: the failures that may still come, where it is
\* in the function, and what is left of the file it reads or writes.  A file of
\* proper lines needs no default words any more.
Phase ==
  IF pc = "truncate" THEN 4 ELSE IF pc = "append" THEN 3
  ELSE (IF pc = "reload" THEN 2 ELSE IF pc \in {"open", "reopen"} THEN 1 ELSE 0)
         + (IF Clean(file) THEN 0 ELSE 5)

Rest ==
  IF pc = "append" THEN <<Len(Defaults) - Len(file), 0>>
  ELSE IF pc = "read"
    THEN <<Len(file) + 1 - next.line, IF next.line <= Len(file) THEN Left(next) ELSE 0>>
  ELSE <<0, 0>>

Measure == <<<<faults, Phase>>, Rest>>

\* While the list is loaded, every step ends the load or brings its end nearer.
Ending ==
  Loading => \/ ~Loading'
             \/ <<Measure', Measure>> \in FourOrder

LEMMA ProgressStep ==
  ASSUME WordInv, ProgressInv, [Next]_vars
  PROVE  ProgressInv'
<1> USE WordFileAssumption DEF WordInv
<1>1. file \in Seq(Line) /\ Len(file) \in Nat /\ Len(Defaults) \in Nat
  BY DEF TypeOK
<1>2. ASSUME pc' \notin {"append", "read"} PROVE ProgressInv'
  BY <1>2 DEF ProgressInv
<1>3. CASE Open /\ present
  <2>1. pc' = "read" /\ next' = FirstLine /\ file' = file
    BY <1>3 DEF Open, BeginRead, disk
  <2> QED
    BY <1>1, <2>1 DEF ProgressInv, FirstLine
<1>4. CASE ReadLine
  <2>1. pc' = "read" /\ next' = After(next) /\ file' = file /\ next.line \in 1..Len(file)
    BY <1>4, PieceFacts DEF ReadLine, disk
  <2>2. After(next).line \in {next.line, next.line + 1}
    BY DEF After
  <2> QED
    BY <1>1, <2>1, <2>2 DEF ProgressInv
<1>5. CASE Truncate
  <2>1. pc' = "append" /\ file' = << >>
    BY <1>5 DEF Truncate
  <2> QED
    BY <1>1, <2>1 DEF ProgressInv
<1>6. CASE AppendDefault
  <2>1. pc' = "append" /\ pc = "append" /\ Len(file) < Len(Defaults)
    BY <1>6 DEF AppendDefault
  <2>2. file' = Append(file, Defaults[Len(file) + 1])
    BY <1>6 DEF AppendDefault, DefaultLine
  <2>3. Defaults[Len(file) + 1] \in Line
    BY <1>1, <2>1
  <2>4. Len(file') = Len(file) + 1 /\ file'[Len(file) + 1] = Defaults[Len(file) + 1]
        /\ \A k \in 1..Len(file) : file'[k] = file[k]
    BY <1>1, <2>2, <2>3
  <2> QED
    BY <1>1, <2>1, <2>4 DEF ProgressInv
<1>7. CASE Open /\ ~present
  BY <1>2, <1>7 DEF Open, WriteDefaultsThen
<1>8. CASE CloseDefaults
  BY <1>2, <1>8 DEF CloseDefaults, Goto, TypeOK
<1>9. CASE Start \/ CheckEmpty \/ EndOfList \/ ReadFails
  BY <1>2, <1>9 DEF Start, CheckEmpty, EndOfList, EndRead, ReadFails, Goto, WriteDefaultsThen
<1>10. CASE AppendFails \/ OpenOrCloseFails \/ Stop
  BY <1>2, <1>10 DEF AppendFails, OpenOrCloseFails, Stop, Die
<1>11. CASE Edit
  BY <1>2, <1>11 DEF Edit
<1>12. CASE UNCHANGED vars
  BY <1>12 DEF vars, ProgressInv
<1> QED
  BY <1>3, <1>4, <1>5, <1>6, <1>7, <1>8, <1>9, <1>10, <1>11, <1>12 DEF Next, Load

LEMMA PhaseType == Phase \in Nat /\ Phase' \in Nat
BY DEF Phase

LEMMA RestType ==
  ASSUME TypeOK, ReaderInv, ProgressInv
  PROVE  Rest \in Nat \X Nat
<1>1. Len(file) \in Nat /\ Len(Defaults) \in Nat
  BY WordFileAssumption DEF TypeOK
<1>2. CASE pc = "append"
  BY <1>1, <1>2 DEF Rest, ProgressInv
<1>3. CASE pc = "read"
  <2>1. next.line \in Nat \ {0} /\ next.from \in Nat /\ next.line <= Len(file) + 1
    BY <1>3 DEF TypeOK, ProgressInv
  <2>2. Len(file) + 1 - next.line \in Nat
    BY <1>1, <2>1
  <2>3. next.line <= Len(file) => Left(next) \in Nat
    <3> SUFFICES ASSUME next.line <= Len(file) PROVE Left(next) \in Nat
      OBVIOUS
    <3>1. file[next.line] \in Line
      BY <1>1, <2>1 DEF TypeOK
    <3>2. next.from <= file[next.line].len + file[next.line].cr
      BY <1>3 DEF ReaderInv
    <3>3. file[next.line].len \in Nat /\ file[next.line].cr \in Nat
      BY <3>1 DEF Line
    <3> QED
      BY <2>1, <3>2, <3>3 DEF Left
  <2> QED
    BY <1>3, <2>2, <2>3 DEF Rest
<1> QED
  BY <1>2, <1>3 DEF Rest

LEMMA RestTypeNext ==
  TypeOK' /\ ReaderInv' /\ ProgressInv' => (Rest \in Nat \X Nat)'
<1>1. TypeOK /\ ReaderInv /\ ProgressInv => Rest \in Nat \X Nat
  BY RestType
<1> QED
  BY <1>1, PTL

\* A step that uses up a failure, or leads on in the function; and one that leaves
\* less of the file.
LEMMA Nearer ==
  ASSUME WordInv, WordInv', ProgressInv, ProgressInv',
         \/ faults' < faults
         \/ faults' = faults /\ Phase' < Phase
         \/ /\ faults' = faults /\ Phase' = Phase
            /\ \/ Rest'[1] < Rest[1]
               \/ Rest'[1] = Rest[1] /\ Rest'[2] < Rest[2]
  PROVE  <<Measure', Measure>> \in FourOrder
<1>1. faults \in Nat /\ faults' \in Nat /\ Phase \in Nat /\ Phase' \in Nat
  BY WordFileAssumption, PhaseType DEF WordInv, TypeOK
<1>2. Rest \in Nat \X Nat /\ Rest' \in Nat \X Nat
  BY RestType, RestTypeNext DEF WordInv
<1>3. Measure = <<<<faults, Phase>>, Rest>> /\ Measure' = <<<<faults', Phase'>>, Rest'>>
  BY DEF Measure
<1>4. CASE faults' < faults \/ (faults' = faults /\ Phase' < Phase)
  <2>1. <<<<faults', Phase'>>, <<faults, Phase>>>> \in PairOrder
    BY <1>1, <1>4, PairLess
  <2> QED
    BY <1>1, <1>2, <1>3, <2>1, FourLess
<1>5. CASE /\ faults' = faults /\ Phase' = Phase
           /\ \/ Rest'[1] < Rest[1]
              \/ Rest'[1] = Rest[1] /\ Rest'[2] < Rest[2]
  <2>1. Rest = <<Rest[1], Rest[2]>> /\ Rest' = <<Rest'[1], Rest'[2]>>
        /\ {Rest[1], Rest[2], Rest'[1], Rest'[2]} \subseteq Nat
    BY <1>2
  <2>2. <<Rest', Rest>> \in PairOrder
    BY <1>5, <2>1, PairLess
  <2> QED
    BY <1>1, <1>2, <1>3, <1>5, <2>2, FourLess
<1> QED
  BY <1>4, <1>5

LEMMA EndingStep ==
  ASSUME WordInv, WordInv', ProgressInv, ProgressInv', Next
  PROVE  Ending
<1> SUFFICES ASSUME Loading, Loading'
             PROVE  <<Measure', Measure>> \in FourOrder
  BY DEF Ending
<1> USE WordFileAssumption DEF WordInv
<1>1. file \in Seq(Line) /\ Len(file) \in Nat /\ Len(Defaults) \in Nat /\ Len(Defaults) > 0
      /\ faults \in Nat /\ pc \in PCs
  BY DEF TypeOK
<1>2. CASE CheckEmpty
  <2>1. pc = "reload" /\ faults' = faults /\ file' = file
        /\ pc' = IF present /\ file = << >> THEN "truncate" ELSE "open"
    BY <1>2 DEF CheckEmpty, WriteDefaultsThen, Goto, disk
  <2>2. file = << >> => ~Clean(file)
    BY DEF Clean
  <2> QED
    BY <2>1, <2>2, Nearer DEF Phase
<1>3. CASE Open
  <2>1. pc \in {"open", "reopen"} /\ faults' = faults /\ file' = file
        /\ pc' = IF present THEN "read" ELSE "truncate"
    BY <1>3 DEF Open, BeginRead, WriteDefaultsThen, disk
  <2>2. ~present => ~Clean(file)
    BY DEF FileInv, Clean
  <2> QED
    BY <2>1, <2>2, Nearer DEF Phase
<1>4. CASE ReadLine
  <2>1. pc = "read" /\ pc' = "read" /\ next' = After(next) /\ file' = file /\ faults' = faults
        /\ next.line \in 1..Len(file) /\ Left(next) # 0 /\ next \in [line : Nat \ {0}, from : Nat]
    BY <1>4, PieceFacts DEF ReadLine, disk, AtEnd, TypeOK
  <2>2. Phase' = Phase
    BY <2>1 DEF Phase
  <2>3. CASE Left(next) < Room
    <3>1. next'.line = next.line + 1
      BY <2>1, <2>3 DEF After
    <3>2. Rest'[1] < Rest[1]
      BY <1>1, <2>1, <3>1 DEF Rest
    <3> QED
      BY <2>1, <2>2, <3>2, Nearer
  <2>4. CASE ~(Left(next) < Room)
    <3>1. next'.line = next.line /\ next'.from = next.from + Room
      BY <2>1, <2>4 DEF After
    <3>2. Room \in Nat \ {0}
      BY DEF Room
    <3>3. file[next.line].len \in Nat /\ file[next.line].cr \in Nat /\ next.from \in Nat
      <4>1. file[next.line] \in Line
        BY <1>1, <2>1
      <4> QED
        BY <2>1, <4>1 DEF Line
    <3>4. Left(next)' < Left(next)
      BY <2>1, <3>1, <3>2, <3>3 DEF Left
    <3>5. Rest'[1] = Rest[1] /\ Rest'[2] < Rest[2]
      BY <1>1, <2>1, <3>1, <3>4 DEF Rest
    <3> QED
      BY <2>1, <2>2, <3>5, Nearer
  <2> QED
    BY <2>3, <2>4
<1>5. CASE EndOfList
  <2>1. pc = "read" /\ pc' = "truncate" /\ list = << >> /\ faults' = faults
        /\ (MoreRoom => AtEnd)
    BY <1>5 DEF EndOfList, EndRead, WriteDefaultsThen, Goto, Loading
  <2>2. ~Clean(file)
    <3> SUFFICES ASSUME Clean(file) PROVE FALSE
      OBVIOUS
    <3>1. Len(list) = Len(file) \/ Len(list) = MaxWords
      BY <2>1, CleanEnd
    <3>2. Len(list) = 0 /\ Len(file) # 0
      BY <1>1, <2>1 DEF Clean
    <3> QED
      BY <3>1, <3>2
  <2> QED
    BY <2>1, <2>2, Nearer DEF Phase
<1>6. CASE ReadFails
  <2>1. faults' < faults
    BY <1>1, <1>6 DEF ReadFails
  <2> QED
    BY <2>1, Nearer
<1>7. CASE Truncate
  BY <1>7, Nearer DEF Truncate, Phase
<1>8. CASE AppendDefault
  <2>1. pc = "append" /\ pc' = "append" /\ faults' = faults
        /\ file' = Append(file, Defaults[Len(file) + 1]) /\ Len(file) < Len(Defaults)
    BY <1>8 DEF AppendDefault, DefaultLine
  <2>2. Len(file') = Len(file) + 1
    BY <1>1, <2>1
  <2>3. Phase' = Phase /\ Rest'[1] < Rest[1]
    BY <1>1, <2>1, <2>2 DEF Phase, Rest
  <2> QED
    BY <2>1, <2>3, Nearer
<1>9. CASE CloseDefaults
  <2>1. pc = "append" /\ pc' \in {"open", "reopen", "reload"} /\ faults' = faults /\ file' = file
    BY <1>9 DEF CloseDefaults, Goto, disk, TypeOK
  <2>2. Clean(file)
    <3>1. Len(file) = Len(Defaults) /\ \A k \in 1..Len(file) : file[k] = Defaults[k]
      BY <1>9 DEF CloseDefaults, ProgressInv
    <3> QED
      BY <1>1, <3>1 DEF Clean
  <2> QED
    BY <2>1, <2>2, Nearer DEF Phase
<1>10. ~Edit /\ ~Start /\ ~Stop /\ ~AppendFails /\ ~OpenOrCloseFails
  BY DEF Loading, Edit, Start, Stop, AppendFails, OpenOrCloseFails, Die
<1> QED
  BY <1>2, <1>3, <1>4, <1>5, <1>6, <1>7, <1>8, <1>9, <1>10 DEF Next, Load

\* load_wordlist_from_file cannot go round for ever, whatever is in the file, how
\* long its lines are and what fails: the jump back to its start after the default
\* words were written (word_manager.c:147-152) leads to a file it accepts.  With
\* MeasuresEnd this is what LoadEnds needs besides the scheduling of the process.
THEOREM LoadComesToAnEnd == Spec => [][Ending]_vars
<1>1. Init => ProgressInv
  BY DEF Init, ProgressInv
<1>2. WordInv /\ ProgressInv /\ [Next]_vars => ProgressInv'
  BY ProgressStep
<1>3. WordInv /\ ProgressInv /\ WordInv' /\ ProgressInv' /\ [Next]_vars => [Ending]_vars
  BY EndingStep
<1> QED
  BY <1>1, <1>2, <1>3, WordInvHolds, PTL DEF Spec

=============================================================================
