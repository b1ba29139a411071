------------------------------- MODULE WordFile -------------------------------
(***************************************************************************)
(* The word list of the server: data/words.txt, which an administrator     *)
(* edits while the server is down, and load_wordlist_from_file             *)
(* (word_manager.c), which main calls before it accepts clients.           *)
(*                                                                         *)
(* A line is its length and whether a CR ends it; a word of the list is    *)
(* the piece of a line it was read from.  Grain: one line read, or one     *)
(* default word written, per action; the process may be killed in between. *)
(***************************************************************************)
EXTENDS Naturals, Sequences

CONSTANTS
  MaxLen,      \* MAX_WORD_STR_LEN
  MaxWords,    \* MAX_WORDLIST_WORDS
  Files,       \* contents an administrator gives to the file
  Defaults,    \* default_words, as lines
  MaxFaults    \* file operations that fail while one process starts (bound)

Line == [len : Nat, cr : {0, 1}]

ASSUME WordFileAssumption ==
  /\ MaxLen \in Nat \ {0} /\ MaxWords \in Nat \ {0} /\ MaxFaults \in Nat
  /\ Files \subseteq Seq(Line)
  /\ Defaults \in Seq(Line) /\ Defaults # << >>
  /\ \A k \in 1..Len(Defaults) : Defaults[k].len \in 1..(MaxLen - 1)

VARIABLES
  present,  \* does words.txt exist?
  file,     \* its lines
  pc,       \* where the process is
  then,     \* where it goes on once the default words are written
  next,     \* the next character to read: line number, characters before it
  list,     \* g_wordlist
  cut,      \* has a read of this load failed?
  faults    \* file operations that may still fail

vars == <<present, file, pc, then, next, list, cut, faults>>
disk == <<present, file>>
load == <<next, list, cut>>

PCs == {"down", "reload", "open", "reopen", "truncate", "append", "read", "serving"}

-----------------------------------------------------------------------------
(* read_line_direct, and the loop around it.                               *)

\* The buffer has MaxLen + 2 bytes, one of them for the terminator.
MutRoom == MaxLen - 1
Room == MaxLen + 1

Left(n) == file[n.line].len + file[n.line].cr - n.from

\* What one call reads: the rest of the line, or as much as fits; the newline is
\* read only when there was room for another character.
Chunk(n) == IF Left(n) < Room THEN Left(n) ELSE Room

After(n) ==
  IF Left(n) < Room THEN [line |-> n.line + 1, from |-> 0]
                    ELSE [line |-> n.line, from |-> n.from + Room]

\* The piece, cut at the CR.
Piece(n) ==
  LET letters == IF file[n.line].len < n.from THEN 0 ELSE file[n.line].len - n.from
  IN  [line |-> n.line, from |-> n.from,
       len |-> IF letters < Chunk(n) THEN letters ELSE Chunk(n)]

MutIsWord(piece) == piece.len > 0
MutIsShortWord(piece) == piece.len > 0 /\ piece.len + 1 < MaxLen
IsWord(piece) == piece.len > 0 /\ piece.len < MaxLen

MutMoreRoom == Len(list) <= MaxWords
MoreRoom == Len(list) < MaxWords

\* The end of the file, and an empty line (or the newline left behind by a full
\* buffer), both make read_line_direct return 0.
AtEnd == next.line <= Len(file) => Left(next) = 0

-----------------------------------------------------------------------------
FirstLine == [line |-> 1, from |-> 0]

Init ==
  /\ present \in BOOLEAN
  /\ file \in IF present THEN Files ELSE {<< >>}
  /\ pc = "down"
  /\ then = "open"
  /\ next = FirstLine
  /\ list = << >>
  /\ cut = FALSE
  /\ faults = MaxFaults

Goto(step) == pc' = step /\ UNCHANGED <<disk, then, load, faults>>

\* The process ends, and its memory with it.
Die ==
  /\ pc' = "down"
  /\ then' = "open"
  /\ next' = FirstLine /\ list' = << >> /\ cut' = FALSE
  /\ faults' = MaxFaults

\* The administrator replaces or removes the file.
Edit ==
  /\ pc = "down"
  /\ present' \in BOOLEAN
  /\ file' \in IF present' THEN Files ELSE {<< >>}
  /\ UNCHANGED <<pc, then, load, faults>>

\* main calls load_wordlist_from_file.
Start ==
  /\ pc = "down"
  /\ Goto("reload")

WriteDefaultsThen(step) ==
  /\ pc' = "truncate"
  /\ then' = step
  /\ UNCHANGED <<disk, load, faults>>

\* is_file_empty; a missing file is left to open.
CheckEmpty ==
  /\ pc = "reload"
  /\ IF present /\ file = << >> THEN WriteDefaultsThen("open") ELSE Goto("open")

BeginRead ==
  /\ pc' = "read"
  /\ next' = FirstLine
  /\ list' = << >>
  /\ cut' = FALSE
  /\ UNCHANGED <<disk, then, faults>>

\* The file was there a moment ago when pc is "reopen".
Open ==
  /\ pc \in {"open", "reopen"}
  /\ IF present THEN BeginRead ELSE WriteDefaultsThen("reopen")

\* One turn of the loop: the piece is added if it is a word.
ReadLine ==
  /\ pc = "read" /\ MoreRoom /\ ~AtEnd
  /\ list' = IF IsWord(Piece(next)) THEN Append(list, Piece(next)) ELSE list
  /\ next' = After(next)
  /\ UNCHANGED <<disk, pc, then, cut, faults>>

\* The loop ends: at the end of the list, when it is full, or when read fails.
EndRead ==
  IF list = << >> THEN WriteDefaultsThen("reload") ELSE Goto("serving")

EndOfList == pc = "read" /\ (MoreRoom => AtEnd) /\ EndRead

ReadFails ==
  /\ pc = "read" /\ MoreRoom /\ faults > 0
  /\ cut' = TRUE
  /\ faults' = faults - 1
  /\ pc' = IF list = << >> THEN "truncate" ELSE "serving"
  /\ then' = IF list = << >> THEN "reload" ELSE then
  /\ UNCHANGED <<disk, next, list>>

-----------------------------------------------------------------------------
(* write_default_words_to_file: O_TRUNC, then one dprintf per word.        *)

Truncate ==
  /\ pc = "truncate"
  /\ present' = TRUE
  /\ file' = << >>
  /\ pc' = "append"
  /\ UNCHANGED <<then, load, faults>>

MutDefaultLine(k) == [Defaults[k] EXCEPT !.len = 0]
MutUnendedLine(k) == [len |-> Defaults[k].len]
DefaultLine(k) == Defaults[k]

AppendDefault ==
  /\ pc = "append" /\ Len(file) < Len(Defaults)
  /\ file' = Append(file, DefaultLine(Len(file) + 1))
  /\ UNCHANGED <<present, pc, then, load, faults>>

CloseDefaults ==
  /\ pc = "append" /\ Len(file) = Len(Defaults)
  /\ Goto(then)

\* dprintf fails, having written a part of the word or nothing: main exits.
AppendFails ==
  /\ pc = "append" /\ Len(file) < Len(Defaults) /\ faults > 0
  /\ \E n \in 0..Defaults[Len(file) + 1].len :
       file' = IF n = 0 THEN file ELSE Append(file, [len |-> n, cr |-> 0])
  /\ Die
  /\ UNCHANGED present

\* open fails, to read or to write, or close does: main exits.
OpenOrCloseFails ==
  /\ pc \in {"open", "reopen", "truncate", "append"} /\ faults > 0
  /\ Die
  /\ UNCHANGED disk

\* The server is shut down, or the process is killed at any point.
Stop == pc # "down" /\ Die /\ UNCHANGED disk

-----------------------------------------------------------------------------
Load ==
  \/ CheckEmpty \/ Open \/ ReadLine \/ EndOfList \/ ReadFails
  \/ Truncate \/ AppendDefault \/ CloseDefaults \/ AppendFails \/ OpenOrCloseFails

Next == Edit \/ Start \/ Load \/ Stop

Spec == Init /\ [][Next]_vars

\* A process that starts is scheduled; it may still be killed.
FairSpec == Spec /\ WF_vars(Load)

-----------------------------------------------------------------------------
(* Properties.                                                             *)

\* Every variable stays in its range, and the reader within a line.
TypeOK ==
  /\ present \in BOOLEAN
  /\ file \in Seq(Line)
  /\ pc \in PCs
  /\ then \in {"open", "reopen", "reload"}
  /\ next \in [line : Nat \ {0}, from : Nat]
  /\ list \in Seq([line : Nat, from : Nat, len : Nat])
  /\ cut \in BOOLEAN
  /\ faults \in 0..MaxFaults

\* load_wordlist_from_file promises at least one word (word_manager.c:156), and
\* g_wordlist.words has room for MaxWords of less than MaxLen characters: also
\* when the file was missing, blank, cut short by a crash, or unreadable.
ServesWords ==
  /\ Len(list) <= MaxWords
  /\ \A k \in 1..Len(list) : list[k].len \in 1..(MaxLen - 1)
  /\ pc = "serving" => list # << >>

\* A line too long for the buffer is read in several pieces, of which only the
\* last one can become a word: each word is the end of a line, at most one per
\* line and in the order of the file.
WordsEndLines ==
  pc \in {"read", "serving"} =>
    /\ \A k \in 1..Len(list) : list[k].from + list[k].len = file[list[k].line].len
    /\ \A i, j \in 1..Len(list) : i < j => list[i].line < list[j].line

\* A file of proper lines.
Clean(f) == f # << >> /\ \A k \in 1..Len(f) : f[k].len \in 1..(MaxLen - 1)

\* A file of proper lines is loaded line by line, whole lines and all of them as
\* far as there is room; a read that fails may only leave off the end.
CleanFileIsServed ==
  pc = "serving" /\ Clean(file) =>
    /\ \A k \in 1..Len(list) : list[k] = [line |-> k, from |-> 0, len |-> file[k].len]
    /\ cut \/ Len(list) = Len(file) \/ Len(list) = MaxWords

\* A file of proper lines is never overwritten with the default words, unless a
\* read of its first line fails.
CleanFileIsKept ==
  [][pc # "truncate" /\ pc' = "truncate" /\ Clean(file) => cut']_vars

\* Loading ends although it starts over after it has written the default words:
\* they must be words that the same loop accepts.
LoadEnds == pc = "reload" ~> pc \in {"serving", "down"}

-----------------------------------------------------------------------------
(* Statements of the comments the code does not keep.                      *)

HasWord == \E k \in 1..Len(file) : file[k].len \in 1..(MaxLen - 1)

\* word_manager.c:6 and 136: the default words replace the contents of a file
\* that is empty, and a line that is not blank and not too long is added.
FileWithWordsIsKept ==
  [][pc # "truncate" /\ pc' = "truncate" /\ HasWord => cut']_vars

=============================================================================
