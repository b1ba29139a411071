----------------------------- MODULE Leaderboard -----------------------------
(***************************************************************************)
(* The scores file and the leaderboard computed from it: clients' threads  *)
(* append lines (add_score_to_file) and read them all (load_all_scores_    *)
(* from_file) under one mutex; get_leaderboard_impl then works on its own  *)
(* copy.  Players are numbers in the order strcmp gives their names.       *)
(*                                                                         *)
(* A write that breaks off (the disk fills up) leaves a fragment without a *)
(* newline, which the next line is glued to.  A text of the file is what   *)
(* the loader takes it for.                                                *)
(***************************************************************************)
EXTENDS Integers, Sequences, FiniteSets, SequencesExt

CONSTANTS
  Player,       \* names, in the order of strcmp
  Garbled,      \* names with a ':', whose lines strtol does not parse
  Score,        \* scores a client submits
  MaxRecords,   \* MAX_TOTAL_SCORES
  MaxEntries,   \* MAX_LEADERBOARD_ENTRIES
  MaxLines,     \* room for scores on the disk (bound)
  MaxTorn,      \* writes that break off (bound)
  ReadFault     \* may the scores file fail to open, or a read break off?

ASSUME BoardAssumption ==
  /\ Player \subseteq Nat \ {0}
  /\ Garbled \subseteq Player
  /\ Score \subseteq Nat
  /\ MaxRecords \in Nat \ {0} /\ MaxEntries \in Nat \ {0} /\ MaxLines \in Nat
  /\ MaxTorn \in Nat
  /\ ReadFault \in BOOLEAN

VARIABLES
  lines,    \* scores.txt, up to its last newline
  tail,     \* the fragment behind it: at most one text
  told,     \* history: the lines add_score_to_file wrote whole
  torn,     \* history: how many writes broke off
  records,  \* all_scores of the thread that has loaded them; << >> if none has
  board     \* the entries of the LeaderboardResponse being built or last sent

vars == <<lines, tail, told, torn, records, board>>
disk == <<lines, tail, told, torn>>

Line == [name : Player, score : Score]

\* Digits of a score (an int has at most ten), cut off behind any of them.
PowersOfTen ==
  {10, 100, 1000, 10000, 100000, 1000000, 10000000, 100000000, 1000000000}
CutScores(v) == {v} \cup ({v \div p : p \in PowersOfTen} \ {0})

\* Texts that are not a name and a number.  One that fills the loader's buffer to
\* the last byte leaves its newline behind, which is read as an empty line and
\* taken for the end of the file.
NoName == -1
Skipped == [name |-> NoName, score |-> 0]
EndsLoad == [name |-> NoName, score |-> 1]

\* The second part of a text too long for the buffer may begin with the ':': a
\* score with an empty name.
EmptyName == 0
Text == [name : Player \cup {EmptyName}, score : UNION {CutScores(v) : v \in Score}]
          \cup {Skipped, EndsLoad}

-----------------------------------------------------------------------------
(* load_all_scores_from_file.                                              *)

Parses(text) == text.name \notin Garbled \cup {NoName}

\* Is line k stored, with n records in the array?  The loop must still run.
MutStores(file, k, n) ==
  Parses(file[k]) /\ \A j \in 1..k : file[j] # EndsLoad
Stores(file, k, n) ==
  /\ n < MaxRecords
  /\ \A j \in 1..k : file[j] # EndsLoad
  /\ Parses(file[k])

\* One turn of the loop: a line that does not parse takes no room.
Stored(file, k, array) ==
  IF Stores(file, k, Len(array)) THEN Append(array, file[k]) ELSE array

\* The array after k turns of the loop, and when it ends.
Loading(file) ==
  LET load[k \in 0..Len(file)] ==
        IF k = 0 THEN << >> ELSE Stored(file, k, load[k - 1])
  IN  load

MutLoaded(file) ==
  LET s == SelectSeq(file, Parses)
  IN  SubSeq(s, IF Len(s) > MaxRecords THEN Len(s) - MaxRecords + 1 ELSE 1, Len(s))
Loaded(file) == Loading(file)[Len(file)]

\* The file as a reader finds it.
File == lines \o tail

-----------------------------------------------------------------------------
(* get_leaderboard_impl.                                                   *)

\* compare_score_records_for_user_best.
MutBefore(a, b) == a.name <= b.name
Before(a, b) == a.name < b.name \/ (a.name = b.name /\ a.score >= b.score)

\* qsort: a permutation in which no element comes before one it belongs behind.
Permuted(s) == {[k \in DOMAIN s |-> s[p[k]]] : p \in SetToSeqs(DOMAIN s)}

Sortings(s) ==
  {t \in Permuted(s) : \A i, j \in DOMAIN s : i < j => Before(t[i], t[j])}

\* One turn of the loop.  last is last_processed_user, at first the empty name: a
\* player's first line opens an entry, if there is room.
MutEntry(acc, line) ==
  IF line.name # acc.last /\ Len(acc.entries) < MaxEntries
    THEN [acc EXCEPT !.entries = Append(@, line)]
    ELSE acc
Entry(acc, line) ==
  IF line.name # acc.last /\ Len(acc.entries) < MaxEntries
    THEN [entries |-> Append(acc.entries, line), last |-> line.name]
    ELSE acc

\* The loop's variables after k turns, and the entries when it ends.
Collecting(s) ==
  LET scan[k \in 0..Len(s)] ==
        IF k = 0 THEN [entries |-> << >>, last |-> EmptyName]
        ELSE Entry(scan[k - 1], s[k])
  IN  scan

Collected(s) == Collecting(s)[Len(s)].entries

\* compare_leaderboard_entries_final leaves the order of equal scores open.
Rankings(entries) ==
  {b \in Permuted(entries) :
     \A i, j \in DOMAIN entries : i < j => b[i].score >= b[j].score}

-----------------------------------------------------------------------------
(* add_score_to_file.                                                      *)

Init ==
  /\ lines = << >> /\ tail = << >> /\ told = << >> /\ torn = 0
  /\ records = << >> /\ board = << >>

\* What a line is read as behind the tail: behind a fragment that is a piece of a
\* name, or so long that the text is read in two parts, it passes for the score
\* of another name.
Behind(line) ==
  IF tail = << >> THEN {line}
  ELSE {Skipped, EndsLoad}
         \cup (IF Parses(line) THEN {[line EXCEPT !.name = n] : n \in Player \cup {EmptyName}}
             ELSE {})

\* What the first part of a line is read as: a piece of the name, or the name and
\* as many digits as were written.
Fragments(line) ==
  {Skipped}
    \cup [name : IF tail = << >> /\ Parses(line) THEN {line.name}
                 ELSE Player \cup {EmptyName},
          score : CutScores(line.score)]

MutTailAfter(line) == <<line>>
TailAfter(line) == << >>

\* The line is written whole.  The player is told that the score is submitted, or,
\* if close fails, that it is not.
SubmitScore(line) ==
  /\ Len(lines) < MaxLines
  /\ \E text \in Behind(line) : lines' = Append(lines, text)
  /\ tail' = TailAfter(line)
  /\ told' = Append(told, line)
  /\ UNCHANGED <<torn, records, board>>

\* dprintf writes a part of the line and fails; the player is told so.
SubmitTorn(line) ==
  /\ torn < MaxTorn
  /\ \E text \in Fragments(line) : tail' = <<text>>
  /\ torn' = torn + 1
  /\ UNCHANGED <<lines, told, records, board>>

-----------------------------------------------------------------------------

\* One board at a time is followed: what other threads load is their own copy.
\* Meanwhile lines are appended.  (A file without lines leaves the board empty.)
Load ==
  /\ records = << >>
  /\ records' = Loaded(File)
  /\ board' = << >>
  /\ UNCHANGED disk

\* A read that breaks off part-way is taken for the end of the file.
LoadPart ==
  /\ ReadFault
  /\ records = << >>
  /\ \E n \in 0..Len(File) : records' = Loaded(SubSeq(File, 1, n))
  /\ board' = << >>
  /\ UNCHANGED disk

\* The reply: final_count is -1, and no entry is filled in, when the file cannot
\* be opened or locked.
Rank ==
  /\ records # << >>
  /\ \E s \in Sortings(records) : board' \in Rankings(Collected(s))
  /\ records' = << >>
  /\ UNCHANGED disk

LoadFails ==
  /\ ReadFault
  /\ records = << >>
  /\ board' = << >>
  /\ UNCHANGED <<disk, records>>

Next ==
  \/ \E line \in Line : SubmitScore(line) \/ SubmitTorn(line)
  \/ Load \/ LoadPart \/ Rank \/ LoadFails

Spec == Init /\ [][Next]_vars

-----------------------------------------------------------------------------
(* Properties.                                                             *)

\* Every variable stays in its range, and the array of records in its bounds.
TypeOK ==
  /\ lines \in Seq(Text)
  /\ tail \in Seq(Text) /\ Len(tail) <= 1
  /\ told \in Seq(Line)
  /\ torn \in 0..MaxTorn
  /\ records \in Seq(Text) /\ Len(records) <= MaxRecords
  /\ board \in Seq(Text)

\* A write that broke off costs one of the lines written whole, and no more: the
\* next one, which is glued to the fragment and ends it with its newline.  (If the
\* spoilt text fills the buffer of read_line, the loader also stops there.)
Spoilt == {k \in 1..Len(lines) : lines[k] # told[k]}
OneLinePerTear ==
  /\ Len(lines) = Len(told)
  /\ Cardinality(Spoilt) + Len(tail) <= torn

\* A board has one entry per player, best first, no more entries than the array
\* of the reply, and no score that is not a line of the file, save for one if a
\* write broke off: the sort by name and the one pass over it with
\* last_processed_user must find each player once.
BoardIsHonest ==
  /\ Len(board) <= MaxEntries
  /\ \A i, j \in DOMAIN board : i < j =>
       board[i].name # board[j].name /\ board[i].score >= board[j].score
  /\ Cardinality({i \in DOMAIN board : \A k \in DOMAIN lines : lines[k] # board[i]})
       <= IF torn = 0 THEN 0 ELSE 1

\* What a board says of a player is the best of the lines that were loaded, and
\* every player with a loaded line is on it unless it is full.  A score without a
\* name is loaded and not shown: last_processed_user starts as the empty name.
BestOf(n, s) ==
  CHOOSE v \in {s[i].score : i \in {j \in DOMAIN s : s[j].name = n}} :
    \A i \in DOMAIN s : s[i].name = n => s[i].score <= v

Names(s) == {s[i].name : i \in DOMAIN s}

BoardShowsBests ==
  [][records # << >> /\ board' # board =>
       /\ \A i \in DOMAIN board' : board'[i].score = BestOf(board'[i].name, records)
       /\ Names(board') \subseteq Names(records) \ {EmptyName}
       /\ Names(records) \ {EmptyName} \subseteq Names(board') \/ Len(board') = MaxEntries]_vars

\* What a complete load shows of a player never drops as the file grows, even
\* past the record limit or a broken line: what was loaded before is loaded again.
ScoresNeverDrop ==
  [][lines' # lines =>
       \A s \in Sortings(Loaded(lines)), t \in Sortings(Loaded(lines')) :
         LET before == Collected(s)
             after == Collected(t)
         IN  \A i \in DOMAIN before, j \in DOMAIN after :
               before[i].name = after[j].name => before[i].score <= after[j].score]_vars
=============================================================================
