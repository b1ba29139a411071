-------------------------- MODULE Leaderboard_proofs --------------------------
(***************************************************************************)
(* Proofs for every number of players, scores, lines, records, entries and *)
(* broken writes: a write that breaks off costs at most one line, and the  *)
(* loops and sorts of get_leaderboard_impl make an honest board of what is *)
(* loaded.                                                                 *)
(***************************************************************************)
EXTENDS Leaderboard, Loops, FiniteSetTheorems, TLAPS

\* The part of the state that add_score_to_file keeps.
DiskInv ==
  /\ lines \in Seq(Text)
  /\ tail \in Seq(Text) /\ Len(tail) <= 1
  /\ told \in Seq(Line)
  /\ torn \in 0..MaxTorn
  /\ OneLinePerTear

LEMMA LinesAreTexts == Line \subseteq Text
<1> SUFFICES ASSUME NEW line \in Line PROVE line \in Text
  OBVIOUS
<1>1. line.score \in CutScores(line.score)
  BY DEF CutScores
<1>2. line.score \in UNION {CutScores(v) : v \in Score}
  BY <1>1 DEF Line
<1> QED
  BY <1>2 DEF Line, Text

LEMMA BehindIsText ==
  ASSUME NEW line \in Line
  PROVE  /\ Behind(line) \subseteq Text
         /\ tail = << >> => Behind(line) = {line}
<1>1. line \in Text
  BY LinesAreTexts
<1>2. ASSUME NEW n \in Player \cup {EmptyName}
      PROVE  [line EXCEPT !.name = n] \in Text
  <2>1. line.score \in UNION {CutScores(v) : v \in Score}
    BY DEF Line, CutScores
  <2> QED
    BY <2>1 DEF Line, Text
<1> QED
  BY <1>1, <1>2 DEF Behind, Text

LEMMA FragmentsAreTexts ==
  ASSUME NEW line \in Line
  PROVE  Fragments(line) \subseteq Text
<1> SUFFICES ASSUME NEW text \in Fragments(line) PROVE text \in Text
  OBVIOUS
<1>1. CASE text = Skipped
  BY <1>1 DEF Text
<1>2. CASE text # Skipped
  <2>1. text \in [name : IF tail = << >> /\ Parses(line) THEN {line.name}
                         ELSE Player \cup {EmptyName},
                  score : CutScores(line.score)]
    BY <1>2 DEF Fragments
  <2>2. text \in [name : Player \cup {EmptyName}, score : UNION {CutScores(v) : v \in Score}]
    BY <2>1 DEF Line
  <2> QED
    BY <2>2 DEF Text
<1> QED
  BY <1>1, <1>2

LEMMA SpoiltIsFinite ==
  ASSUME DiskInv
  PROVE  IsFiniteSet(Spoilt) /\ Cardinality(Spoilt) \in Nat
<1>1. IsFiniteSet(1..Len(lines))
  BY FS_Interval DEF DiskInv
<1>2. Spoilt \subseteq 1..Len(lines)
  BY DEF Spoilt
<1> QED
  BY <1>1, <1>2, FS_Subset, FS_CardinalityType

\* A line that is stored spoils itself if there is a fragment, and ends it.
LEMMA SubmitStep ==
  ASSUME DiskInv, NEW line \in Line, SubmitScore(line)
  PROVE  DiskInv'
<1>1. PICK text \in Behind(line) : lines' = Append(lines, text)
  BY DEF SubmitScore
<1>2. tail' = << >> /\ told' = Append(told, line) /\ torn' = torn
  BY DEF SubmitScore, TailAfter
<1>3. text \in Text /\ lines \in Seq(Text) /\ told \in Seq(Line)
  BY <1>1, BehindIsText DEF DiskInv
<1>4. lines' \in Seq(Text) /\ tail' \in Seq(Text) /\ Len(tail') = 0 /\ told' \in Seq(Line)
  BY <1>1, <1>2, <1>3
<1> DEFINE n == Len(lines) + 1
<1>5. /\ Len(lines) \in Nat /\ Len(lines) = Len(told)
      /\ Len(lines') = n /\ Len(told') = n
      /\ lines'[n] = text /\ told'[n] = line
      /\ \A k \in 1..Len(lines) : lines'[k] = lines[k] /\ told'[k] = told[k]
  BY <1>1, <1>2, <1>3 DEF DiskInv, OneLinePerTear
<1> HIDE DEF n
<1>6. Cardinality(Spoilt') <= torn
  <2>1. IsFiniteSet(Spoilt) /\ Cardinality(Spoilt) \in Nat
    BY SpoiltIsFinite
  <2>2. torn \in Nat /\ Len(tail) \in Nat /\ Cardinality(Spoilt) + Len(tail) <= torn
    BY BoardAssumption DEF DiskInv, OneLinePerTear
  <2>3. CASE tail = << >>
    <3>1. text = line
      BY <1>1, <2>3, BehindIsText
    <3>2. Spoilt' = Spoilt
      BY <1>5, <3>1 DEF Spoilt, n
    <3> QED
      BY <2>1, <2>2, <3>2
  <2>4. CASE tail # << >>
    <3>1. Len(tail) >= 1
      BY <2>4 DEF DiskInv
    <3>2. Spoilt' \subseteq Spoilt \cup {n}
      BY <1>5 DEF Spoilt, n
    <3>3. /\ IsFiniteSet(Spoilt \cup {n})
          /\ Cardinality(Spoilt \cup {n}) <= Cardinality(Spoilt) + 1
          /\ Cardinality(Spoilt \cup {n}) \in Nat
      <4>1. IsFiniteSet(Spoilt \cup {n})
        BY <2>1, FS_AddElement
      <4>2. CASE n \in Spoilt
        <5>1. Spoilt \cup {n} = Spoilt
          BY <4>2
        <5>2. Cardinality(Spoilt \cup {n}) = Cardinality(Spoilt)
          BY <5>1
        <5> QED
          BY <2>1, <4>1, <5>2
      <4>3. CASE n \notin Spoilt
        <5>1. Cardinality(Spoilt \cup {n}) = Cardinality(Spoilt) + 1
          BY <2>1, <4>3, FS_AddElement
        <5> QED
          BY <2>1, <4>1, <5>1
      <4> QED
        BY <4>2, <4>3
    <3>4. Cardinality(Spoilt') <= Cardinality(Spoilt \cup {n}) /\ Cardinality(Spoilt') \in Nat
      BY <3>2, <3>3, FS_Subset, FS_CardinalityType
    <3> QED
      BY <2>1, <2>2, <3>1, <3>3, <3>4
  <2> QED
    BY <2>3, <2>4
<1>7. Cardinality(Spoilt') + Len(tail') <= torn'
  <2>1. IsFiniteSet(Spoilt') /\ Cardinality(Spoilt') \in Nat
    <3>1. IsFiniteSet(1..n)
      BY <1>5, FS_Interval
    <3>2. Spoilt' \subseteq 1..n
      BY <1>5 DEF Spoilt
    <3> QED
      BY <3>1, <3>2, FS_Subset, FS_CardinalityType
  <2> QED
    BY <1>2, <1>4, <1>6, <2>1
<1> QED
  BY <1>2, <1>4, <1>5, <1>7 DEF DiskInv, OneLinePerTear

\* A write that breaks off makes or extends the one fragment.
LEMMA TornStep ==
  ASSUME DiskInv, NEW line \in Line, SubmitTorn(line)
  PROVE  DiskInv'
<1>1. PICK text \in Fragments(line) : tail' = <<text>>
  BY DEF SubmitTorn
<1>2. /\ lines' = lines /\ told' = told
      /\ torn' = torn + 1 /\ torn < MaxTorn /\ torn \in Nat /\ MaxTorn \in Nat
  BY BoardAssumption DEF SubmitTorn, DiskInv
<1>3. tail' \in Seq(Text) /\ Len(tail') = 1
  BY <1>1, FragmentsAreTexts
<1>4. Cardinality(Spoilt) \in Nat /\ Cardinality(Spoilt) <= torn
  BY <1>2, SpoiltIsFinite DEF DiskInv, OneLinePerTear
<1>5. Spoilt' = Spoilt
  BY <1>2 DEF Spoilt
<1> QED
  BY <1>2, <1>3, <1>4, <1>5 DEF DiskInv, OneLinePerTear

\* The disk part of the inductive invariant holds in every reachable state.
THEOREM DiskInvHolds == Spec => []DiskInv
<1>1. Init => DiskInv
  <2> SUFFICES ASSUME Init PROVE DiskInv
    OBVIOUS
  <2>1. Spoilt = {}
    BY DEF Init, Spoilt
  <2>2. Cardinality(Spoilt) = 0
    BY <2>1, FS_EmptySet
  <2> QED
    BY <2>2, BoardAssumption DEF Init, DiskInv, OneLinePerTear
<1>2. DiskInv /\ [Next]_vars => DiskInv'
  <2> SUFFICES ASSUME DiskInv, [Next]_vars PROVE DiskInv'
    OBVIOUS
  <2>1. CASE \E line \in Line : SubmitScore(line) \/ SubmitTorn(line)
    BY <2>1, SubmitStep, TornStep
  <2>2. CASE UNCHANGED disk
    BY <2>2 DEF disk, DiskInv, OneLinePerTear, Spoilt
  <2>3. Load \/ LoadPart \/ Rank \/ LoadFails \/ UNCHANGED vars => UNCHANGED disk
    BY DEF Load, LoadPart, Rank, LoadFails, vars, disk
  <2> QED
    BY <2>1, <2>2, <2>3 DEF Next
<1> QED
  BY <1>1, <1>2, PTL DEF Spec

\* Every write of add_score_to_file that breaks off spoils at most one of the
\* lines it wrote whole.
THEOREM TearsAreBounded == Spec => []OneLinePerTear
  BY DiskInvHolds, PTL DEF DiskInv

-----------------------------------------------------------------------------
(* The loop of load_all_scores_from_file.                                  *)

Record == [name : Nat, score : Nat]

\* The loader stores only names and numbers.
LEMMA ParsedIsRecord ==
  ASSUME NEW text \in Text, Parses(text)
  PROVE  text \in Record
<1>1. text # Skipped /\ text # EndsLoad
  BY DEF Parses, Skipped, EndsLoad
<1>2. PICK v \in Score : text.score \in CutScores(v)
  BY <1>1 DEF Text
<1>3. v \in Nat
  BY BoardAssumption
<1>4. v \div 10 \in Nat /\ v \div 100 \in Nat /\ v \div 1000 \in Nat
  BY <1>3
<1>5. v \div 10000 \in Nat /\ v \div 100000 \in Nat /\ v \div 1000000 \in Nat
  BY <1>3
<1>6. v \div 10000000 \in Nat /\ v \div 100000000 \in Nat /\ v \div 1000000000 \in Nat
  BY <1>3
<1>7. text.score \in Nat
  BY <1>2, <1>3, <1>4, <1>5, <1>6 DEF CutScores, PowersOfTen
<1>8. text.name \in Nat
  <2>1. text.name \in Player \cup {0}
    BY <1>1 DEF Text, EmptyName
  <2>2. Player \cup {0} \subseteq Nat
    BY BoardAssumption
  <2> QED
    BY <2>1, <2>2
<1> QED
  BY <1>1, <1>7, <1>8 DEF Text, Record

\* What the recursive function says of the loop: it starts with no record, and
\* each turn does to the array what Stored says.
LEMMA LoadingTurns ==
  ASSUME NEW file \in Seq(Text)
  PROVE  /\ Loading(file) \in [0..Len(file) -> Seq(Text)]
         /\ Loading(file)[0] = << >>
         /\ \A k \in 1..Len(file) :
              Loading(file)[k] = Stored(file, k, Loading(file)[k - 1])
<1> DEFINE N == Len(file)
           G == [k \in 1..N |-> [array \in Seq(Text) |-> Stored(file, k, array)]]
           Runs(f) == f = [k \in 0..N |->
                             IF k = 0 THEN << >> ELSE Stored(file, k, f[k - 1])]
           load == Loading(file)
<1>1. N \in Nat /\ << >> \in Seq(Text)
  OBVIOUS
<1>2. ASSUME NEW k \in 1..N, NEW array \in Seq(Text)
      PROVE  Stored(file, k, array) \in Seq(Text)
  BY DEF Stored
<1>3. G \in [1..N -> [Seq(Text) -> Seq(Text)]]
  BY <1>2
<1>4. PICK f \in [0..N -> Seq(Text)] :
        f[0] = << >> /\ \A k \in 1..N : f[k] = G[k][f[k - 1]]
  <2> DEFINE A == Seq(Text)
             a == << >>
  <2>1. a \in A /\ N \in Nat /\ G \in [1..N -> [A -> A]]
    BY <1>1, <1>3
  <2>2. \E f \in [0..N -> A] : f[0] = a /\ \A k \in 1..N : f[k] = G[k][f[k - 1]]
    <3> HIDE DEF A, a, G, N
    <3> QED
      BY <2>1, LoopRuns
  <2> QED
    BY <2>2
<1>5. ASSUME NEW k \in 1..N
      PROVE  f[k] = Stored(file, k, f[k - 1])
  <2>1. f[k - 1] \in Seq(Text)
    BY <1>1
  <2> QED
    BY <1>4, <2>1
<1> HIDE DEF N, G
<1>6. Runs(f)
  BY <1>1, <1>4, <1>5
<1>7. load = CHOOSE h : Runs(h)
  BY DEF Loading, N
<1>8. Runs(load)
  BY <1>6, <1>7
<1> HIDE DEF load
<1>9. /\ DOMAIN load = 0..N
      /\ load[0] = << >>
      /\ \A k \in 1..N : load[k] = Stored(file, k, load[k - 1])
  BY <1>1, <1>8
<1>10. \A k \in 0..N : load[k] \in Seq(Text)
  <2> DEFINE S == {k \in 0..N : load[k] \in Seq(Text)}
  <2>1. 0 \in S
    <3>1. 0 \in 0..N /\ load[0] \in Seq(Text)
      BY <1>1, <1>9
    <3> QED
      BY <3>1
  <2>2. ASSUME NEW k \in 1..N, k - 1 \in S
        PROVE  k \in S
    BY <1>1, <1>2, <1>9, <2>2
  <2>3. \A k \in 0..N : k \in S
    <3> HIDE DEF S
    <3> QED
      BY <1>1, <2>1, <2>2, LoopInduction
  <2> QED
    BY <2>3
<1> QED
  BY <1>8, <1>9, <1>10 DEF load, N

\* Every record comes from a line that parses, and the array does not overflow.
LEMMA LoadedRecords ==
  ASSUME NEW file \in Seq(Text)
  PROVE  /\ Loaded(file) \in Seq(Text)
         /\ Len(Loaded(file)) <= MaxRecords
         /\ \A i \in DOMAIN Loaded(file) :
              /\ Parses(Loaded(file)[i])
              /\ \E j \in DOMAIN file : Loaded(file)[i] = file[j]
<1> DEFINE N == Len(file)
           load == Loading(file)
           Sound(s) == /\ Len(s) <= MaxRecords
                       /\ \A i \in DOMAIN s : /\ Parses(s[i])
                                              /\ \E j \in DOMAIN file : s[i] = file[j]
           S == {k \in 0..N : Sound(load[k])}
<1>1. /\ N \in Nat /\ DOMAIN file = 1..N /\ load \in [0..N -> Seq(Text)]
      /\ load[0] = << >> /\ \A k \in 1..N : load[k] = Stored(file, k, load[k - 1])
  BY LoadingTurns
<1> HIDE DEF load, N
<1>2. 0 \in S
  BY <1>1, BoardAssumption
<1>3. ASSUME NEW k \in 1..N, k - 1 \in S
      PROVE  k \in S
  <2>1. load[k - 1] \in Seq(Text) /\ Sound(load[k - 1]) /\ file[k] \in Text
    BY <1>1, <1>3
  <2>2. CASE Stores(file, k, Len(load[k - 1]))
    <3>1. load[k] = Append(load[k - 1], file[k])
      BY <1>1, <2>2 DEF Stored
    <3>2. Parses(file[k]) /\ Len(load[k - 1]) < MaxRecords
      BY <2>2 DEF Stores
    <3>3. Len(load[k]) <= MaxRecords
      BY <2>1, <3>1, <3>2, BoardAssumption
    <3>4. ASSUME NEW i \in DOMAIN load[k]
          PROVE  Parses(load[k][i]) /\ \E j \in DOMAIN file : load[k][i] = file[j]
      <4>1. CASE i = Len(load[k - 1]) + 1
        <5>1. load[k][i] = file[k] /\ k \in DOMAIN file
          BY <1>1, <2>1, <3>1, <4>1
        <5> QED
          BY <3>2, <5>1
      <4>2. CASE i # Len(load[k - 1]) + 1
        <5>1. i \in DOMAIN load[k - 1] /\ load[k][i] = load[k - 1][i]
          BY <2>1, <3>1, <4>2
        <5> QED
          BY <2>1, <5>1
      <4> QED
        BY <4>1, <4>2
    <3> QED
      BY <3>3, <3>4
  <2>3. CASE ~Stores(file, k, Len(load[k - 1]))
    <3>1. load[k] = load[k - 1]
      BY <1>1, <2>3 DEF Stored
    <3> QED
      BY <2>1, <3>1
  <2> QED
    BY <2>2, <2>3
<1>4. N \in S
  <2>1. \A k \in 0..N : k \in S
    <3> HIDE DEF S
    <3> QED
      BY <1>1, <1>2, <1>3, LoopInduction
  <2> QED
    BY <1>1, <2>1
<1> QED
  BY <1>1, <1>4 DEF Loaded, load, N

\* A line that is appended leaves the turns before it as they were.
LEMMA LoadingGrows ==
  ASSUME NEW file \in Seq(Text), NEW text \in Text
  PROVE  \A i \in DOMAIN Loaded(file) :
           /\ i \in DOMAIN Loaded(Append(file, text))
           /\ Loaded(Append(file, text))[i] = Loaded(file)[i]
<1> DEFINE N == Len(file)
           longer == Append(file, text)
           load == Loading(file)
           reload == Loading(longer)
           S == {k \in 0..N : reload[k] = load[k]}
<1>1. /\ longer \in Seq(Text) /\ N \in Nat /\ Len(longer) = N + 1
      /\ \A j \in 1..N : longer[j] = file[j]
  OBVIOUS
<1>2. /\ load \in [0..N -> Seq(Text)] /\ load[0] = << >>
      /\ \A k \in 1..N : load[k] = Stored(file, k, load[k - 1])
  BY LoadingTurns
<1>3. /\ reload \in [0..(N + 1) -> Seq(Text)] /\ reload[0] = << >>
      /\ \A k \in 1..(N + 1) : reload[k] = Stored(longer, k, reload[k - 1])
  <2> HIDE DEF longer
  <2> QED
    BY <1>1, LoadingTurns
<1> HIDE DEF N, load, reload, longer
<1>4. 0 \in S
  BY <1>1, <1>2, <1>3
<1>5. ASSUME NEW k \in 1..N, k - 1 \in S
      PROVE  k \in S
  <2>1. \A j \in 1..k : longer[j] = file[j]
    BY <1>1
  <2>2. \A n : Stores(longer, k, n) <=> Stores(file, k, n)
    BY <1>1, <2>1 DEF Stores
  <2>3. Stored(longer, k, load[k - 1]) = Stored(file, k, load[k - 1])
    BY <1>1, <2>1, <2>2 DEF Stored
  <2>4. reload[k] = Stored(longer, k, reload[k - 1]) /\ reload[k - 1] = load[k - 1]
    BY <1>1, <1>3, <1>5
  <2> QED
    BY <1>2, <2>3, <2>4
<1>6. reload[N] = load[N]
  <2>1. \A k \in 0..N : k \in S
    <3> HIDE DEF S
    <3> QED
      BY <1>1, <1>4, <1>5, LoopInduction
  <2> QED
    BY <1>1, <2>1
<1>7. reload[N + 1] = Stored(longer, N + 1, load[N]) /\ load[N] \in Seq(Text)
  BY <1>1, <1>2, <1>3, <1>6
<1>8. \A i \in DOMAIN load[N] : i \in DOMAIN reload[N + 1] /\ reload[N + 1][i] = load[N][i]
  BY <1>1, <1>7 DEF Stored, longer
<1>9. Loaded(file) = load[N] /\ Loaded(longer) = reload[N + 1]
  BY <1>1 DEF Loaded, load, N, reload
<1> QED
  BY <1>8, <1>9 DEF longer

-----------------------------------------------------------------------------
(* qsort.                                                                  *)

\* A permutation reaches every position.
LEMMA PermutationIsOnto ==
  ASSUME NEW n \in Nat, NEW p \in [1..n -> 1..n],
         \A i, j \in 1..n : i # j => p[i] # p[j]
  PROVE  \A j \in 1..n : \E i \in 1..n : p[i] = j
<1> DEFINE T == {p[i] : i \in 1..n}
<1>1. IsFiniteSet(1..n)
  BY FS_Interval
<1>2. p \in Surjection(1..n, T) /\ p \in Injection(1..n, T)
  BY DEF Surjection, Injection, IsInjective
<1>3. Cardinality(T) = Cardinality(1..n)
  <2> HIDE DEF T
  <2> QED
    BY <1>1, <1>2, FS_Surjection
<1>4. T \subseteq 1..n
  OBVIOUS
<1>5. T = 1..n
  <2> HIDE DEF T
  <2> QED
    BY <1>1, <1>3, <1>4, FS_Subset
<1> QED
  BY <1>5

\* qsort neither loses nor invents nor repeats an element.
LEMMA PermutedElements ==
  ASSUME NEW A, NEW s \in Seq(A), NEW t \in Permuted(s)
  PROVE  /\ t \in Seq(A) /\ Len(t) = Len(s) /\ DOMAIN t = DOMAIN s
         /\ \A i \in DOMAIN s : \E k \in DOMAIN s : t[i] = s[k]
         /\ \A k \in DOMAIN s : \E i \in DOMAIN s : t[i] = s[k]
         /\ \A i, j \in DOMAIN s : i # j =>
              \E k, m \in DOMAIN s : k # m /\ t[i] = s[k] /\ t[j] = s[m]
<1> DEFINE n == Len(s)
<1>1. n \in Nat /\ DOMAIN s = 1..n
  OBVIOUS
<1>2. Cardinality(DOMAIN s) = n
  BY <1>1, FS_Interval
<1>3. PICK p \in SetToSeqs(DOMAIN s) : t = [k \in DOMAIN s |-> s[p[k]]]
  BY DEF Permuted
<1>4. p \in [1..n -> 1..n] /\ \A i, j \in 1..n : i # j => p[i] # p[j]
  BY <1>1, <1>2, <1>3 DEF SetToSeqs
<1>5. \A j \in 1..n : \E i \in 1..n : p[i] = j
  BY <1>1, <1>4, PermutationIsOnto
<1>6. t \in [1..n -> A]
  BY <1>1, <1>3, <1>4
<1>7. t \in Seq(A) /\ Len(t) = n
  BY <1>1, <1>6
<1>8. \A i \in DOMAIN s : t[i] = s[p[i]]
  BY <1>3
<1>9. /\ p \in [DOMAIN s -> DOMAIN s]
      /\ \A i, j \in DOMAIN s : i # j => p[i] # p[j]
      /\ \A j \in DOMAIN s : \E i \in DOMAIN s : p[i] = j
  BY <1>1, <1>4, <1>5
<1>10. DOMAIN t = DOMAIN s /\ Len(t) = Len(s)
  BY <1>1, <1>6, <1>7
<1>11. \A i \in DOMAIN s : \E k \in DOMAIN s : t[i] = s[k]
  BY <1>8, <1>9
<1>12. ASSUME NEW k \in DOMAIN s
       PROVE  \E i \in DOMAIN s : t[i] = s[k]
  <2>1. PICK i \in DOMAIN s : p[i] = k
    BY <1>9
  <2> QED
    BY <1>8, <2>1
<1>13. ASSUME NEW i \in DOMAIN s, NEW j \in DOMAIN s, i # j
       PROVE  \E k, m \in DOMAIN s : k # m /\ t[i] = s[k] /\ t[j] = s[m]
  <2>1. /\ p[i] \in DOMAIN s /\ p[j] \in DOMAIN s /\ p[i] # p[j]
        /\ t[i] = s[p[i]] /\ t[j] = s[p[j]]
    BY <1>8, <1>9, <1>13
  <2> QED
    BY <2>1
<1> QED
  BY <1>7, <1>10, <1>11, <1>12, <1>13

\* A sequence can be put in order, whatever the order: the elements are inserted
\* one by one.  (qsort's result exists, so that Sortings and Rankings are not empty.)
LEMMA SortExists ==
  ASSUME NEW A, NEW R,
         \A x, y \in A : <<x, y>> \in R \/ <<y, x>> \in R,
         \A x, y, z \in A : <<x, y>> \in R /\ <<y, z>> \in R => <<x, z>> \in R,
         NEW s \in Seq(A)
  PROVE  \E t \in Permuted(s) : \A i, j \in DOMAIN s : i < j => <<t[i], t[j]>> \in R
<1> DEFINE N == Len(s)
           Sorts(k, p) == /\ \A i, j \in 1..k : i # j => p[i] # p[j]
                          /\ \A i, j \in 1..k : i < j => <<s[p[i]], s[p[j]]>> \in R
           S == {k \in 0..N : \E p \in [1..k -> 1..k] : Sorts(k, p)}
<1>1. N \in Nat /\ DOMAIN s = 1..N /\ \A i \in 1..N : s[i] \in A
  OBVIOUS
<1>2. 0 \in S
  <2> DEFINE p == [i \in 1..0 |-> i]
  <2>1. p \in [1..0 -> 1..0] /\ Sorts(0, p)
    OBVIOUS
  <2>2. 0 \in 0..N
    BY <1>1
  <2> HIDE DEF p, Sorts
  <2> QED
    BY <2>1, <2>2
<1>3. ASSUME NEW k \in 1..N, k - 1 \in S
      PROVE  k \in S
  <2>1. PICK p \in [1..(k - 1) -> 1..(k - 1)] : Sorts(k - 1, p)
    BY <1>3
  <2> DEFINE T == {i \in 1..(k - 1) : <<s[k], s[p[i]]>> \in R} \cup {k}
  <2>2. PICK q \in T : \A i \in T : q <= i
    <3>1. k \in Nat /\ k \in T
      BY <1>1
    <3>2. \A i \in T : i \in Nat
      BY <3>1
    <3> HIDE DEF T
    <3>3. T \subseteq Nat /\ T # {}
      BY <3>1, <3>2
    <3> QED
      BY <3>3, LeastElement
  <2>3. k \in Nat /\ q \in 1..k
    BY <1>1
  <2> DEFINE g == [i \in 1..k |-> IF i < q THEN p[i] ELSE IF i = q THEN k ELSE p[i - 1]]
  <2>4. /\ \A i \in 1..k : i < q => i \in 1..(k - 1) /\ g[i] = p[i]
        /\ g[q] = k
        /\ \A i \in 1..k : q < i => i - 1 \in 1..(k - 1) /\ g[i] = p[i - 1]
    BY <2>3
  <2>5. g \in [1..k -> 1..k]
    <3>1. \A i \in 1..(k - 1) : p[i] \in 1..k
      BY <2>3
    <3> QED
      BY <2>3, <3>1
  <2> HIDE DEF g
  <2>6. \A i \in 1..(k - 1) : p[i] \in 1..(k - 1) /\ p[i] # k /\ s[p[i]] \in A /\ s[k] \in A
    <3>1. ASSUME NEW m \in 1..(k - 1)
          PROVE  m # k /\ m \in 1..N
      BY <1>1
    <3>2. \A i \in 1..(k - 1) : p[i] \in 1..(k - 1)
      OBVIOUS
    <3> HIDE DEF N
    <3> QED
      BY <1>1, <3>1, <3>2
  <2>7. ASSUME NEW i \in 1..k, NEW j \in 1..k, i < j
        PROVE  g[i] # g[j] /\ <<s[g[i]], s[g[j]]>> \in R
    <3>1. ASSUME NEW a \in 1..(k - 1), NEW b \in 1..(k - 1), a < b
          PROVE  p[a] # p[b] /\ <<s[p[a]], s[p[b]]>> \in R
      <4>1. a # b
        BY <2>3, <3>1
      <4> QED
        BY <2>1, <3>1, <4>1
    <3>2. CASE j < q
      <4>1. i < q
        BY <2>3, <2>7, <3>2
      <4>2. i \in 1..(k - 1) /\ j \in 1..(k - 1) /\ g[i] = p[i] /\ g[j] = p[j]
        BY <2>4, <3>2, <4>1
      <4>3. p[i] # p[j] /\ <<s[p[i]], s[p[j]]>> \in R
        BY <2>7, <3>1, <4>2
      <4> QED
        BY <4>2, <4>3
    <3>3. CASE i < q /\ j = q
      <4>1. i \in 1..(k - 1) /\ g[i] = p[i] /\ g[j] = k
        BY <2>4, <3>3
      <4>2. i \notin T
        <5> HIDE DEF T
        <5>1. i \in Nat /\ q \in Nat /\ ~(q <= i)
          BY <2>3, <3>3
        <5> QED
          BY <2>2, <5>1
      <4>3. <<s[p[i]], s[k]>> \in R
        BY <2>6, <4>1, <4>2
      <4> QED
        BY <2>6, <4>1, <4>3
    <3>4. CASE i < q /\ q < j
      <4>1. i \in 1..(k - 1) /\ j - 1 \in 1..(k - 1) /\ g[i] = p[i] /\ g[j] = p[j - 1]
        BY <2>4, <3>4
      <4>2. i < j - 1
        BY <2>3, <3>4
      <4>3. p[i] # p[j - 1] /\ <<s[p[i]], s[p[j - 1]]>> \in R
        BY <3>1, <4>1, <4>2
      <4> QED
        BY <4>1, <4>3
    <3>5. CASE i = q /\ q < j
      <4>1. g[i] = k /\ j - 1 \in 1..(k - 1) /\ g[j] = p[j - 1]
        BY <2>4, <3>5
      <4>2. q \in 1..(k - 1) /\ <<s[k], s[p[q]]>> \in R
        BY <2>2, <2>3, <3>5
      <4>3. <<s[k], s[p[j - 1]]>> \in R
        <5>1. CASE j - 1 = q
          BY <4>2, <5>1
        <5>2. CASE j - 1 # q
          <6>1. q < j - 1
            BY <2>3, <3>5, <5>2
          <6>2. <<s[p[q]], s[p[j - 1]]>> \in R
            BY <3>1, <4>1, <4>2, <6>1
          <6>3. s[p[q]] \in A /\ s[p[j - 1]] \in A /\ s[k] \in A
            BY <2>6, <4>1, <4>2
          <6> QED
            BY <4>2, <6>2, <6>3
        <5> QED
          BY <5>1, <5>2
      <4> QED
        BY <2>6, <4>1, <4>3
    <3>6. CASE q < i
      <4>1. q < j
        BY <2>3, <2>7, <3>6
      <4>2. /\ i - 1 \in 1..(k - 1) /\ j - 1 \in 1..(k - 1)
            /\ g[i] = p[i - 1] /\ g[j] = p[j - 1]
        BY <2>4, <3>6, <4>1
      <4>3. i - 1 < j - 1
        BY <2>7
      <4>4. p[i - 1] # p[j - 1] /\ <<s[p[i - 1]], s[p[j - 1]]>> \in R
        BY <3>1, <4>2, <4>3
      <4> QED
        BY <4>2, <4>4
    <3> QED
      BY <2>3, <2>7, <3>2, <3>3, <3>4, <3>5, <3>6
  <2>8. Sorts(k, g)
    <3>1. ASSUME NEW i \in 1..k, NEW j \in 1..k, i # j
          PROVE  g[i] # g[j]
      <4>1. i < j \/ j < i
        BY <3>1
      <4> QED
        BY <2>7, <4>1
    <3> QED
      BY <2>7, <3>1
  <2>9. k \in 0..N
    BY <1>1
  <2> HIDE DEF Sorts
  <2> QED
    BY <2>5, <2>8, <2>9
<1>4. \A k \in 0..N : k \in S
  <2> HIDE DEF S, N
  <2> QED
    BY <1>1, <1>2, <1>3, LoopInduction
<1>5. PICK p \in [1..N -> 1..N] : Sorts(N, p)
  <2>1. N \in S
    <3> HIDE DEF S
    <3> QED
      BY <1>1, <1>4
  <2> HIDE DEF Sorts
  <2> QED
    BY <2>1
<1>6. p \in SetToSeqs(DOMAIN s)
  <2>1. Cardinality(1..N) = N
    <3> HIDE DEF N
    <3> QED
      BY <1>1, FS_Interval
  <2> QED
    BY <1>1, <1>5, <2>1 DEF SetToSeqs
<1> DEFINE t == [i \in DOMAIN s |-> s[p[i]]]
<1>7. t \in Permuted(s)
  BY <1>6 DEF Permuted
<1>8. \A i, j \in DOMAIN s : i < j => <<t[i], t[j]>> \in R
  BY <1>1, <1>5
<1> HIDE DEF t
<1> QED
  BY <1>7, <1>8

-----------------------------------------------------------------------------
(* The loop of get_leaderboard_impl.                                       *)

Progress == [entries : Seq(Record), last : Nat]

\* What the recursive function says of the loop.
LEMMA CollectingTurns ==
  ASSUME NEW s \in Seq(Record)
  PROVE  /\ Collecting(s) \in [0..Len(s) -> Progress]
         /\ Collecting(s)[0] = [entries |-> << >>, last |-> EmptyName]
         /\ \A k \in 1..Len(s) : Collecting(s)[k] = Entry(Collecting(s)[k - 1], s[k])
<1> DEFINE N == Len(s)
           a == [entries |-> << >>, last |-> EmptyName]
           G == [k \in 1..N |-> [acc \in Progress |-> Entry(acc, s[k])]]
           Runs(f) == f = [k \in 0..N |-> IF k = 0 THEN a ELSE Entry(f[k - 1], s[k])]
           scan == Collecting(s)
<1>1. N \in Nat /\ a \in Progress
  BY DEF Progress, EmptyName
<1>2. ASSUME NEW k \in 1..N, NEW acc \in Progress
      PROVE  Entry(acc, s[k]) \in Progress
  <2>1. s[k] \in Record /\ s[k].name \in Nat
    <3>1. s[k] \in Record
      OBVIOUS
    <3> QED
      BY <3>1 DEF Record
  <2>2. Append(acc.entries, s[k]) \in Seq(Record)
    BY <2>1 DEF Progress
  <2> QED
    BY <2>1, <2>2 DEF Progress, Entry
<1>3. G \in [1..N -> [Progress -> Progress]]
  BY <1>2
<1>4. PICK f \in [0..N -> Progress] : f[0] = a /\ \A k \in 1..N : f[k] = G[k][f[k - 1]]
  <2> HIDE DEF G, N, a
  <2> QED
    BY <1>1, <1>3, LoopRuns
<1>5. ASSUME NEW k \in 1..N
      PROVE  f[k] = Entry(f[k - 1], s[k])
  <2>1. f[k - 1] \in Progress
    BY <1>1
  <2> QED
    BY <1>4, <2>1
<1>7. scan = CHOOSE h : Runs(h)
  BY DEF Collecting
<1> HIDE DEF N, G, a
<1>6. Runs(f)
  BY <1>1, <1>4, <1>5
<1>8. Runs(scan)
  BY <1>6, <1>7
<1> HIDE DEF scan
<1>9. /\ DOMAIN scan = 0..N
      /\ scan[0] = a
      /\ \A k \in 1..N : scan[k] = Entry(scan[k - 1], s[k])
  BY <1>1, <1>8
<1>10. \A k \in 0..N : scan[k] \in Progress
  <2> DEFINE S == {k \in 0..N : scan[k] \in Progress}
  <2>1. 0 \in S
    BY <1>1, <1>9
  <2>2. ASSUME NEW k \in 1..N, k - 1 \in S
        PROVE  k \in S
    BY <1>1, <1>2, <1>9, <2>2
  <2>3. \A k \in 0..N : k \in S
    <3> HIDE DEF S
    <3> QED
      BY <1>1, <2>1, <2>2, LoopInduction
  <2> QED
    BY <2>3
<1> QED
  BY <1>8, <1>9, <1>10 DEF scan, N, a

Ordered(s) == \A i, j \in DOMAIN s : i < j => Before(s[i], s[j])

\* The first line of its name among the sorted records.
First(s, j) == \A m \in 1..(j - 1) : s[m].name < s[j].name

\* The loop invariant, after k turns: the entries are first lines, their names
\* ascend and none is empty, last_processed_user is the greatest of them, and no
\* name was passed over while there was room.
Scanned(s, k, acc) ==
  /\ Len(acc.entries) <= MaxEntries
  /\ \A i \in DOMAIN acc.entries : \E j \in 1..k : acc.entries[i] = s[j] /\ First(s, j)
  /\ \A i \in DOMAIN acc.entries :
       acc.entries[i].name <= acc.last /\ acc.entries[i].name # EmptyName
  /\ \A i, j \in DOMAIN acc.entries : i < j => acc.entries[i].name < acc.entries[j].name
  /\ \/ acc.last = EmptyName
     \/ \E m \in 1..k : s[m].name = acc.last
  /\ \/ acc.last = EmptyName
     \/ \E i \in DOMAIN acc.entries : acc.entries[i].name = acc.last
  /\ Len(acc.entries) < MaxEntries =>
       \A m \in 1..k :
         /\ s[m].name <= acc.last
         /\ \/ s[m].name = EmptyName
            \/ \E i \in DOMAIN acc.entries : acc.entries[i].name = s[m].name

\* A turn that opens an entry.
LEMMA ScanOpens ==
  ASSUME NEW s \in Seq(Record), Ordered(s), NEW k \in 1..Len(s),
         NEW acc \in Progress, Scanned(s, k - 1, acc),
         s[k].name # acc.last, Len(acc.entries) < MaxEntries
  PROVE  Scanned(s, k, Entry(acc, s[k]))
<1> DEFINE e == acc.entries
           new == Append(e, s[k])
           L == Len(e)
<1>1. /\ e \in Seq(Record) /\ L \in Nat /\ acc.last \in Nat
      /\ k \in Nat /\ k \in DOMAIN s /\ MaxEntries \in Nat
  BY BoardAssumption DEF Progress
<1>2. /\ \A m \in 1..Len(s) : s[m] \in Record
      /\ \A m \in 1..Len(s) : s[m].name \in Nat
  <2>1. \A m \in 1..Len(s) : s[m] \in Record
    OBVIOUS
  <2> QED
    BY <2>1 DEF Record
<1>3. Entry(acc, s[k]) = [entries |-> new, last |-> s[k].name]
  BY DEF Entry
<1>4. /\ new \in Seq(Record) /\ Len(new) = L + 1 /\ DOMAIN new = 1..(L + 1)
      /\ new[L + 1] = s[k] /\ \A i \in 1..L : new[i] = e[i]
      /\ DOMAIN e = 1..L
  BY <1>1, <1>2
<1> HIDE DEF new
<1>5. acc.last < s[k].name
  <2>1. CASE acc.last = EmptyName
    BY <1>1, <1>2, <2>1 DEF EmptyName
  <2>2. CASE acc.last # EmptyName
    <3>1. PICK m \in 1..(k - 1) : s[m].name = acc.last
      BY <2>2 DEF Scanned
    <3>2. Before(s[m], s[k])
      BY <1>1, <3>1 DEF Ordered
    <3> QED
      BY <1>1, <1>2, <3>1, <3>2 DEF Before
  <2> QED
    BY <2>1, <2>2
<1>6. \A m \in 1..(k - 1) : s[m].name <= acc.last
  BY DEF Scanned
<1>7. First(s, k)
  BY <1>1, <1>2, <1>5, <1>6 DEF First
<1>8. \A i \in 1..L : e[i].name <= acc.last /\ e[i].name # EmptyName /\ e[i].name \in Nat
  <2>1. \A i \in 1..L : e[i] \in Record
    BY <1>1
  <2> QED
    BY <1>4, <2>1 DEF Scanned, Record
<1>9. Len(new) <= MaxEntries
  BY <1>1, <1>4
<1>10. ASSUME NEW i \in DOMAIN new
       PROVE  \E j \in 1..k : new[i] = s[j] /\ First(s, j)
  <2>1. CASE i = L + 1
    BY <1>1, <1>4, <1>7, <2>1
  <2>2. CASE i # L + 1
    <3>1. i \in 1..L /\ new[i] = e[i]
      BY <1>1, <1>4, <2>2
    <3>2. PICK j \in 1..(k - 1) : e[i] = s[j] /\ First(s, j)
      BY <1>4, <3>1 DEF Scanned
    <3> QED
      BY <1>1, <3>1, <3>2
  <2> QED
    BY <2>1, <2>2
<1>11. \A i \in DOMAIN new : new[i].name <= s[k].name /\ new[i].name # EmptyName
  <2>1. s[k].name # EmptyName
    BY <1>1, <1>2, <1>5 DEF EmptyName
  <2>2. ASSUME NEW i \in 1..L
        PROVE  e[i].name <= s[k].name /\ e[i].name # EmptyName
    BY <1>1, <1>2, <1>5, <1>8
  <2> SUFFICES ASSUME NEW i \in DOMAIN new
               PROVE  new[i].name <= s[k].name /\ new[i].name # EmptyName
    OBVIOUS
  <2>3. CASE i = L + 1
    BY <1>1, <1>2, <1>4, <2>1, <2>3
  <2>4. CASE i # L + 1
    <3>1. i \in 1..L /\ new[i] = e[i]
      BY <1>1, <1>4, <2>4
    <3> QED
      BY <2>2, <3>1
  <2> QED
    BY <2>3, <2>4
<1>12. \A i, j \in DOMAIN new : i < j => new[i].name < new[j].name
  <2>1. \A i, j \in 1..L : i < j => e[i].name < e[j].name
    BY <1>4 DEF Scanned
  <2>2. ASSUME NEW i \in 1..L
        PROVE  e[i].name < s[k].name
    <3>1. /\ e[i].name \in Nat /\ e[i].name <= acc.last
          /\ acc.last \in Nat /\ s[k].name \in Nat
      BY <1>1, <1>2, <1>8
    <3> QED
      BY <1>5, <3>1
  <2> SUFFICES ASSUME NEW i \in DOMAIN new, NEW j \in DOMAIN new, i < j
               PROVE  new[i].name < new[j].name
    OBVIOUS
  <2>3. i \in 1..L /\ new[i] = e[i]
    BY <1>1, <1>4
  <2>4. CASE j = L + 1
    <3>1. new[j] = s[k] /\ e[i].name < s[k].name
      BY <1>4, <2>2, <2>3, <2>4
    <3> QED
      BY <2>3, <3>1
  <2>5. CASE j # L + 1
    <3>1. j \in 1..L /\ new[j] = e[j]
      BY <1>1, <1>4, <2>5
    <3> QED
      BY <2>1, <2>3, <3>1
  <2> QED
    BY <2>4, <2>5
<1>13. \A m \in 1..k :
         /\ s[m].name <= s[k].name
         /\ \/ s[m].name = EmptyName
            \/ \E i \in DOMAIN new : new[i].name = s[m].name
  <2> SUFFICES ASSUME NEW m \in 1..k
               PROVE  /\ s[m].name <= s[k].name
                      /\ \/ s[m].name = EmptyName
                         \/ \E i \in DOMAIN new : new[i].name = s[m].name
    OBVIOUS
  <2>1. CASE m = k
    BY <1>1, <1>2, <1>4, <2>1
  <2>2. CASE m # k
    <3>1. m \in 1..(k - 1) /\ m \in 1..Len(s)
      BY <1>1, <2>2
    <3>2. s[m].name <= s[k].name
      BY <1>1, <1>2, <1>5, <1>6, <3>1
    <3>3. \/ s[m].name = EmptyName
          \/ \E i \in 1..L : e[i].name = s[m].name
      BY <1>4, <3>1 DEF Scanned
    <3>4. \A i \in 1..L : i \in DOMAIN new /\ new[i] = e[i]
      BY <1>1, <1>4
    <3> HIDE DEF e, L
    <3> QED
      BY <3>2, <3>3, <3>4
  <2> QED
    BY <2>1, <2>2
<1>14. \E i \in DOMAIN new : new[i].name = s[k].name
  <2>1. L + 1 \in DOMAIN new /\ new[L + 1].name = s[k].name
    BY <1>1, <1>4
  <2> QED
    BY <2>1
<1>15. \E m \in 1..k : s[m].name = s[k].name
  BY <1>1
<1> QED
  BY <1>3, <1>9, <1>10, <1>11, <1>12, <1>13, <1>14, <1>15 DEF Scanned

\* A turn that opens none.
LEMMA ScanPasses ==
  ASSUME NEW s \in Seq(Record), NEW k \in 1..Len(s),
         NEW acc \in Progress, Scanned(s, k - 1, acc),
         s[k].name = acc.last \/ ~(Len(acc.entries) < MaxEntries)
  PROVE  Scanned(s, k, acc)
<1> DEFINE e == acc.entries
<1>1. k \in Nat /\ acc.last \in Nat
  BY DEF Progress
<1>2. \A m \in 1..(k - 1) : m \in 1..k
  BY <1>1
<1>3. \A i \in DOMAIN e : \E j \in 1..k : e[i] = s[j] /\ First(s, j)
  BY <1>2 DEF Scanned
<1>4. acc.last = EmptyName \/ \E m \in 1..k : s[m].name = acc.last
  BY <1>2 DEF Scanned
<1>5. ASSUME Len(e) < MaxEntries, NEW m \in 1..k
      PROVE  /\ s[m].name <= acc.last
             /\ s[m].name = EmptyName \/ \E i \in DOMAIN e : e[i].name = s[m].name
  <2>1. CASE m = k
    BY <1>1, <1>5, <2>1 DEF Scanned
  <2>2. CASE m # k
    <3>1. m \in 1..(k - 1)
      BY <1>1, <2>2
    <3> QED
      BY <1>5, <3>1 DEF Scanned
  <2> QED
    BY <2>1, <2>2
<1> QED
  BY <1>3, <1>4, <1>5 DEF Scanned

LEMMA ScanHolds ==
  ASSUME NEW s \in Seq(Record), Ordered(s)
  PROVE  Scanned(s, Len(s), Collecting(s)[Len(s)])
<1> DEFINE N == Len(s)
           scan == Collecting(s)
           S == {k \in 0..N : Scanned(s, k, scan[k])}
<1>1. /\ N \in Nat /\ scan \in [0..N -> Progress]
      /\ scan[0] = [entries |-> << >>, last |-> EmptyName]
      /\ \A k \in 1..N : scan[k] = Entry(scan[k - 1], s[k])
  BY CollectingTurns
<1> HIDE DEF scan
<1>2. 0 \in S
  <2>1. scan[0].entries = << >> /\ scan[0].last = EmptyName
    BY <1>1
  <2>2. Scanned(s, 0, scan[0])
    BY <2>1, BoardAssumption DEF Scanned
  <2> QED
    BY <1>1, <2>2
<1>3. ASSUME NEW k \in 1..N, k - 1 \in S
      PROVE  k \in S
  <2>1. scan[k - 1] \in Progress /\ Scanned(s, k - 1, scan[k - 1])
    BY <1>1, <1>3
  <2>2. CASE s[k].name # scan[k - 1].last /\ Len(scan[k - 1].entries) < MaxEntries
    <3>1. Scanned(s, k, Entry(scan[k - 1], s[k]))
      BY <2>1, <2>2, ScanOpens
    <3> QED
      BY <1>1, <3>1
  <2>3. CASE ~(s[k].name # scan[k - 1].last /\ Len(scan[k - 1].entries) < MaxEntries)
    <3>1. Scanned(s, k, scan[k - 1])
      BY <2>1, <2>3, ScanPasses
    <3>2. Entry(scan[k - 1], s[k]) = scan[k - 1]
      BY <2>3 DEF Entry
    <3> QED
      BY <1>1, <3>1, <3>2
  <2> QED
    BY <2>2, <2>3
<1>4. \A k \in 0..N : k \in S
  <2> HIDE DEF S, N
  <2> QED
    BY <1>1, <1>2, <1>3, LoopInduction
<1> QED
  BY <1>1, <1>4 DEF scan

-----------------------------------------------------------------------------
(* What a board says of the records it was made from.                      *)

Tells(r, b) ==
  /\ b \in Seq(Record) /\ Len(b) <= MaxEntries
  /\ \A i, j \in DOMAIN b : i # j => b[i].name # b[j].name
  /\ \A i \in DOMAIN b :
       /\ b[i].name # EmptyName
       /\ \E j \in DOMAIN r : b[i] = r[j]
       /\ \A m \in DOMAIN r : r[m].name = b[i].name => r[m].score <= b[i].score
  /\ Len(b) < MaxEntries =>
       \A m \in DOMAIN r :
         r[m].name = EmptyName \/ \E i \in DOMAIN b : b[i].name = r[m].name

\* The pass over the sorted records finds each player's best line.
LEMMA CollectedTells ==
  ASSUME NEW s \in Seq(Record), Ordered(s)
  PROVE  Tells(s, Collected(s))
<1> DEFINE N == Len(s)
           acc == Collecting(s)[N]
           e == acc.entries
<1>1. Collected(s) = e
  BY DEF Collected
<1>2. acc \in Progress /\ Scanned(s, N, acc) /\ N \in Nat /\ DOMAIN s = 1..N
  BY CollectingTurns, ScanHolds
<1>3. \A m \in 1..N : s[m] \in Record
  OBVIOUS
<1> HIDE DEF acc
<1>4. e \in Seq(Record) /\ Len(e) <= MaxEntries
  BY <1>2 DEF Progress, Scanned
<1>5. \A i \in DOMAIN e : e[i] \in Record
  BY <1>4
<1>6. ASSUME NEW i \in DOMAIN e, NEW j \in DOMAIN e, i # j
      PROVE  e[i].name # e[j].name
  <2>1. i \in Nat /\ j \in Nat /\ e[i].name \in Nat /\ e[j].name \in Nat
    <3>1. i \in Nat /\ j \in Nat
      BY <1>4
    <3>2. e[i] \in Record /\ e[j] \in Record
      BY <1>5
    <3> QED
      BY <3>1, <3>2 DEF Record
  <2>2. \A a, b \in DOMAIN e : a < b => e[a].name < e[b].name
    BY <1>2 DEF Scanned
  <2> HIDE DEF e
  <2>3. CASE i < j
    BY <2>1, <2>2, <2>3
  <2>4. CASE j < i
    BY <2>1, <2>2, <2>4
  <2> QED
    BY <1>6, <2>1, <2>3, <2>4
<1>7. ASSUME NEW i \in DOMAIN e
      PROVE  /\ e[i].name # EmptyName
             /\ \E j \in DOMAIN s : e[i] = s[j]
             /\ \A m \in DOMAIN s : s[m].name = e[i].name => s[m].score <= e[i].score
  <2>1. PICK j \in 1..N : e[i] = s[j] /\ First(s, j)
    BY <1>2 DEF Scanned
  <2>2. ASSUME NEW m \in 1..N, s[m].name = e[i].name
        PROVE  s[m].score <= e[i].score
    <3>1. s[m] \in Record /\ s[j] \in Record
      BY <1>3
    <3>2. /\ s[m].name \in Nat /\ s[j].name \in Nat
          /\ s[m].score \in Nat /\ s[j].score \in Nat
      BY <3>1 DEF Record
    <3>3. ~(m < j)
      BY <1>2, <2>1, <2>2, <3>2 DEF First
    <3>4. CASE m = j
      BY <2>1, <3>2, <3>4
    <3>5. CASE j < m
      <4>1. Before(s[j], s[m])
        BY <1>2, <3>5 DEF Ordered
      <4> QED
        BY <2>1, <2>2, <3>2, <4>1 DEF Before
    <3> QED
      BY <1>2, <3>3, <3>4, <3>5
  <2>3. e[i].name # EmptyName
    BY <1>2 DEF Scanned
  <2> QED
    BY <1>2, <2>1, <2>2, <2>3
<1>8. Len(e) < MaxEntries =>
        \A m \in DOMAIN s :
          s[m].name = EmptyName \/ \E i \in DOMAIN e : e[i].name = s[m].name
  BY <1>2 DEF Scanned
<1> HIDE DEF e
<1> QED
  BY <1>1, <1>4, <1>6, <1>7, <1>8 DEF Tells

\* What is true of the sorted records is true of the records.
LEMMA TellsOfUnsorted ==
  ASSUME NEW r \in Seq(Record), NEW s \in Permuted(r), NEW b, Tells(s, b)
  PROVE  Tells(r, b)
<1>1. DOMAIN s = DOMAIN r
  BY PermutedElements
<1>3. \A i \in DOMAIN s : \E j \in DOMAIN r : s[i] = r[j]
  BY <1>1, PermutedElements
<1>4. \A j \in DOMAIN r : \E i \in DOMAIN s : s[i] = r[j]
  BY <1>1, PermutedElements
<1>5. ASSUME NEW i \in DOMAIN b
      PROVE  /\ b[i].name # EmptyName
             /\ \E j \in DOMAIN r : b[i] = r[j]
             /\ \A m \in DOMAIN r : r[m].name = b[i].name => r[m].score <= b[i].score
  <2>1. /\ b[i].name # EmptyName
        /\ \E j \in DOMAIN s : b[i] = s[j]
        /\ \A m \in DOMAIN s : s[m].name = b[i].name => s[m].score <= b[i].score
    BY DEF Tells
  <2> QED
    BY <1>3, <1>4, <2>1
<1>6. ASSUME Len(b) < MaxEntries, NEW m \in DOMAIN r
      PROVE  r[m].name = EmptyName \/ \E i \in DOMAIN b : b[i].name = r[m].name
  BY <1>4, <1>6 DEF Tells
<1> QED
  BY <1>5, <1>6 DEF Tells

\* The order of the entries does not matter.
LEMMA RankedTells ==
  ASSUME NEW r \in Seq(Record), NEW e \in Seq(Record), Tells(r, e), NEW b \in Permuted(e)
  PROVE  Tells(r, b)
<1>2. /\ b \in Seq(Record) /\ Len(b) = Len(e) /\ DOMAIN b = DOMAIN e
  BY PermutedElements
<1>1. \A i \in DOMAIN e : \E k \in DOMAIN e : b[i] = e[k]
  BY PermutedElements
<1>3. \A k \in DOMAIN e : \E i \in DOMAIN e : b[i] = e[k]
  BY PermutedElements
<1>4. ASSUME NEW i \in DOMAIN b, NEW j \in DOMAIN b, i # j
      PROVE  b[i].name # b[j].name
  <2>1. \A x, y \in DOMAIN e : x # y =>
          \E k, m \in DOMAIN e : k # m /\ b[x] = e[k] /\ b[y] = e[m]
    BY PermutedElements
  <2>2. PICK k, m \in DOMAIN e : k # m /\ b[i] = e[k] /\ b[j] = e[m]
    BY <1>2, <1>4, <2>1
  <2> QED
    BY <2>2 DEF Tells
<1>5. ASSUME NEW i \in DOMAIN b
      PROVE  /\ b[i].name # EmptyName
             /\ \E j \in DOMAIN r : b[i] = r[j]
             /\ \A m \in DOMAIN r : r[m].name = b[i].name => r[m].score <= b[i].score
  <2>1. PICK k \in DOMAIN e : b[i] = e[k]
    BY <1>1, <1>2
  <2> QED
    BY <2>1 DEF Tells
<1>6. ASSUME Len(b) < MaxEntries, NEW m \in DOMAIN r
      PROVE  r[m].name = EmptyName \/ \E i \in DOMAIN b : b[i].name = r[m].name
  <2>1. r[m].name = EmptyName \/ \E i \in DOMAIN e : e[i].name = r[m].name
    BY <1>2, <1>6 DEF Tells
  <2> QED
    BY <1>2, <1>3, <2>1
<1> QED
  BY <1>2, <1>4, <1>5, <1>6 DEF Tells

\* get_leaderboard_impl as a whole, before and after the last qsort.
LEMMA SortedTells ==
  ASSUME NEW r \in Seq(Record), NEW s \in Sortings(r)
  PROVE  Tells(r, Collected(s))
<1>1. s \in Permuted(r) /\ s \in Seq(Record) /\ DOMAIN s = DOMAIN r
  BY PermutedElements DEF Sortings
<1>2. Ordered(s)
  BY <1>1 DEF Sortings, Ordered
<1>3. Tells(s, Collected(s))
  BY <1>1, <1>2, CollectedTells
<1> QED
  BY <1>1, <1>3, TellsOfUnsorted

LEMMA BoardTells ==
  ASSUME NEW r \in Seq(Record), NEW s \in Sortings(r), NEW b \in Rankings(Collected(s))
  PROVE  /\ Tells(r, b)
         /\ \A i, j \in DOMAIN b : i < j => b[i].score >= b[j].score
<1>1. Tells(r, Collected(s))
  BY SortedTells
<1>2. b \in Permuted(Collected(s)) /\ Collected(s) \in Seq(Record)
  BY <1>1 DEF Rankings, Tells
<1>3. DOMAIN b = DOMAIN Collected(s)
  BY <1>2, PermutedElements
<1>4. Tells(r, b)
  BY <1>1, <1>2, RankedTells
<1> QED
  BY <1>3, <1>4 DEF Rankings

-----------------------------------------------------------------------------
(* The inductive invariant.                                                *)

\* Every element is a line of the file, or the one fragment some reader has met.
FromFile(s) ==
  \E text \in Text : \A i \in DOMAIN s :
    (\E k \in DOMAIN lines : s[i] = lines[k]) \/ (torn # 0 /\ s[i] = text)

BoardInv ==
  /\ records \in Seq(Text) /\ Len(records) <= MaxRecords
  /\ \A i \in DOMAIN records : Parses(records[i])
  /\ FromFile(records)
  /\ board \in Seq(Text) /\ Len(board) <= MaxEntries
  /\ \A i, j \in DOMAIN board : i < j =>
       board[i].name # board[j].name /\ board[i].score >= board[j].score
  /\ FromFile(board)

Inv == DiskInv /\ BoardInv

LEMMA TextsThatParse ==
  ASSUME NEW s \in Seq(Text), \A i \in DOMAIN s : Parses(s[i])
  PROVE  s \in Seq(Record)
<1>1. \A i \in DOMAIN s : s[i] \in Record
  BY ParsedIsRecord
<1> QED
  BY <1>1

\* What a reader has met is not lost when lines are added or another write breaks.
LEMMA FromFileStays ==
  ASSUME DiskInv, NEW s, FromFile(s),
         \/ \E text \in Text : lines' = Append(lines, text) /\ torn' = torn
         \/ lines' = lines /\ torn' = torn + 1
         \/ lines' = lines /\ torn' = torn
  PROVE  FromFile(s)'
<1>1. torn \in Nat /\ lines \in Seq(Text)
  BY BoardAssumption DEF DiskInv
<1>2. torn # 0 => torn' # 0
  BY <1>1
<1>3. \A k \in DOMAIN lines : k \in DOMAIN lines' /\ lines'[k] = lines[k]
  BY <1>1
<1>4. PICK text \in Text : \A i \in DOMAIN s :
        (\E k \in DOMAIN lines : s[i] = lines[k]) \/ (torn # 0 /\ s[i] = text)
  BY DEF FromFile
<1>5. \A i \in DOMAIN s :
        (\E k \in DOMAIN lines' : s[i] = lines'[k]) \/ (torn' # 0 /\ s[i] = text)
  BY <1>2, <1>3, <1>4
<1> QED
  BY <1>5 DEF FromFile

LEMMA DiskStepKeepsBoard ==
  ASSUME Inv, NEW line \in Line, SubmitScore(line) \/ SubmitTorn(line)
  PROVE  BoardInv'
<1>1. records' = records /\ board' = board
  BY DEF SubmitScore, SubmitTorn
<1>2. \/ \E text \in Text : lines' = Append(lines, text) /\ torn' = torn
      \/ lines' = lines /\ torn' = torn + 1
  BY BehindIsText DEF SubmitScore, SubmitTorn
<1>3. FromFile(records)' /\ FromFile(board)'
  <2>1. ASSUME NEW s, FromFile(s)
        PROVE  \E text \in Text : \A i \in DOMAIN s :
                 (\E k \in DOMAIN lines' : s[i] = lines'[k]) \/ (torn' # 0 /\ s[i] = text)
    BY <1>2, <2>1, FromFileStays DEF Inv, FromFile
  <2>2. FromFile(records) /\ FromFile(board)
    BY DEF Inv, BoardInv
  <2> QED
    BY <1>1, <2>1, <2>2 DEF FromFile
<1> QED
  BY <1>1, <1>3 DEF Inv, BoardInv

\* What a load finds, whether it gets to the end of the file or not.
LEMMA LoadFinds ==
  ASSUME DiskInv, NEW n \in 0..Len(File)
  PROVE  LET r == Loaded(SubSeq(File, 1, n))
         IN  /\ r \in Seq(Text) /\ Len(r) <= MaxRecords
             /\ \A i \in DOMAIN r : Parses(r[i])
             /\ FromFile(r)
<1> DEFINE part == SubSeq(File, 1, n)
           r == Loaded(part)
           L == Len(lines)
<1>1. /\ lines \in Seq(Text) /\ tail \in Seq(Text) /\ L \in Nat
      /\ Len(tail) \in Nat /\ Len(tail) <= 1
  BY DEF DiskInv
<1>2. /\ File \in Seq(Text) /\ Len(File) = L + Len(tail)
      /\ \A j \in 1..Len(File) : File[j] = IF j <= L THEN lines[j] ELSE tail[j - L]
  BY <1>1 DEF File
<1>3. part \in Seq(Text) /\ DOMAIN part = 1..n /\ \A j \in 1..n : part[j] = File[j]
  BY <1>1, <1>2
<1>4. tail # << >> => torn # 0
  <2>1. Cardinality(Spoilt) \in Nat
    BY SpoiltIsFinite
  <2> QED
    BY <1>1, <2>1 DEF DiskInv, OneLinePerTear
<1> HIDE DEF part
<1>5. /\ r \in Seq(Text) /\ Len(r) <= MaxRecords
      /\ \A i \in DOMAIN r : Parses(r[i])
      /\ \A i \in DOMAIN r : \E j \in DOMAIN part : r[i] = part[j]
  BY <1>3, LoadedRecords
<1> HIDE DEF r
<1>6. FromFile(r)
  <2> DEFINE text == IF tail = << >> THEN Skipped ELSE tail[1]
  <2>1. text \in Text
    BY <1>1 DEF Text
  <2>2. ASSUME NEW i \in DOMAIN r
        PROVE  (\E k \in DOMAIN lines : r[i] = lines[k]) \/ (torn # 0 /\ r[i] = text)
    <3>1. PICK j \in 1..n : r[i] = File[j]
      BY <1>3, <1>5
    <3>2. CASE j <= L
      <4>1. j \in DOMAIN lines /\ r[i] = lines[j]
        BY <1>1, <1>2, <3>1, <3>2
      <4> QED
        BY <4>1
    <3>3. CASE ~(j <= L)
      <4>1. j \in Nat /\ j <= L + Len(tail)
        BY <1>1, <1>2
      <4>2. j - L = 1 /\ Len(tail) = 1
        <5>1. \A a, b, c \in Nat : ~(a <= b) /\ a <= b + c /\ c <= 1 => a - b = 1 /\ c = 1
          OBVIOUS
        <5> QED
          BY <1>1, <3>3, <4>1, <5>1
      <4>3. File[j] = tail[j - L]
        BY <1>1, <1>2, <3>3
      <4>4. r[i] = tail[1]
        BY <3>1, <4>2, <4>3
      <4>5. tail # << >>
        BY <4>2
      <4> QED
        BY <1>4, <4>4, <4>5
    <3> QED
      BY <3>2, <3>3
  <2> HIDE DEF text
  <2> QED
    BY <2>1, <2>2 DEF FromFile
<1> QED
  BY <1>5, <1>6 DEF r, part

\* Load reads the file to its end.
LEMMA WholeFileIsAPart ==
  ASSUME DiskInv
  PROVE  Len(File) \in Nat /\ SubSeq(File, 1, Len(File)) = File
<1>1. lines \in Seq(Text) /\ tail \in Seq(Text)
  BY DEF DiskInv
<1>2. File \in Seq(Text)
  BY <1>1 DEF File
<1> QED
  BY <1>2

LEMMA EmptyBoard ==
  ASSUME board' = << >>
  PROVE  /\ (board \in Seq(Text) /\ Len(board) <= MaxEntries)'
         /\ (\A i, j \in DOMAIN board : i < j =>
               board[i].name # board[j].name /\ board[i].score >= board[j].score)'
         /\ FromFile(board)'
<1>1. Skipped \in Text
  BY DEF Text
<1> QED
  BY <1>1, BoardAssumption DEF FromFile

LEMMA LoadStep ==
  ASSUME Inv, Load \/ LoadPart
  PROVE  BoardInv'
<1>1. /\ lines' = lines /\ torn' = torn /\ board' = << >>
      /\ \E n \in 0..Len(File) : records' = Loaded(SubSeq(File, 1, n))
  <2>1. DiskInv
    BY DEF Inv
  <2>2. CASE Load
    <3>1. Len(File) \in Nat /\ SubSeq(File, 1, Len(File)) = File
      BY <2>1, WholeFileIsAPart
    <3>2. records' = Loaded(SubSeq(File, 1, Len(File)))
      BY <2>2, <3>1 DEF Load
    <3>3. Len(File) \in 0..Len(File)
      BY <3>1
    <3> QED
      BY <2>2, <3>2, <3>3 DEF Load, disk
  <2>3. CASE LoadPart
    BY <2>3 DEF LoadPart, disk
  <2> QED
    BY <2>2, <2>3
<1>2. PICK n \in 0..Len(File) : records' = Loaded(SubSeq(File, 1, n))
  BY <1>1
<1>3. /\ records' \in Seq(Text) /\ Len(records') <= MaxRecords
      /\ \A i \in DOMAIN records' : Parses(records'[i])
      /\ FromFile(records')
  BY <1>2, LoadFinds DEF Inv
<1>4. FromFile(records)'
  BY <1>1, <1>3 DEF FromFile
<1> QED
  BY <1>1, <1>3, <1>4, EmptyBoard DEF BoardInv

LEMMA RankTells ==
  ASSUME Inv, Rank
  PROVE  /\ records \in Seq(Record)
         /\ Tells(records, board')
         /\ \A i, j \in DOMAIN board' : i < j => board'[i].score >= board'[j].score
<1>1. records \in Seq(Record)
  BY TextsThatParse DEF Inv, BoardInv
<1>2. PICK s \in Sortings(records) : board' \in Rankings(Collected(s))
  BY DEF Rank
<1> QED
  BY <1>1, <1>2, BoardTells

LEMMA RankStep ==
  ASSUME Inv, Rank
  PROVE  BoardInv'
<1>1. lines' = lines /\ torn' = torn /\ records' = << >>
  BY DEF Rank, disk
<1>2. /\ Tells(records, board')
      /\ \A i, j \in DOMAIN board' : i < j => board'[i].score >= board'[j].score
  BY RankTells
<1>3. /\ board' \in Seq(Record) /\ Len(board') <= MaxEntries
      /\ \A i, j \in DOMAIN board' : i # j => board'[i].name # board'[j].name
      /\ \A i \in DOMAIN board' : \E k \in DOMAIN records : board'[i] = records[k]
  BY <1>2 DEF Tells
<1>4. board' \in Seq(Text)
  <2>1. \A k \in DOMAIN records : records[k] \in Text
    BY DEF Inv, BoardInv
  <2>2. \A i \in DOMAIN board' : board'[i] \in Text
    BY <1>3, <2>1
  <2> QED
    BY <1>3, <2>2
<1>5. FromFile(board)'
  <2>1. PICK text \in Text : \A i \in DOMAIN records :
          (\E k \in DOMAIN lines : records[i] = lines[k]) \/ (torn # 0 /\ records[i] = text)
    BY DEF Inv, BoardInv, FromFile
  <2>2. \A i \in DOMAIN board' :
          (\E k \in DOMAIN lines : board'[i] = lines[k]) \/ (torn # 0 /\ board'[i] = text)
    BY <1>3, <2>1
  <2> QED
    BY <1>1, <2>2 DEF FromFile
<1>6. FromFile(records)'
  <2>1. Skipped \in Text
    BY DEF Text
  <2> QED
    BY <1>1, <2>1 DEF FromFile
<1>7. \A i, j \in DOMAIN board' : i < j =>
        board'[i].name # board'[j].name /\ board'[i].score >= board'[j].score
  <2>1. \A i \in DOMAIN board' : i \in Nat
    BY <1>3
  <2> QED
    BY <1>2, <1>3, <2>1
<1> QED
  BY <1>1, <1>3, <1>4, <1>5, <1>6, <1>7, BoardAssumption DEF BoardInv

\* Every reachable state of the file, the records and the board.
THEOREM BoardInvHolds == Spec => []Inv
<1>1. Init => BoardInv
  <2> SUFFICES ASSUME Init PROVE BoardInv
    OBVIOUS
  <2>1. Skipped \in Text
    BY DEF Text
  <2>2. FromFile(records) /\ FromFile(board)
    BY <2>1 DEF Init, FromFile
  <2> QED
    BY <2>2, BoardAssumption DEF Init, BoardInv
<1>2. Inv /\ DiskInv' /\ [Next]_vars => BoardInv'
  <2> SUFFICES ASSUME Inv, [Next]_vars PROVE BoardInv'
    OBVIOUS
  <2>1. CASE \E line \in Line : SubmitScore(line) \/ SubmitTorn(line)
    BY <2>1, DiskStepKeepsBoard
  <2>2. CASE Load \/ LoadPart
    BY <2>2, LoadStep
  <2>3. CASE Rank
    BY <2>3, RankStep
  <2>4. CASE LoadFails
    <3>1. lines' = lines /\ torn' = torn /\ records' = records /\ board' = << >>
      BY <2>4 DEF LoadFails, disk
    <3>2. FromFile(records)'
      BY <3>1 DEF Inv, BoardInv, FromFile
    <3> QED
      BY <3>1, <3>2, EmptyBoard DEF Inv, BoardInv
  <2>5. CASE UNCHANGED vars
    BY <2>5 DEF vars, Inv, BoardInv, FromFile
  <2> QED
    BY <2>1, <2>2, <2>3, <2>4, <2>5 DEF Next
<1> QED
  BY <1>1, <1>2, DiskInvHolds, PTL DEF Spec, Inv

\* Every variable stays in its range; the array of records does not overflow.
THEOREM TypeCorrect == Spec => []TypeOK
<1>1. Inv => TypeOK
  BY DEF Inv, DiskInv, BoardInv, TypeOK
<1> QED
  BY <1>1, BoardInvHolds, PTL

\* get_leaderboard_impl lists each player once and best first, within the array of
\* the reply, and shows at most one score that is not a line of the file.
THEOREM BoardsAreHonest == Spec => []BoardIsHonest
<1>1. Inv => BoardIsHonest
  <2> SUFFICES ASSUME Inv PROVE BoardIsHonest
    OBVIOUS
  <2> DEFINE U == {i \in DOMAIN board : \A k \in DOMAIN lines : lines[k] # board[i]}
  <2>1. PICK text \in Text : \A i \in DOMAIN board :
          (\E k \in DOMAIN lines : board[i] = lines[k]) \/ (torn # 0 /\ board[i] = text)
    BY DEF Inv, BoardInv, FromFile
  <2>2. \A i \in U : torn # 0 /\ board[i] = text
    BY <2>1
  <2>3. ASSUME NEW i \in U, NEW j \in U
        PROVE  i = j
    <3>1. i \in Nat /\ j \in Nat /\ i \in DOMAIN board /\ j \in DOMAIN board
      BY DEF Inv, BoardInv
    <3>2. board[i].name = board[j].name
      BY <2>2
    <3>3. ~(i < j) /\ ~(j < i)
      BY <3>1, <3>2 DEF Inv, BoardInv
    <3> QED
      BY <3>1, <3>3
  <2>4. Cardinality(U) <= IF torn = 0 THEN 0 ELSE 1
    <3>1. CASE U = {}
      <4>1. Cardinality(U) = 0
        BY <3>1, FS_EmptySet
      <4> QED
        BY <4>1
    <3>2. CASE U # {}
      <4>1. PICK i \in U : U = {i}
        BY <2>3, <3>2
      <4>2. Cardinality(U) = 1
        BY <4>1, FS_Singleton
      <4> QED
        BY <2>2, <4>1, <4>2
    <3> QED
      BY <3>1, <3>2
  <2> QED
    BY <2>4 DEF Inv, BoardInv, BoardIsHonest
<1> QED
  BY <1>1, BoardInvHolds, PTL

\* The score a board tells of a name is the greatest of the records of that name.
LEMMA BestIsTold ==
  ASSUME NEW r \in Seq(Record), NEW b, Tells(r, b), NEW i \in DOMAIN b
  PROVE  b[i].score = BestOf(b[i].name, r)
<1> DEFINE V == {r[k].score : k \in {j \in DOMAIN r : r[j].name = b[i].name}}
           P(v) == \A k \in DOMAIN r : r[k].name = b[i].name => r[k].score <= v
           best == BestOf(b[i].name, r)
<1>1. PICK j \in DOMAIN r : b[i] = r[j]
  BY DEF Tells
<1>2. b[i].score \in V /\ P(b[i].score)
  BY <1>1 DEF Tells
<1>3. best = CHOOSE v \in V : P(v)
  BY DEF BestOf
<1>4. best \in V /\ P(best)
  <2> HIDE DEF V, P, best
  <2> QED
    BY <1>2, <1>3
<1> HIDE DEF best
<1>5. PICK k \in DOMAIN r : r[k].name = b[i].name /\ r[k].score = best
  BY <1>4
<1>6. \A m \in DOMAIN r : r[m] \in Record
  OBVIOUS
<1>7. best \in Nat /\ b[i].score \in Nat
  BY <1>1, <1>5, <1>6 DEF Record
<1>8. best <= b[i].score
  BY <1>2, <1>5
<1>9. b[i].score <= best
  BY <1>1, <1>4
<1> QED
  BY <1>7, <1>8, <1>9 DEF best

\* Each board shows of each player the best score that was loaded, leaves nobody
\* out unless it is full, and never shows a score without a name.
THEOREM BoardsShowBests == Spec => BoardShowsBests
<1>1. ASSUME Inv, [Next]_vars, records # << >>, board' # board
      PROVE  /\ \A i \in DOMAIN board' :
                  board'[i].score = BestOf(board'[i].name, records)
             /\ Names(board') \subseteq Names(records) \ {EmptyName}
             /\ \/ Names(records) \ {EmptyName} \subseteq Names(board')
                \/ Len(board') = MaxEntries
  <2>1. Rank
    BY <1>1 DEF Next, SubmitScore, SubmitTorn, Load, LoadPart, LoadFails, vars
  <2>2. records \in Seq(Record) /\ Tells(records, board')
    BY <1>1, <2>1, RankTells
  <2>3. \A i \in DOMAIN board' : board'[i].score = BestOf(board'[i].name, records)
    BY <2>2, BestIsTold
  <2>4. Names(board') \subseteq Names(records) \ {EmptyName}
    BY <2>2 DEF Names, Tells
  <2>5. \/ Names(records) \ {EmptyName} \subseteq Names(board')
        \/ Len(board') = MaxEntries
    <3>1. CASE Len(board') < MaxEntries
      BY <2>2, <3>1 DEF Names, Tells
    <3>2. CASE ~(Len(board') < MaxEntries)
      <4>1. Len(board') \in Nat /\ Len(board') <= MaxEntries /\ MaxEntries \in Nat
        BY <2>2, BoardAssumption DEF Tells
      <4> QED
        BY <3>2, <4>1
    <3> QED
      BY <3>1, <3>2
  <2> QED
    BY <2>3, <2>4, <2>5
<1>2. Inv /\ [Next]_vars =>
        [records # << >> /\ board' # board =>
           /\ \A i \in DOMAIN board' :
                board'[i].score = BestOf(board'[i].name, records)
           /\ Names(board') \subseteq Names(records) \ {EmptyName}
           /\ \/ Names(records) \ {EmptyName} \subseteq Names(board')
              \/ Len(board') = MaxEntries]_vars
  BY <1>1
<1> QED
  BY <1>2, BoardInvHolds, PTL DEF Spec, BoardShowsBests

\* What a complete load shows of a player is never less than what a complete load
\* of a shorter file showed.
THEOREM BoardsNeverDrop == Spec => ScoresNeverDrop
<1> DEFINE Kept(s, t) ==
             \A i \in DOMAIN Collected(s), j \in DOMAIN Collected(t) :
               Collected(s)[i].name = Collected(t)[j].name =>
                 Collected(s)[i].score <= Collected(t)[j].score
<1>1. ASSUME DiskInv, [Next]_vars, lines' # lines,
             NEW s \in Sortings(Loaded(lines)), NEW t \in Sortings(Loaded(lines'))
      PROVE  Kept(s, t)
  <2>1. PICK line \in Line : SubmitScore(line)
    BY <1>1 DEF Next, SubmitTorn, Load, LoadPart, Rank, LoadFails, vars, disk
  <2>2. PICK text \in Text : lines' = Append(lines, text)
    BY <2>1, BehindIsText DEF SubmitScore
  <2>3. lines \in Seq(Text) /\ lines' \in Seq(Text)
    BY <1>1, <2>2 DEF DiskInv
  <2> DEFINE r == Loaded(lines)
             longer == Loaded(lines')
  <2>4. r \in Seq(Record) /\ longer \in Seq(Record)
    BY <2>3, LoadedRecords, TextsThatParse
  <2>5. \A i \in DOMAIN r : i \in DOMAIN longer /\ longer[i] = r[i]
    BY <2>2, <2>3, LoadingGrows
  <2> DEFINE before == Collected(s)
             after == Collected(t)
  <2>6. Tells(r, before) /\ Tells(longer, after)
    BY <1>1, <2>4, SortedTells
  <2> HIDE DEF r, longer, before, after
  <2>7. ASSUME NEW i \in DOMAIN before, NEW j \in DOMAIN after,
               before[i].name = after[j].name
        PROVE  before[i].score <= after[j].score
    <3>1. PICK k \in DOMAIN r : before[i] = r[k]
      BY <2>6 DEF Tells
    <3>2. k \in DOMAIN longer /\ longer[k] = before[i]
      BY <2>5, <3>1
    <3> QED
      BY <2>6, <2>7, <3>2 DEF Tells
  <2> QED
    BY <2>7 DEF before, after
<1>2. DiskInv /\ [Next]_vars =>
        [lines' # lines =>
           \A s \in Sortings(Loaded(lines)), t \in Sortings(Loaded(lines')) : Kept(s, t)]_vars
  BY <1>1
<1> QED
  BY <1>2, DiskInvHolds, PTL DEF Spec, ScoresNeverDrop

\* A load is never stuck in the sorts: whatever was loaded has an order by
\* compare_score_records_for_user_best, and its entries have one by
\* compare_leaderboard_entries_final, so Rank can always be taken.
THEOREM EveryLoadIsRanked ==
  Spec => [](\E s \in Sortings(records) : Rankings(Collected(s)) # {})
<1>1. ASSUME NEW r \in Seq(Record)
      PROVE  \E s \in Sortings(r) : Rankings(Collected(s)) # {}
  <2> DEFINE R == {x \in Record \X Record : Before(x[1], x[2])}
             Q == {x \in Record \X Record : x[1].score >= x[2].score}
  <2>1. \A x \in Record : x.name \in Nat /\ x.score \in Nat
    BY DEF Record
  <2>2. \A x, y \in Record : <<x, y>> \in R <=> Before(x, y)
    OBVIOUS
  <2>3. \A x, y \in Record : <<x, y>> \in Q <=> x.score >= y.score
    OBVIOUS
  <2>4. \A x, y \in Record : Before(x, y) \/ Before(y, x)
    BY <2>1 DEF Before
  <2>5. \A x, y, z \in Record : Before(x, y) /\ Before(y, z) => Before(x, z)
    BY <2>1 DEF Before
  <2> HIDE DEF R, Q
  <2>6. PICK s \in Permuted(r) : \A i, j \in DOMAIN r : i < j => <<s[i], s[j]>> \in R
    <3>1. \A x, y \in Record : <<x, y>> \in R \/ <<y, x>> \in R
      BY <2>2, <2>4
    <3>2. \A x, y, z \in Record : <<x, y>> \in R /\ <<y, z>> \in R => <<x, z>> \in R
      BY <2>2, <2>5
    <3> QED
      BY <3>1, <3>2, SortExists
  <2>7. s \in Seq(Record) /\ DOMAIN s = DOMAIN r
    BY PermutedElements
  <2>8. s \in Sortings(r)
    <3>1. \A i \in DOMAIN r : s[i] \in Record
      BY <2>7
    <3> QED
      BY <2>2, <2>6, <3>1 DEF Sortings
  <2> DEFINE e == Collected(s)
  <2>9. e \in Seq(Record)
    BY <2>8, SortedTells DEF Tells
  <2> HIDE DEF e
  <2>10. PICK b \in Permuted(e) : \A i, j \in DOMAIN e : i < j => <<b[i], b[j]>> \in Q
    <3>1. ASSUME NEW x \in Record, NEW y \in Record
          PROVE  <<x, y>> \in Q \/ <<y, x>> \in Q
      <4>1. x.score >= y.score \/ y.score >= x.score
        BY <2>1
      <4> QED
        BY <2>3, <4>1
    <3>2. \A x, y, z \in Record : <<x, y>> \in Q /\ <<y, z>> \in Q => <<x, z>> \in Q
      BY <2>1, <2>3
    <3> QED
      BY <2>9, <3>1, <3>2, SortExists
  <2>11. b \in Seq(Record) /\ DOMAIN b = DOMAIN e
    BY <2>9, PermutedElements
  <2>12. b \in Rankings(e)
    <3>1. \A i \in DOMAIN e : b[i] \in Record
      BY <2>11
    <3> QED
      BY <2>3, <2>10, <3>1 DEF Rankings
  <2> QED
    BY <2>8, <2>12 DEF e
<1>2. Inv => \E s \in Sortings(records) : Rankings(Collected(s)) # {}
  <2> SUFFICES ASSUME Inv PROVE \E s \in Sortings(records) : Rankings(Collected(s)) # {}
    OBVIOUS
  <2>1. records \in Seq(Record)
    BY TextsThatParse DEF Inv, BoardInv
  <2> QED
    BY <1>1, <2>1
<1> QED
  BY <1>2, BoardInvHolds, PTL

=============================================================================
