-------------------------- MODULE CollectorProofs --------------------------
(***************************************************************************)
(* What holds of one stream of the collector for every number of rows,     *)
(* faults and crashes, every flush size and every queue capacity.          *)
(*                                                                         *)
(* Nothing is lost: the two facts that make it inductive are that pending  *)
(* rows are in the log unless their line was spoilt (OnDisk), and that the *)
(* log is truncated only after its rows are in the table (CommitStored).   *)
(* Then every step moves rows only between the places the invariants name  *)
(* (RowsFlow).  Nothing is stored twice: as long as no append failed       *)
(* half-way, every row is in one place only (MemoryApart, LogApart), so    *)
(* one call never numbers a row other than 0 (RankZero).                   *)
(*                                                                         *)
(* What replay computes is proved by induction over the lines, with the    *)
(* least line that would break it (LeastNumber, Induction).                *)
(***************************************************************************)
EXTENDS Collector, SequenceTheorems, FiniteSetTheorems, WellFoundedInduction, TLAPS

-----------------------------------------------------------------------------
(* Induction over the lines of a log. *)

LEMMA LeastNumber ==
  ASSUME NEW T, T \subseteq Nat, T # {}
  PROVE  \E n \in T : \A k \in T : n <= k
<1> DEFINE R == OpToRel(<, Nat)
<1>1. \E n \in T : \A k \in T : ~(<<k, n>> \in R)
  <2>1. IsWellFoundedOn(R, Nat) BY NatLessThanWellFounded
  <2> HIDE DEF R
  <2>2. QED BY <2>1, WFMin
<1>2. \A k \in T, n \in T : <<k, n>> \in R <=> k < n
  BY DEF OpToRel
<1> HIDE DEF R
<1>3. PICK n \in T : \A k \in T : ~(<<k, n>> \in R) BY <1>1
<1>4. \A k \in T : ~(k < n) BY <1>2, <1>3
<1>5. \A k \in T : n <= k BY <1>4
<1>6. QED BY <1>5

LEMMA Induction ==
  ASSUME NEW N \in Nat, NEW G, 0 \in G,
         \A n \in 1 .. N : n - 1 \in G => n \in G
  PROVE  \A n \in 0 .. N : n \in G
<1> DEFINE T == {n \in 0 .. N : n \notin G}
<1>1. SUFFICES ASSUME T # {} PROVE FALSE OBVIOUS
<1>2. PICK n \in T : \A k \in T : n <= k
  <2>1. T \subseteq Nat OBVIOUS
  <2> HIDE DEF T
  <2>2. QED BY <1>1, <2>1, LeastNumber
<1>3. n \in 1 .. N /\ n - 1 \in 0 .. N OBVIOUS
<1>4. n - 1 \in G BY <1>2, <1>3
<1>5. QED BY <1>3, <1>4

\* What replay reads of the first n lines: the accepted ones, in order.
Reads(all, g) ==
  g = [n \in 0 .. Len(all) |->
         IF n = 0 THEN << >>
         ELSE IF from_line(all[n]) THEN Append(g[n - 1], all[n]) ELSE g[n - 1]]

\* Such a function exists: one for n lines extends to one for n + 1.
LEMMA ReadsExists ==
  ASSUME NEW all \in Seq(Line)
  PROVE  \E g : Reads(all, g)
<1> DEFINE N == Len(all)
           Good(n, g) == /\ g \in [0 .. n -> Seq(Line)] /\ g[0] = << >>
                         /\ \A i \in 1 .. n :
                              g[i] = IF from_line(all[i]) THEN Append(g[i - 1], all[i])
                                     ELSE g[i - 1]
           G == {n \in 0 .. N : \E g : Good(n, g)}
<1>1. N \in Nat OBVIOUS
<1>2. 0 \in G
  <2> DEFINE g0 == [i \in 0 .. 0 |-> << >>]
  <2>1. Good(0, g0) OBVIOUS
  <2> HIDE DEF Good
  <2>2. QED BY <2>1, <1>1
<1>3. ASSUME NEW n \in 1 .. N, n - 1 \in G PROVE n \in G
  <2>1. PICK g : Good(n - 1, g) BY <1>3
  <2> DEFINE v == IF from_line(all[n]) THEN Append(g[n - 1], all[n]) ELSE g[n - 1]
             h == [i \in 0 .. n |-> IF i = n THEN v ELSE g[i]]
  <2>2. all[n] \in Line OBVIOUS
  <2>3. v \in Seq(Line) BY <2>1, <2>2
  <2> HIDE DEF v
  <2>4. h \in [0 .. n -> Seq(Line)] BY <2>1, <2>3
  <2>5. h[0] = << >> BY <2>1
  <2>6. h[n] = IF from_line(all[n]) THEN Append(h[n - 1], all[n]) ELSE h[n - 1]
    BY DEF v
  <2>7. \A i \in 1 .. n - 1 : h[i] = IF from_line(all[i]) THEN Append(h[i - 1], all[i])
                                     ELSE h[i - 1]
    BY <2>1
  <2> HIDE DEF h
  <2>8. Good(n, h) BY SMTT(30), <2>4, <2>5, <2>6, <2>7
  <2> HIDE DEF Good
  <2>9. QED BY <2>8
<1>4. N \in G
  <2> HIDE DEF G, N
  <2>1. \A n \in 0 .. N : n \in G BY <1>1, <1>2, <1>3, Induction
  <2>2. QED BY <2>1, <1>1
<1>5. PICK g : Good(N, g) BY <1>4
<1>6. Reads(all, g)
  <2> DEFINE h == [n \in 0 .. N |->
                     IF n = 0 THEN << >>
                     ELSE IF from_line(all[n]) THEN Append(g[n - 1], all[n]) ELSE g[n - 1]]
  <2>1. \A n \in 0 .. N : g[n] = h[n]
    <3>1. g[0] = << >> /\ h[0] = << >> BY <1>1, <1>5
    <3>2. ASSUME NEW n \in 1 .. N PROVE g[n] = h[n]
      <4>1. n \in 0 .. N /\ n # 0 BY <1>1
      <4>2. h[n] = IF from_line(all[n]) THEN Append(g[n - 1], all[n]) ELSE g[n - 1] BY <4>1
      <4>3. g[n] = IF from_line(all[n]) THEN Append(g[n - 1], all[n]) ELSE g[n - 1] BY <1>5
      <4>4. QED BY <4>2, <4>3
    <3> HIDE DEF h, N
    <3>3. QED BY <3>1, <3>2, <1>1
  <2>5. g \in [0 .. N -> Seq(Line)] BY <1>5
  <2>2. g = [n \in 0 .. N |-> g[n]]
    <3> HIDE DEF N
    <3>1. QED BY <2>5
  <2>3. g = h BY <2>1, <2>2
  <2>4. QED BY <2>3 DEF Reads
<1>7. QED BY <1>6

\* replay_once is the value at the last line of the function that Reads describes.
LEMMA ReplayUnfolds ==
  ASSUME NEW f \in [lines : Seq(Line), tail : Seq(Line)]
  PROVE  \E g : Reads(f.lines \o f.tail, g) /\ replay_once(f) = g[Len(f.lines \o f.tail)]
<1> DEFINE all == f.lines \o f.tail
           g == CHOOSE h : Reads(all, h)
<1>1. all \in Seq(Line) OBVIOUS
<1>2. Reads(all, g)
  <2> HIDE DEF all
  <2>1. QED BY <1>1, ReadsExists
<1>3. replay_once(f) = g[Len(all)]
  BY DEF replay_once, Reads
<1>4. QED BY <1>2, <1>3

-----------------------------------------------------------------------------
(* Sequences in which no row occurs twice. *)

Once(s) == \A i, j \in DOMAIN s : s[i] = s[j] /\ s[i] \in Row => i = j

LEMMA RangeAppend ==
  ASSUME NEW S, NEW s \in Seq(S), NEW x \in S
  PROVE  Append(s, x) \in Seq(S) /\ Range(Append(s, x)) = Range(s) \cup {x}
<1>1. /\ Append(s, x) \in Seq(S) /\ DOMAIN Append(s, x) = 1 .. Len(s) + 1
      /\ \A i \in 1 .. Len(s) : Append(s, x)[i] = s[i]
      /\ Append(s, x)[Len(s) + 1] = x /\ Len(s) \in Nat /\ DOMAIN s = 1 .. Len(s)
  OBVIOUS
<1>2. QED BY <1>1 DEF Range

LEMMA OnceAppend ==
  ASSUME NEW S, NEW s \in Seq(S), NEW x \in S, Once(s), x \in Row => x \notin Range(s)
  PROVE  Once(Append(s, x))
<1>1. /\ DOMAIN Append(s, x) = 1 .. Len(s) + 1
      /\ \A i \in 1 .. Len(s) : Append(s, x)[i] = s[i]
      /\ Append(s, x)[Len(s) + 1] = x /\ Len(s) \in Nat /\ DOMAIN s = 1 .. Len(s)
  OBVIOUS
<1>2. \A i \in 1 .. Len(s) : s[i] \in Range(s) BY <1>1 DEF Range
<1>3. QED BY <1>1, <1>2 DEF Once

LEMMA OnceConcat ==
  ASSUME NEW S, NEW s \in Seq(S), NEW t \in Seq(S), Once(s), Once(t),
         Range(s) \cap Range(t) \cap Row = {}
  PROVE  Once(s \o t)
<1>1. /\ DOMAIN (s \o t) = 1 .. Len(s) + Len(t)
      /\ \A i \in 1 .. Len(s) + Len(t) :
           (s \o t)[i] = IF i <= Len(s) THEN s[i] ELSE t[i - Len(s)]
      /\ Len(s) \in Nat /\ DOMAIN s = 1 .. Len(s)
      /\ Len(t) \in Nat /\ DOMAIN t = 1 .. Len(t)
  OBVIOUS
<1>2. /\ \A i \in 1 .. Len(s) : s[i] \in Range(s)
      /\ \A i \in 1 .. Len(t) : t[i] \in Range(t)
  BY <1>1 DEF Range
<1> DEFINE u == s \o t
<1>3. SUFFICES ASSUME NEW i \in 1 .. Len(s) + Len(t), NEW j \in 1 .. Len(s) + Len(t),
                      u[i] = u[j], u[i] \in Row
               PROVE  i = j
  BY <1>1 DEF Once
<1> HIDE DEF u
<1>4. \A k \in 1 .. Len(s) + Len(t) :
        /\ k <= Len(s) => u[k] = s[k] /\ k \in 1 .. Len(s)
        /\ k > Len(s) => u[k] = t[k - Len(s)] /\ k - Len(s) \in 1 .. Len(t)
  BY <1>1 DEF u
<1>5. CASE i <= Len(s) /\ j <= Len(s)
  <2>1. u[i] = s[i] /\ u[j] = s[j] /\ i \in DOMAIN s /\ j \in DOMAIN s BY <1>1, <1>4, <1>5
  <2>2. QED BY <1>3, <2>1 DEF Once
<1>6. CASE i > Len(s) /\ j > Len(s)
  <2>1. i - Len(s) \in DOMAIN t /\ j - Len(s) \in DOMAIN t BY <1>1, <1>6
  <2>5. u[i] = t[i - Len(s)] /\ u[j] = t[j - Len(s)] BY <1>4, <1>6
  <2>2. t[i - Len(s)] = t[j - Len(s)] /\ t[i - Len(s)] \in Row BY <1>3, <2>5
  <2>3. i - Len(s) = j - Len(s) BY <2>1, <2>2 DEF Once
  <2>4. QED BY <2>3, <1>1
<1>7. CASE i <= Len(s) /\ j > Len(s)
  <2>1. i \in 1 .. Len(s) /\ j - Len(s) \in 1 .. Len(t) BY <1>1, <1>7
  <2>4. u[i] = s[i] /\ u[j] = t[j - Len(s)] BY <1>4, <1>7
  <2>2. s[i] \in Range(s) \cap Row /\ s[i] \in Range(t) BY <1>2, <1>3, <2>1, <2>4
  <2>3. QED BY <2>2
<1>8. CASE i > Len(s) /\ j <= Len(s)
  <2>1. j \in 1 .. Len(s) /\ i - Len(s) \in 1 .. Len(t) BY <1>1, <1>8
  <2>4. u[j] = s[j] /\ u[i] = t[i - Len(s)] BY <1>4, <1>8
  <2>2. s[j] \in Range(s) \cap Row /\ s[j] \in Range(t) BY <1>2, <1>3, <2>1, <2>4
  <2>3. QED BY <2>2
<1>9. QED BY <1>1, <1>5, <1>6, <1>7, <1>8

\* A part of a sequence has no more in it than the whole, and repeats no more.
LEMMA SubSeqFact ==
  ASSUME NEW S, NEW s \in Seq(S), NEW m \in 1 .. Len(s) + 1, NEW n \in 0 .. Len(s)
  PROVE  /\ SubSeq(s, m, n) \in Seq(S) /\ Range(SubSeq(s, m, n)) \subseteq Range(s)
         /\ Once(s) => Once(SubSeq(s, m, n))
<1> DEFINE u == SubSeq(s, m, n)
<1>1. /\ u \in Seq(S) /\ DOMAIN s = 1 .. Len(s) /\ Len(s) \in Nat /\ DOMAIN u = 1 .. Len(u)
      /\ Len(u) = IF m <= n THEN n - m + 1 ELSE 0
      /\ \A i \in 1 .. n - m + 1 : u[i] = s[m + i - 1]
  <2>1. \A i \in m .. n : s[i] \in S OBVIOUS
  <2>2. m \in Int /\ n \in Int OBVIOUS
  <2>3. QED BY <2>1, <2>2, SubSeqProperties
<1> HIDE DEF u
<1>2. \A i \in DOMAIN u : m + i - 1 \in DOMAIN s /\ u[i] = s[m + i - 1] BY <1>1
<1>3. Range(u) \subseteq Range(s) BY <1>2 DEF Range
<1>4. ASSUME Once(s), NEW i \in DOMAIN u, NEW j \in DOMAIN u, u[i] = u[j], u[i] \in Row
      PROVE  i = j
  <2>1. m + i - 1 = m + j - 1 BY <1>2, <1>4 DEF Once
  <2>2. QED BY <2>1, <1>1, <1>4
<1>5. QED BY <1>1, <1>3, <1>4 DEF Once, u

LEMMA TailFact ==
  ASSUME NEW S, NEW s \in Seq(S), s # << >>
  PROVE  /\ Head(s) = s[1] /\ Head(s) \in Range(s) /\ Tail(s) \in Seq(S)
         /\ Range(s) = {Head(s)} \cup Range(Tail(s))
         /\ Once(s) => Once(Tail(s)) /\ (Head(s) \in Row => Head(s) \notin Range(Tail(s)))
<1>1. /\ Len(s) \in Nat \ {0} /\ DOMAIN s = 1 .. Len(s) /\ Head(s) = s[1]
      /\ Tail(s) \in Seq(S) /\ Len(Tail(s)) = Len(s) - 1 /\ DOMAIN Tail(s) = 1 .. Len(s) - 1
      /\ \A i \in 1 .. Len(s) - 1 : Tail(s)[i] = s[i + 1]
  OBVIOUS
<1>2. \A i \in 2 .. Len(s) : i - 1 \in DOMAIN Tail(s) /\ Tail(s)[i - 1] = s[i] BY <1>1
<1>3. Range(s) = {Head(s)} \cup Range(Tail(s))
  <2>1. ASSUME NEW i \in DOMAIN s PROVE s[i] \in {Head(s)} \cup Range(Tail(s))
    <3>1. CASE i = 1 BY <1>1, <3>1
    <3>2. CASE i \in 2 .. Len(s) BY <1>2, <3>2 DEF Range
    <3>3. QED BY <1>1, <3>1, <3>2
  <2>2. ASSUME NEW i \in DOMAIN Tail(s) PROVE Tail(s)[i] \in Range(s)
    <3>1. i + 1 \in DOMAIN s /\ Tail(s)[i] = s[i + 1] BY <1>1
    <3>2. QED BY <3>1 DEF Range
  <2>3. Head(s) \in Range(s) BY <1>1 DEF Range
  <2>4. QED BY <2>1, <2>2, <2>3 DEF Range
<1>4. ASSUME Once(s) PROVE Once(Tail(s)) /\ (Head(s) \in Row => Head(s) \notin Range(Tail(s)))
  <2>1. ASSUME NEW i \in DOMAIN Tail(s), NEW j \in DOMAIN Tail(s),
               Tail(s)[i] = Tail(s)[j], Tail(s)[i] \in Row
        PROVE  i = j
    <3>1. i + 1 \in DOMAIN s /\ j + 1 \in DOMAIN s /\ s[i + 1] = s[j + 1] /\ s[i + 1] \in Row
      BY <1>1, <2>1
    <3>2. i + 1 = j + 1 BY <3>1, <1>4 DEF Once
    <3>3. QED BY <3>2, <1>1
  <2>2. ASSUME Head(s) \in Row, NEW i \in DOMAIN Tail(s), Tail(s)[i] = Head(s) PROVE FALSE
    <3>1. i + 1 \in DOMAIN s /\ 1 \in DOMAIN s /\ s[i + 1] = s[1] /\ s[1] \in Row
      BY <1>1, <2>2
    <3>2. i + 1 = 1 BY <3>1, <1>4 DEF Once
    <3>3. QED BY <3>2, <1>1
  <2>3. QED BY <2>1, <2>2 DEF Once, Range
<1>5. QED BY <1>1, <1>3, <1>4

-----------------------------------------------------------------------------
(* The log. *)

InLog(f) == Range(f.lines) \cup Range(f.tail)
OnceInLog(f) == Once(f.lines) /\ Once(f.tail) /\ Range(f.lines) \cap Range(f.tail) \cap Row = {}
Readable == FieldsWritten >= FieldsNeeded

\* No row number is the mark of a damaged line.
LEMMA RowFact == /\ Unreadable \notin Row /\ Garbled \notin Row /\ Unreadable # Garbled
                 /\ Row \subseteq Line /\ Unreadable \in Line /\ Garbled \in Line
  BY BoundsAssumption DEF Row, Unreadable, Garbled, Line

\* What from_line accepts: never the first kind of damage, a row when its stream's
\* format has the fields asked for.
LEMMA FromLineFact ==
  ASSUME NEW x \in Line
  PROVE  /\ from_line(x) \in BOOLEAN
         /\ from_line(x) => x \in Row \cup {Garbled}
         /\ x \in Row => (from_line(x) <=> Readable)
<1>1. CASE x = Unreadable BY <1>1, RowFact DEF from_line
<1>2. CASE x = Garbled BY <1>2, RowFact DEF from_line
<1>3. CASE x \in Row
  <2>1. x # Unreadable /\ x # Garbled BY <1>3, RowFact
  <2>2. from_line(x) = Readable BY <1>3, <2>1 DEF from_line, Readable
  <2>3. FieldsWritten \in Nat /\ FieldsNeeded \in Nat
    BY StreamAssumption DEF FieldsWritten, FieldsNeeded
  <2>4. Readable \in BOOLEAN BY <2>3 DEF Readable
  <2>5. QED BY <2>2, <2>4, <1>3
<1>4. QED BY <1>1, <1>2, <1>3 DEF Line

\* Replay finds exactly the lines that parse, and repeats none that the log does not.
LEMMA ReplayFact ==
  ASSUME NEW f \in Log
  PROVE  /\ replay_once(f) \in Seq(Row \cup {Garbled})
         /\ Range(replay_once(f)) = {x \in InLog(f) : from_line(x)}
         /\ OnceInLog(f) => Once(replay_once(f))
<1> DEFINE all == f.lines \o f.tail
           N == Len(all)
           T == Row \cup {Garbled}
<1>1. /\ all \in Seq(Line) /\ N \in Nat /\ DOMAIN all = 1 .. N
      /\ f.lines \in Seq(Line) /\ f.tail \in Seq(Line)
  BY DEF Log
<1>2. Range(all) = InLog(f) BY <1>1, RangeConcatenation DEF InLog
<1>3. OnceInLog(f) => Once(all) BY <1>1, OnceConcat DEF OnceInLog
<1>4. PICK g : Reads(all, g) /\ replay_once(f) = g[N] BY ReplayUnfolds DEF Log
<1> HIDE DEF all
<1>5. g[0] = << >> /\ \A n \in 1 .. N :
        g[n] = IF from_line(all[n]) THEN Append(g[n - 1], all[n]) ELSE g[n - 1]
  <2>1. /\ DOMAIN g = 0 .. N
        /\ \A n \in 0 .. N : g[n] = IF n = 0 THEN << >>
             ELSE IF from_line(all[n]) THEN Append(g[n - 1], all[n]) ELSE g[n - 1]
    BY <1>4 DEF Reads
  <2>2. 0 \in 0 .. N /\ \A n \in 1 .. N : n \in 0 .. N /\ n # 0 BY <1>1
  <2> HIDE DEF N
  <2>3. g[0] = << >> BY <2>1, <2>2
  <2>4. ASSUME NEW n \in 1 .. N
        PROVE  g[n] = IF from_line(all[n]) THEN Append(g[n - 1], all[n]) ELSE g[n - 1]
    BY <2>1, <2>2
  <2>5. QED BY <2>3, <2>4
<1> DEFINE Found(n) == {x \in Line : \E i \in 1 .. n : x = all[i] /\ from_line(x)}
           Good(n) == /\ g[n] \in Seq(T) /\ Range(g[n]) = Found(n)
                      /\ OnceInLog(f) => Once(g[n])
           G == {n \in 0 .. N : Good(n)}
<1>6. Good(0)
  <2>1. g[0] \in Seq(T) /\ DOMAIN g[0] = {} BY <1>5
  <2>2. QED BY <2>1 DEF Range, Once
<1>7. ASSUME NEW n \in 1 .. N, Good(n - 1) PROVE Good(n)
  <2>1. all[n] \in Line /\ n \in Int BY <1>1
  <2>2. CASE ~from_line(all[n])
    <3>1. g[n] = g[n - 1] BY <1>5, <2>2
    <3>2. \A i \in 1 .. n : i \in 1 .. n - 1 \/ i = n BY <1>1
    <3>3. \A i \in 1 .. n - 1 : i \in 1 .. n BY <1>1
    <3>4. Found(n) = Found(n - 1) BY <2>2, <3>2, <3>3
    <3> HIDE DEF Found
    <3>5. QED BY <3>1, <3>4, <1>7
  <2>3. CASE from_line(all[n])
    <3>1. g[n] = Append(g[n - 1], all[n]) BY <1>5, <2>3
    <3>2. all[n] \in T BY <2>1, <2>3, FromLineFact
    <3>3. \A i \in 1 .. n : i \in 1 .. n - 1 \/ i = n BY <1>1
    <3>4. \A i \in 1 .. n - 1 : i \in 1 .. n BY <1>1
    <3>5. n \in 1 .. n BY <1>1
    <3>6. Found(n) = Found(n - 1) \cup {all[n]} BY <2>1, <2>3, <3>3, <3>4, <3>5
    <3>7. ASSUME OnceInLog(f), all[n] \in Row PROVE all[n] \notin Found(n - 1)
      <4>1. SUFFICES ASSUME NEW i \in 1 .. n - 1, all[i] = all[n] PROVE FALSE OBVIOUS
      <4>2. i \in DOMAIN all /\ n \in DOMAIN all /\ i # n BY <1>1
      <4>3. QED BY <4>1, <4>2, <3>7, <1>3 DEF Once
    <3> HIDE DEF Found, T
    <3>8. /\ g[n] \in Seq(T) /\ Range(g[n]) = Range(g[n - 1]) \cup {all[n]}
      BY <3>1, <3>2, <1>7, RangeAppend
    <3>9. OnceInLog(f) => Once(g[n])
      BY <3>1, <3>2, <3>7, <1>7, OnceAppend
    <3>10. QED BY <3>6, <3>8, <3>9, <1>7
  <2>4. QED BY <2>2, <2>3
<1>8. Good(N)
  <2>1. \A n \in 1 .. N : n - 1 \in G => n \in G
    <3> HIDE DEF Good
    <3>1. \A n \in 1 .. N : n - 1 \in 0 .. N /\ n \in 0 .. N BY <1>1
    <3>2. QED BY <3>1, <1>7
  <2>2. 0 \in G
    <3> HIDE DEF Good
    <3>1. 0 \in 0 .. N BY <1>1
    <3>2. QED BY <3>1, <1>6
  <2>3. N \in G
    <3> HIDE DEF G, N
    <3>1. \A n \in 0 .. N : n \in G BY <2>1, <2>2, <1>1, Induction
    <3>2. QED BY <3>1, <1>1
  <2>4. QED BY <2>3
<1>9. Found(N) = {x \in InLog(f) : from_line(x)}
  <2>1. \A x \in InLog(f) : x \in Line /\ \E i \in 1 .. N : x = all[i] BY <1>1, <1>2 DEF Range
  <2>2. \A i \in 1 .. N : all[i] \in InLog(f) BY <1>1, <1>2 DEF Range
  <2>3. QED BY <2>1, <2>2
<1>10. QED BY <1>4, <1>8, <1>9

\* One line: its range, and nothing is there twice.
LEMMA SingleFact ==
  ASSUME NEW S, NEW x \in S
  PROVE  /\ <<x>> \in Seq(S) /\ Range(<<x>>) = {x} /\ Once(<<x>>) /\ Len(<<x>>) = 1
         /\ <<x>>[1] = x /\ <<x>> # << >>
<1>1. /\ <<x>> \in Seq(S) /\ DOMAIN <<x>> = {1} /\ <<x>>[1] = x /\ Len(<<x>>) = 1
      /\ <<x>> # << >>
  OBVIOUS
<1> DEFINE s == <<x>>
<1> HIDE DEF s
<1>2. DOMAIN s = {1} /\ s[1] = x BY <1>1 DEF s
<1>3. Range(s) = {x} /\ Once(s) BY <1>2 DEF Range, Once
<1>4. QED BY <1>1, <1>3 DEF s

LEMMA EmptyFact == /\ \A S : << >> \in Seq(S)
                   /\ Range(<< >>) = {} /\ Once(<< >>) /\ Len(<< >>) = 0
<1> DEFINE s == << >>
<1>1. DOMAIN s = {} OBVIOUS
<1> HIDE DEF s
<1>2. Range(s) = {} /\ Once(s) BY <1>1 DEF Range, Once
<1>3. QED BY <1>2 DEF s

LEMMA ShortFact ==
  ASSUME NEW S, NEW s \in Seq(S), Len(s) <= 1
  PROVE  s = << >> \/ (s[1] \in S /\ s = <<s[1]>>)
<1>1. Len(s) \in Nat OBVIOUS
<1>2. CASE Len(s) = 0 BY <1>2
<1>3. CASE Len(s) = 1
  <2>1. s[1] \in S BY <1>3
  <2>2. <<s[1]>> \in Seq(S) /\ Len(<<s[1]>>) = 1 /\ <<s[1]>>[1] = s[1] BY <2>1
  <2>3. \A i \in 1 .. Len(s) : s[i] = <<s[1]>>[i] BY <1>3, <2>2
  <2> DEFINE t == <<s[1]>>
  <2> HIDE DEF t
  <2>4. s = t BY <2>2, <2>3, <1>3, SeqEqual DEF t
  <2>5. QED BY <2>1, <2>4 DEF t
<1>4. Len(s) = 0 \/ Len(s) = 1
  <2>1. \A n \in Nat : n <= 1 => n = 0 \/ n = 1 OBVIOUS
  <2>2. QED BY <2>1, <1>1
<1>5. QED BY <1>2, <1>3, <1>4

\* A write keeps every line but the two it merges, and adds no row that is not in it.
LEMMA WrittenFact ==
  ASSUME NEW f \in Log, Len(f.tail) <= 1, NEW rows \in Seq(Row),
         NEW remnant \in Seq(Line), Len(remnant) <= 1, NEW m \in {Unreadable, Garbled}
  PROVE  LET w == Written(f, rows, remnant, m)
             gone == Spoilt(f, rows, remnant) IN
         /\ w \in Log /\ Len(w.tail) <= 1 /\ gone \subseteq Row
         /\ (InLog(f) \cup Range(rows)) \cap Row \subseteq InLog(w) \cup gone
         /\ InLog(w) \cap Row \subseteq InLog(f) \cup Range(rows) \cup Range(remnant)
         /\ OnceInLog(f) /\ Once(rows) /\ Once(remnant)
            /\ Range(rows) \cap Range(remnant) \cap Row = {}
            /\ InLog(f) \cap (Range(rows) \cup Range(remnant)) \cap Row = {}
              => OnceInLog(w)
<1> DEFINE w == Written(f, rows, remnant, m)
           gone == Spoilt(f, rows, remnant)
<1>1. /\ f.lines \in Seq(Line) /\ f.tail \in Seq(Line) /\ rows \in Seq(Line) /\ m \in Line
      /\ f = [lines |-> f.lines, tail |-> f.tail]
  <2>1. Row \subseteq Line /\ m \in Line BY RowFact
  <2>2. rows \in Seq(Line) BY <2>1, SeqMonotonic
  <2>3. QED BY <2>1, <2>2 DEF Log
<1>2. /\ << >> \in Seq(Line) /\ Range(<< >>) = {} /\ Once(<< >>) /\ m \notin Row
  BY EmptyFact, RowFact
<1>3. CASE f.tail = << >>
  <2>1. w.lines = f.lines \o rows /\ w.tail = remnant /\ w = [lines |-> w.lines, tail |-> w.tail]
    BY <1>3 DEF Written
  <2>2. w.lines \in Seq(Line) /\ Range(w.lines) = Range(f.lines) \cup Range(rows)
    BY <1>1, <2>1, RangeConcatenation
  <2>3. gone = {} BY <1>3 DEF Spoilt
  <2>4. OnceInLog(f) /\ Once(rows) /\ InLog(f) \cap Range(rows) \cap Row = {}
          => Once(w.lines)
    BY <1>1, <2>1, OnceConcat DEF OnceInLog, InLog
  <2> HIDE DEF w, gone
  <2>5. w \in Log BY <2>1, <2>2 DEF Log
  <2>6. Range(f.tail) = {} BY <1>2, <1>3
  <2>7. w.tail = remnant BY <2>1
  <2>8. /\ (InLog(f) \cup Range(rows)) \cap Row \subseteq InLog(w) \cup gone
        /\ InLog(w) \cap Row \subseteq InLog(f) \cup Range(rows) \cup Range(remnant)
    BY <2>2, <2>3, <2>6, <2>7 DEF InLog
  <2>9. ASSUME OnceInLog(f), Once(rows), Once(remnant),
               Range(rows) \cap Range(remnant) \cap Row = {},
               InLog(f) \cap (Range(rows) \cup Range(remnant)) \cap Row = {}
        PROVE  OnceInLog(w)
    <3>1. InLog(f) \cap Range(rows) \cap Row = {} BY <2>9
    <3>2. Once(w.lines) BY <3>1, <2>4, <2>9
    <3>3. Range(w.lines) \cap Range(remnant) \cap Row = {} BY <2>2, <2>9 DEF InLog
    <3>4. QED BY <3>2, <3>3, <2>7, <2>9 DEF OnceInLog
  <2>10. QED BY <2>3, <2>5, <2>7, <2>8, <2>9 DEF w, gone
<1>4. CASE f.tail # << >> /\ rows # << >>
  <2>0. /\ f.tail[1] \in Line /\ f.tail = <<f.tail[1]>> BY <1>1, <1>4, ShortFact
  <2>1. Range(f.tail) = {f.tail[1]} BY <2>0, SingleFact
  <2>2. /\ Head(rows) \in Line /\ Head(rows) = rows[1] /\ Tail(rows) \in Seq(Line)
        /\ Range(rows) = {Head(rows)} \cup Range(Tail(rows))
        /\ Once(rows) => Once(Tail(rows))
    BY <1>1, <1>4, TailFact
  <2>3. gone = {f.tail[1], Head(rows)} \cap Row
    <3>1. rows \o remnant # << >> /\ (rows \o remnant)[1] = Head(rows) BY <1>1, <1>4
    <3>2. QED BY <1>4, <3>1 DEF Spoilt
  <2>4. /\ w.lines = (f.lines \o <<m>>) \o Tail(rows) /\ w.tail = remnant
        /\ w = [lines |-> w.lines, tail |-> w.tail]
    BY <1>4 DEF Written
  <2> HIDE DEF w, gone
  <2>5. <<m>> \in Seq(Line) /\ Range(<<m>>) = {m} /\ Once(<<m>>) BY <1>1, SingleFact
  <2> DEFINE l == f.lines \o <<m>>
             single == <<m>>
  <2> HIDE DEF single
  <2>6. l \in Seq(Line) /\ Range(l) = Range(f.lines) \cup {m} /\ (Once(f.lines) => Once(l))
    <3>1. single \in Seq(Line) /\ Range(single) = {m} /\ Once(single) BY <2>5 DEF single
    <3>2. l = f.lines \o single BY DEF single
    <3>3. Range(f.lines) \cap Range(single) \cap Row = {} BY <3>1, <1>2
    <3> HIDE DEF l
    <3>4. QED BY <1>1, <3>1, <3>2, <3>3, RangeConcatenation, OnceConcat, ConcatProperties
  <2> HIDE DEF l
  <2>7. w.lines = l \o Tail(rows) BY <2>4 DEF l
  <2> DEFINE r == Tail(rows)
  <2> HIDE DEF r
  <2>18. r \in Seq(Line) /\ w.lines = l \o r BY <2>2, <2>7 DEF r
  <2>8. w.lines \in Seq(Line) /\ Range(w.lines) = Range(l) \cup Range(Tail(rows))
    <3>1. l \o r \in Seq(Line) /\ Range(l \o r) = Range(l) \cup Range(r)
      BY <2>6, <2>18, RangeConcatenation, ConcatProperties
    <3>2. QED BY <3>1, <2>18 DEF r
  <2>9. OnceInLog(f) /\ Once(rows) /\ InLog(f) \cap Range(rows) \cap Row = {}
          => Once(w.lines)
    <3>1. ASSUME OnceInLog(f), Once(rows), InLog(f) \cap Range(rows) \cap Row = {}
          PROVE  Once(w.lines)
      <4>1. Once(l) /\ Once(Tail(rows)) BY <3>1, <2>2, <2>6 DEF OnceInLog
      <4>2. Range(l) \cap Range(Tail(rows)) \cap Row = {}
        BY <3>1, <2>2, <2>6, <1>2 DEF InLog
      <4>3. Once(l \o r) BY <4>1, <4>2, <2>6, <2>18, OnceConcat DEF r
      <4>4. QED BY <4>3, <2>18
    <3>2. QED BY <3>1
  <2>10. w \in Log BY <2>4, <2>8 DEF Log
  <2>11. w.tail = remnant BY <2>4
  <2>12. Range(w.lines) = Range(f.lines) \cup {m} \cup Range(Tail(rows)) BY <2>6, <2>8
  <2>13. (InLog(f) \cup Range(rows)) \cap Row \subseteq InLog(w) \cup gone
    BY <2>1, <2>2, <2>3, <2>12 DEF InLog
  <2>14. InLog(w) \cap Row \subseteq InLog(f) \cup Range(rows) \cup Range(remnant)
    BY <2>2, <2>11, <2>12, <1>2 DEF InLog
  <2>15. ASSUME OnceInLog(f), Once(rows), Once(remnant),
                Range(rows) \cap Range(remnant) \cap Row = {},
                InLog(f) \cap (Range(rows) \cup Range(remnant)) \cap Row = {}
         PROVE  OnceInLog(w)
    <3>1. InLog(f) \cap Range(rows) \cap Row = {} BY <2>15
    <3>2. Once(w.lines) BY <3>1, <2>9, <2>15
    <3>3. Range(w.lines) \cap Range(remnant) \cap Row = {}
      BY <2>2, <2>12, <2>15, <1>2 DEF InLog
    <3>4. QED BY <3>2, <3>3, <2>11, <2>15 DEF OnceInLog
  <2>16. gone \subseteq Row BY <2>3
  <2>17. QED BY <2>10, <2>11, <2>13, <2>14, <2>15, <2>16 DEF w, gone
<1>5. CASE f.tail # << >> /\ rows = << >> /\ remnant = << >>
  <2>1. w = f BY <1>1, <1>5 DEF Written
  <2>2. gone = {}
    <3>1. rows \o remnant = << >> BY <1>5
    <3>2. QED BY <3>1 DEF Spoilt
  <2> HIDE DEF w, gone
  <2>3. Range(rows) = {} BY <1>5, <1>2
  <2>4. QED BY <2>1, <2>2, <2>3 DEF InLog, w, gone
<1>6. CASE f.tail # << >> /\ rows = << >> /\ remnant # << >>
  <2>0. /\ f.tail[1] \in Line /\ f.tail = <<f.tail[1]>> BY <1>1, <1>6, ShortFact
  <2>1. Range(f.tail) = {f.tail[1]} BY <2>0, SingleFact
  <2>2. w.lines = f.lines /\ w.tail = <<m>> /\ w = [lines |-> w.lines, tail |-> w.tail]
    <3>1. w = [f EXCEPT !.tail = <<m>>] BY <1>6 DEF Written
    <3> HIDE DEF w
    <3>2. QED BY <3>1 DEF Log
  <2>3. /\ w.tail \in Seq(Line) /\ Range(w.tail) = {m} /\ Once(w.tail) /\ Len(w.tail) = 1
    BY <1>1, <2>2, SingleFact
  <2>4. gone = {f.tail[1], remnant[1]} \cap Row
    <3>1. rows \o remnant = remnant BY <1>1, <1>6, ConcatEmptySeq
    <3>2. QED BY <1>6, <3>1 DEF Spoilt
  <2>5. Range(rows) = {} BY <1>6, <1>2
  <2> HIDE DEF w, gone
  <2>6. w \in Log BY <1>1, <2>2, <2>3 DEF Log
  <2>7. OnceInLog(f) => OnceInLog(w) BY <2>2, <2>3, <1>2 DEF OnceInLog
  <2>8. QED BY <2>1, <2>2, <2>3, <2>4, <2>5, <2>6, <2>7, <1>2 DEF InLog, w, gone
<1>7. QED BY <1>3, <1>4, <1>5, <1>6

\* What an interrupted write leaves behind k whole lines: one piece of line at most,
\* and no row beyond those of the batch.
LEMMA RemnantFact ==
  ASSUME NEW job \in Seq(Row), NEW k \in 0 .. Len(job), NEW remnant \in Remnants(job, k)
  PROVE  LET rows == SubSeq(job, 1, k) IN
         /\ rows \in Seq(Row) /\ remnant \in Seq(Line) /\ Len(remnant) <= 1
         /\ Range(rows) \subseteq Range(job) /\ Range(remnant) \cap Row \subseteq Range(job)
         /\ Once(job) => /\ Once(rows) /\ Once(remnant)
                         /\ Range(rows) \cap Range(remnant) \cap Row = {}
<1> DEFINE rows == SubSeq(job, 1, k)
<1>1. /\ Len(job) \in Nat /\ DOMAIN job = 1 .. Len(job) /\ k \in Nat
      /\ \A i \in 1 .. Len(job) : job[i] \in Row
  OBVIOUS
<1>2. rows \in Seq(Row) /\ Range(rows) \subseteq Range(job) /\ (Once(job) => Once(rows))
  <2>1. 1 \in 1 .. Len(job) + 1 BY <1>1
  <2>2. QED BY <2>1, SubSeqFact
<1>3. DOMAIN rows = 1 .. k /\ \A i \in 1 .. k : rows[i] = job[i] BY <1>1
<1> HIDE DEF rows
<1>4. CASE remnant = << >>
  <2>1. Range(remnant) = {} /\ Once(remnant) /\ remnant \in Seq(Line) /\ Len(remnant) = 0
    BY <1>4, EmptyFact
  <2>2. QED BY <1>2, <2>1 DEF rows
<1>5. CASE remnant # << >>
  <2>9. k # Len(job) BY <1>5 DEF Remnants
  <2>1. k < Len(job)
    <3>1. \A n \in Nat : \A i \in 0 .. n : i # n => i < n OBVIOUS
    <3>2. QED BY <3>1, <1>1, <2>9
  <2>2. PICK x \in {Unreadable, Garbled, job[k + 1]} : remnant = <<x>>
    BY <1>5, <2>9 DEF Remnants
  <2>3. k + 1 \in DOMAIN job /\ job[k + 1] \in Row BY <1>1, <2>1
  <2>4. x \in Line /\ (x \in Row => x = job[k + 1]) BY <2>2, <2>3, RowFact
  <2>5. /\ remnant \in Seq(Line) /\ Range(remnant) = {x} /\ Once(remnant) /\ Len(remnant) = 1
    BY <2>2, <2>4, SingleFact
  <2>6. job[k + 1] \in Range(job) BY <2>3 DEF Range
  <2>7. ASSUME Once(job) PROVE job[k + 1] \notin Range(rows)
    <3>1. SUFFICES ASSUME NEW i \in 1 .. k, job[i] = job[k + 1] PROVE FALSE
      BY <1>3 DEF Range
    <3>2. i \in DOMAIN job /\ i # k + 1 BY <1>1, <2>1
    <3>3. QED BY <2>3, <2>7, <3>1, <3>2 DEF Once
  <2>8. QED BY <1>2, <2>4, <2>5, <2>6, <2>7 DEF rows
<1>6. QED BY <1>4, <1>5

\* A line merged into a torn one never reads as a row that was received.
LEMMA MergedFact == ASSUME NEW f, NEW m \in Merged(f) PROVE m \in {Unreadable, Garbled}
  BY DEF Merged

-----------------------------------------------------------------------------
(* The table and the queue. *)

\* A write stores every row it is given; one that is given once, under rank 0.
LEMMA WriteFact ==
  ASSUME NEW d, d \subseteq (Row \cup {Garbled}) \X Nat, NEW p \in Seq(Row \cup {Garbled})
  PROVE  /\ write(d, p) \subseteq (Row \cup {Garbled}) \X Nat
         /\ d \subseteq write(d, p)
         /\ \A x \in Range(p) : \E e \in write(d, p) : e[1] = x
         /\ Once(p) => \A e \in write(d, p) : e \in d \/ (e[1] \in Row => e[2] = 0)
<1>1. DOMAIN p = 1 .. Len(p) /\ Len(p) \in Nat
      /\ \A i \in DOMAIN p : p[i] \in Row \cup {Garbled}
  OBVIOUS
<1>2. \A i \in DOMAIN p : Rank(p, i) \in Nat
  <2>1. ASSUME NEW i \in DOMAIN p PROVE Rank(p, i) \in Nat
    <3>1. IsFiniteSet(1 .. i - 1) BY <1>1, FS_Interval
    <3>2. IsFiniteSet({j \in 1 .. i - 1 : p[j] = p[i]}) BY <3>1, FS_Subset
    <3>3. QED BY <3>2, FS_CardinalityType DEF Rank
  <2>2. QED BY <2>1
<1>3. ASSUME Once(p), NEW i \in DOMAIN p, p[i] \in Row PROVE Rank(p, i) = 0
  <2>1. {j \in 1 .. i - 1 : p[j] = p[i]} = {} BY <1>1, <1>3 DEF Once
  <2>2. Cardinality({}) = 0 BY FS_EmptySet
  <2>3. QED BY <2>1, <2>2 DEF Rank
<1>4. \A e \in write(d, p) : e \in d \/ \E i \in DOMAIN p : e = <<p[i], Rank(p, i)>>
  BY DEF write
<1>5. \A i \in DOMAIN p : <<p[i], Rank(p, i)>> \in write(d, p) BY DEF write
<1>6. d \subseteq write(d, p) BY DEF write
<1>7. write(d, p) \subseteq (Row \cup {Garbled}) \X Nat BY <1>1, <1>2, <1>4
<1>8. ASSUME NEW x \in Range(p) PROVE \E e \in write(d, p) : e[1] = x
  <2>1. PICK i \in DOMAIN p : x = p[i] BY DEF Range
  <2>2. <<p[i], Rank(p, i)>>[1] = x BY <2>1
  <2>3. QED BY <2>2, <1>5
<1>9. ASSUME Once(p), NEW e \in write(d, p), e \notin d, e[1] \in Row PROVE e[2] = 0
  <2>1. PICK i \in DOMAIN p : e = <<p[i], Rank(p, i)>> BY <1>4, <1>9
  <2>2. e[1] = p[i] /\ e[2] = Rank(p, i) BY <2>1
  <2>3. QED BY <2>2, <1>3, <1>9
<1>10. QED BY <1>6, <1>7, <1>8, <1>9

InQueue(q) == UNION {Range(j) : j \in Range(q)}
Job == Seq(Row) \ {<< >>}

LEMMA QueueFact ==
  ASSUME NEW q \in Seq(Job)
  PROVE  /\ InQueue(q) \subseteq Row
         /\ \A b \in Job : Append(q, b) \in Seq(Job)
                             /\ InQueue(Append(q, b)) = InQueue(q) \cup Range(b)
         /\ q # << >> => /\ Head(q) \in Job /\ Tail(q) \in Seq(Job)
                         /\ InQueue(q) = Range(Head(q)) \cup InQueue(Tail(q))
<1>1. ASSUME NEW b \in Job
      PROVE  Append(q, b) \in Seq(Job) /\ InQueue(Append(q, b)) = InQueue(q) \cup Range(b)
  <2>1. Append(q, b) \in Seq(Job) /\ Range(Append(q, b)) = Range(q) \cup {b}
    BY RangeAppend
  <2>2. QED BY <2>1 DEF InQueue
<1>2. ASSUME q # << >>
      PROVE  /\ Head(q) \in Job /\ Tail(q) \in Seq(Job)
             /\ InQueue(q) = Range(Head(q)) \cup InQueue(Tail(q))
  <2>1. /\ Tail(q) \in Seq(Job) /\ Range(q) = {Head(q)} \cup Range(Tail(q)) /\ Head(q) \in Range(q)
    BY <1>2, TailFact
  <2>2. Range(q) \subseteq Job BY RangeOfSeq
  <2>3. QED BY <2>1, <2>2 DEF InQueue
<1>3. InQueue(q) \subseteq Row
  <2>1. Range(q) \subseteq Job BY RangeOfSeq
  <2>2. \A j \in Job : Range(j) \subseteq Row BY RangeOfSeq DEF Job
  <2>3. QED BY <2>1, <2>2 DEF InQueue
<1>4. QED BY <1>1, <1>2, <1>3

LEMMA EmptyQueue == InQueue(<< >>) = {} BY EmptyFact DEF InQueue

LEMMA UnloggedIs ==
  Unlogged = Range(buf) \cup Range(batch) \cup Range(writer.job) \cup InQueue(queue)
  BY Zenon DEF Unlogged, InQueue

-----------------------------------------------------------------------------
(* Types. *)

\* Where rows can be in each phase: nothing is in memory while the process is down, a
\* batch is on its way only in enqueue_job, the writer holds rows only in its append.
Shape ==
  /\ phase = "down" => /\ buf = << >> /\ queue = << >> /\ pending = << >>
                       /\ writer.pc = "idle"
  /\ phase # "enqueue" <=> batch = << >>
  /\ writer.pc # "append" => writer.job = << >>

Typed == TypeOK /\ Shape

LEMMA WriterFact ==
  /\ Idle \in Writer /\ Idle.pc = "idle" /\ Idle.job = << >>
  /\ \A pc \in {"idle", "append", "store", "commit"} :
       [Idle EXCEPT !.pc = pc] \in Writer /\ [Idle EXCEPT !.pc = pc].job = << >>
         /\ [Idle EXCEPT !.pc = pc].pc = pc
  /\ \A w \in Writer : w.pc \in {"idle", "append", "store", "commit"} /\ w.job \in Seq(Row)
<1>1. << >> \in Seq(Row) OBVIOUS
<1>2. QED BY <1>1 DEF Idle, Writer

LEMMA HistoryFact ==
  ASSUME NEW h \in History
  PROVE  /\ h.received \in 0 .. MaxRows /\ h.logged \subseteq Row /\ h.dropped \subseteq Row
         /\ h.lost \subseteq Row /\ h.spoilt \subseteq Row /\ h.half \in BOOLEAN
         /\ h.faults \in 0 .. MaxFaults /\ h.crashes \in 0 .. MaxCrashes
  BY DEF History

LEMMA TypedInit == Init => Typed
<1> SUFFICES ASSUME Init PROVE Typed OBVIOUS
<1>1. EmptyLog \in Log /\ Len(EmptyLog.tail) = 0 BY DEF EmptyLog, Log
<1>2. hist \in History BY BoundsAssumption DEF Init, History
<1>3. Len(queue) <= QueueMax + (IF phase = "stopping" THEN 1 ELSE 0)
  BY SizesAssumption DEF Init
<1>4. QED BY <1>1, <1>2, <1>3, WriterFact DEF Init, Typed, TypeOK, Shape

\* What the steps of the process and of the io thread do to the types.
LEMMA TypedIo ==
  ASSUME Typed, Open \/ OpenUnread \/ Run \/ OnRow \/ EnqueueJob \/ Stop \/ Join
  PROVE  Typed'
<1>0. TypeOK /\ Shape BY DEF Typed
<1>a. << >> \in Seq(Row) /\ << >> \in Seq(Row \cup {Garbled}) OBVIOUS
<1>b. /\ buf \in Seq(Row) /\ batch \in Seq(Row) /\ queue \in Seq(Job) /\ Len(queue) \in Nat
      /\ writer \in Writer /\ file \in Log /\ hist \in History
  BY <1>0 DEF TypeOK, Job
<1>c. /\ hist.received \in 0 .. MaxRows /\ hist.faults \in 0 .. MaxFaults
      /\ Range(buf) \subseteq Row /\ Range(batch) \subseteq Row
  BY <1>b, HistoryFact, RangeOfSeq
<1>1. CASE Open
  <2>1. pending' \in Seq(Row \cup {Garbled}) BY <1>1, <1>b, ReplayFact DEF Open
  <2>2. writer' \in {Idle, [Idle EXCEPT !.pc = "store"]} BY <1>1 DEF Open
  <2>3. writer' \in Writer /\ writer'.job = << >> BY <2>2, WriterFact
  <2>4. QED BY <1>0, <1>1, <2>1, <2>3 DEF Open, TypeOK, Typed, Shape
<1>2. CASE OpenUnread
  <2>1. hist' \in History
    <3>1. hist.faults + 1 \in 0 .. MaxFaults BY <1>2, <1>c, BoundsAssumption DEF OpenUnread
    <3>2. QED BY <3>1, <1>2, <1>b DEF OpenUnread, History
  <2>2. QED BY <1>0, <1>2, <2>1 DEF OpenUnread, TypeOK, Typed, Shape
<1>3. CASE Run BY <1>0, <1>3 DEF Run, TypeOK, Typed, Shape
<1>4. CASE OnRow
  <2>1. hist.received + 1 \in Row /\ hist.received + 1 \in 0 .. MaxRows
    BY <1>c, <1>4, BoundsAssumption DEF OnRow, Row
  <2> DEFINE b == Append(buf, hist.received + 1)
  <2>2. b \in Seq(Row) /\ b # << >> BY <1>b, <2>1
  <2>3. hist' \in History BY <1>b, <1>4, <2>1 DEF OnRow, History
  <2>4. \/ buf' = << >> /\ batch' = b /\ phase' = "enqueue"
        \/ buf' = b /\ batch' = batch /\ phase' = phase
    BY <1>4 DEF OnRow
  <2> HIDE DEF b
  <2>5. phase = "run" /\ queue' = queue /\ writer' = writer /\ file' = file
        /\ pending' = pending /\ db' = db
    BY <1>4 DEF OnRow
  <2>6. QED BY <1>0, <1>a, <2>2, <2>3, <2>4, <2>5 DEF TypeOK, Typed, Shape
<1>5. CASE EnqueueJob
  <2>0. phase = "enqueue" /\ phase' = "run" /\ batch' = << >> /\ buf' = buf
        /\ writer' = writer /\ file' = file /\ pending' = pending /\ db' = db
    BY <1>5 DEF EnqueueJob
  <2>1. batch \in Job BY <1>0, <1>b, <2>0 DEF Shape, Job
  <2>2. Len(queue) <= QueueMax BY <1>0, <2>0, SizesAssumption DEF TypeOK
  <2>4. PICK others \in 0 .. QueueMax :
          \/ /\ Full(queue, others) /\ queue' = queue
             /\ hist' = [hist EXCEPT !.dropped = @ \cup Range(batch)]
          \/ ~Full(queue, others) /\ queue' = Append(queue, batch) /\ hist' = hist
    BY <1>5 DEF EnqueueJob
  <2>5. CASE queue' = queue /\ hist' = [hist EXCEPT !.dropped = @ \cup Range(batch)]
    <3>2. hist' \in History BY <1>b, <1>c, <2>5 DEF History
    <3>3. QED BY <1>0, <1>a, <2>0, <2>5, <3>2 DEF TypeOK, Typed, Shape
  <2>6. CASE ~Full(queue, others) /\ queue' = Append(queue, batch) /\ hist' = hist
    <3>1. queue' \in Seq(Job) BY <1>b, <2>1, <2>6, QueueFact
    <3>2. Len(queue') <= QueueMax
      <4>1. Len(queue') = Len(queue) + 1 BY <1>b, <2>1, <2>6
      <4>2. ~(Len(queue) + others >= QueueMax) BY <2>6 DEF Full
      <4>3. \A n \in Nat : \A o \in 0 .. QueueMax : ~(n + o >= QueueMax) => n + 1 <= QueueMax
        BY SizesAssumption
      <4>4. QED BY <4>1, <4>2, <4>3, <1>b
    <3>3. QED BY <1>0, <1>a, <2>0, <2>6, <3>1, <3>2, SizesAssumption DEF TypeOK, Typed, Shape, Job
  <2>7. QED BY <2>4, <2>5, <2>6
<1>6. CASE Stop
  <2>0. phase = "run" /\ phase' = "stopping" /\ batch' = batch /\ buf' = << >>
        /\ writer' = writer /\ file' = file /\ pending' = pending /\ db' = db /\ hist' = hist
    BY <1>6 DEF Stop
  <2>2. Len(queue) <= QueueMax BY <1>0, <2>0, SizesAssumption DEF TypeOK
  <2>3. queue' \in Seq(Job) /\ Len(queue') <= QueueMax + 1
    <3>1. CASE buf = << >>
      <4>1. queue' = queue BY <1>6, <3>1 DEF Stop, enqueue_remaining
      <4>2. \A n \in Nat : n <= QueueMax => n <= QueueMax + 1 BY SizesAssumption
      <4>3. QED BY <4>1, <4>2, <1>b, <2>2
    <3>2. CASE buf # << >>
      <4>1. queue' = Append(queue, buf) /\ buf \in Job
        BY <1>b, <1>6, <3>2 DEF Stop, enqueue_remaining, Job
      <4>2. Append(queue, buf) \in Seq(Job) /\ Len(Append(queue, buf)) = Len(queue) + 1
        BY <4>1, <1>b
      <4>3. \A n \in Nat : n <= QueueMax => n + 1 <= QueueMax + 1 BY SizesAssumption
      <4>4. QED BY <4>1, <4>2, <4>3, <1>b, <2>2
    <3>3. QED BY <3>1, <3>2
  <2>4. QED BY <1>0, <1>a, <2>0, <2>3 DEF TypeOK, Typed, Shape, Job
<1>7. CASE Join
  <2>0. phase = "stopping" /\ phase' = "down" /\ batch' = batch /\ buf' = << >>
        /\ writer' = writer /\ file' = file /\ pending' = << >> /\ db' = db
        /\ queue = << >> /\ queue' = queue /\ writer.pc = "idle"
    BY <1>7 DEF Join
  <2>2. hist' \in History BY <1>b, <1>c, <1>7 DEF Join, History
  <2>4. Len(queue') <= QueueMax
    <3>1. Len(<< >>) = 0 OBVIOUS
    <3>2. QED BY <3>1, <2>0, SizesAssumption
  <2>5. QED BY <1>0, <1>a, <1>b, <2>0, <2>2, <2>4, SizesAssumption DEF TypeOK, Typed, Shape, Job
<1>8. QED BY <1>1, <1>2, <1>3, <1>4, <1>5, <1>6, <1>7

\* An append, whole or interrupted, leaves a log that still has at most one torn line.
LEMMA AppendFact ==
  ASSUME Typed, NEW k \in 0 .. Len(writer.job), NEW remnant \in Remnants(writer.job, k),
         NEW m \in Merged(file)
  PROVE  LET rows == SubSeq(writer.job, 1, k)
             w == Written(file, rows, remnant, m)
             gone == Spoilt(file, rows, remnant) IN
         /\ w \in Log /\ Len(w.tail) <= 1 /\ gone \subseteq Row
         /\ InLog(file) \cap Row \subseteq InLog(w) \cup gone
         /\ InLog(w) \cap Row \subseteq InLog(file) \cup Range(writer.job)
         /\ InLog(w) \cap Row \subseteq InLog(file) \cup Range(rows \o remnant)
         /\ Once(writer.job) /\ OnceInLog(file) /\ InLog(file) \cap Range(writer.job) = {}
              => OnceInLog(w)
<1> DEFINE rows == SubSeq(writer.job, 1, k)
           w == Written(file, rows, remnant, m)
           gone == Spoilt(file, rows, remnant)
<1>1. /\ file \in Log /\ Len(file.tail) <= 1 /\ writer.job \in Seq(Row)
      /\ m \in {Unreadable, Garbled}
  BY WriterFact, MergedFact DEF Typed, TypeOK
<1>2. /\ rows \in Seq(Row) /\ remnant \in Seq(Line) /\ Len(remnant) <= 1
      /\ Range(rows) \subseteq Range(writer.job) /\ Range(remnant) \cap Row \subseteq Range(writer.job)
      /\ Once(writer.job) => /\ Once(rows) /\ Once(remnant)
                             /\ Range(rows) \cap Range(remnant) \cap Row = {}
  BY <1>1, RemnantFact
<1> HIDE DEF rows
<1>3. /\ w \in Log /\ Len(w.tail) <= 1 /\ gone \subseteq Row
      /\ (InLog(file) \cup Range(rows)) \cap Row \subseteq InLog(w) \cup gone
      /\ InLog(w) \cap Row \subseteq InLog(file) \cup Range(rows) \cup Range(remnant)
      /\ OnceInLog(file) /\ Once(rows) /\ Once(remnant)
         /\ Range(rows) \cap Range(remnant) \cap Row = {}
         /\ InLog(file) \cap (Range(rows) \cup Range(remnant)) \cap Row = {}
           => OnceInLog(w)
  BY <1>1, <1>2, WrittenFact
<1> HIDE DEF w, gone
<1>4. InLog(w) \cap Row \subseteq InLog(file) \cup Range(writer.job) BY <1>2, <1>3
<1>5. ASSUME Once(writer.job), OnceInLog(file), InLog(file) \cap Range(writer.job) = {}
      PROVE  OnceInLog(w)
  <2>1. InLog(file) \cap (Range(rows) \cup Range(remnant)) \cap Row = {} BY <1>2, <1>5
  <2>2. QED BY <1>2, <1>3, <1>5, <2>1
<1>7. Range(rows \o remnant) = Range(rows) \cup Range(remnant)
  <2>1. rows \in Seq(Line) BY <1>2, RowFact, SeqMonotonic
  <2>2. QED BY <2>1, <1>2, RangeConcatenation
<1>6. QED BY <1>3, <1>4, <1>5, <1>7 DEF rows, w, gone

\* The same of an append that returned: nothing is torn, every row of the batch is there.
LEMMA WholeAppendFact ==
  ASSUME Typed, NEW m \in Merged(file)
  PROVE  LET w == Written(file, writer.job, << >>, m)
             gone == Spoilt(file, writer.job, << >>) IN
         /\ w \in Log /\ Len(w.tail) <= 1 /\ gone \subseteq Row
         /\ (InLog(file) \cup Range(writer.job)) \cap Row \subseteq InLog(w) \cup gone
         /\ InLog(w) \cap Row \subseteq InLog(file) \cup Range(writer.job)
         /\ Once(writer.job) /\ OnceInLog(file) /\ InLog(file) \cap Range(writer.job) = {}
              => OnceInLog(w)
<1> DEFINE w == Written(file, writer.job, << >>, m)
           gone == Spoilt(file, writer.job, << >>)
           none == << >>
<1>1. /\ file \in Log /\ Len(file.tail) <= 1 /\ writer.job \in Seq(Row)
      /\ m \in {Unreadable, Garbled}
  BY WriterFact, MergedFact DEF Typed, TypeOK
<1>2. none \in Seq(Line) /\ Len(none) = 0 /\ Range(none) = {} /\ Once(none) BY EmptyFact
<1> HIDE DEF none
<1>3. /\ w \in Log /\ Len(w.tail) <= 1 /\ gone \subseteq Row
      /\ (InLog(file) \cup Range(writer.job)) \cap Row \subseteq InLog(w) \cup gone
      /\ InLog(w) \cap Row \subseteq InLog(file) \cup Range(writer.job) \cup Range(none)
      /\ OnceInLog(file) /\ Once(writer.job) /\ Once(none)
         /\ Range(writer.job) \cap Range(none) \cap Row = {}
         /\ InLog(file) \cap (Range(writer.job) \cup Range(none)) \cap Row = {}
           => OnceInLog(w)
  <2>1. Len(none) <= 1 BY <1>2
  <2>2. QED BY <1>1, <1>2, <2>1, WrittenFact DEF none
<1> HIDE DEF w, gone
<1>4. QED BY <1>2, <1>3 DEF w, gone

\* What the steps of the writer thread, and a crash, do to the types.
LEMMA TypedWriter ==
  ASSUME Typed, Pop \/ WriteBatch \/ WriteBatchFails \/ Store \/ Commit \/ CommitFails \/ Crash
  PROVE  Typed'
<1>0. TypeOK /\ Shape BY DEF Typed
<1>a. /\ << >> \in Seq(Row) /\ << >> \in Seq(Row \cup {Garbled}) /\ << >> \in Seq(Job)
      /\ Len(<< >>) = 0
  OBVIOUS
<1>b. /\ buf \in Seq(Row) /\ batch \in Seq(Row) /\ queue \in Seq(Job) /\ Len(queue) \in Nat
      /\ writer \in Writer /\ file \in Log /\ hist \in History /\ writer.job \in Seq(Row)
      /\ pending \in Seq(Row \cup {Garbled}) /\ db \subseteq (Row \cup {Garbled}) \X Nat
  BY <1>0, WriterFact DEF TypeOK, Job
<1>c. /\ hist.faults \in 0 .. MaxFaults /\ hist.crashes \in 0 .. MaxCrashes
      /\ Range(writer.job) \subseteq Row
  BY <1>b, HistoryFact, RangeOfSeq
<1>d. EmptyLog \in Log /\ Len(EmptyLog.tail) = 0 BY DEF EmptyLog, Log
<1>1. CASE Pop
  <2>1. Head(queue) \in Job /\ Tail(queue) \in Seq(Job) BY <1>b, <1>1, QueueFact DEF Pop
  <2>2. Len(Tail(queue)) <= Len(queue) /\ Len(Tail(queue)) \in Nat BY <1>b, <1>1 DEF Pop
  <2>3. writer' \in Writer /\ writer'.pc = "append" BY <1>1, <2>1 DEF Pop, Writer, Job
  <2>4. Len(queue') <= QueueMax + (IF phase' = "stopping" THEN 1 ELSE 0)
    <3>1. \A a, b, c \in Int : a <= b /\ b <= c => a <= c OBVIOUS
    <3>2. QueueMax + (IF phase = "stopping" THEN 1 ELSE 0) \in Int BY SizesAssumption
    <3>3. Len(queue) <= QueueMax + (IF phase = "stopping" THEN 1 ELSE 0) BY <1>0 DEF TypeOK
    <3>4. queue' = Tail(queue) /\ phase' = phase BY <1>1 DEF Pop
    <3>5. QED BY <3>1, <3>2, <3>3, <3>4, <2>2, <1>b
  <2>5. QED BY <1>0, <1>1, <2>1, <2>3, <2>4 DEF Pop, TypeOK, Typed, Shape, Job
<1>2. CASE WriteBatch
  <2>1. PICK m \in Merged(file) : file' = Written(file, writer.job, << >>, m)
    BY <1>2 DEF WriteBatch
  <2>2. file' \in Log /\ Len(file'.tail) <= 1 /\ Spoilt(file, writer.job, << >>) \subseteq Row
    BY <2>1, WholeAppendFact
  <2>3. pending' \in Seq(Row \cup {Garbled})
    <3>1. writer.job \in Seq(Row \cup {Garbled}) BY <1>b, SeqMonotonic
    <3>2. QED BY <3>1, <1>b, <1>2, ConcatProperties DEF WriteBatch
  <2>4. hist' \in History BY <1>b, <1>c, <2>2, <1>2 DEF WriteBatch, History
  <2>5. writer' \in Writer /\ writer'.pc = "store" /\ writer'.job = << >>
    BY <1>a, <1>2 DEF WriteBatch, Writer
  <2>6. phase' = phase /\ buf' = buf /\ batch' = batch /\ queue' = queue /\ db' = db
        /\ writer.pc = "append"
    BY <1>2 DEF WriteBatch
  <2>7. QED BY <1>0, <2>2, <2>3, <2>4, <2>5, <2>6 DEF TypeOK, Typed, Shape
<1>3. CASE WriteBatchFails
  <2>x. PICK k \in 0 .. Len(writer.job) : \E remnant \in Remnants(writer.job, k) :
          /\ \E m \in Merged(file) : file' = Written(file, SubSeq(writer.job, 1, k), remnant, m)
          /\ hist' = [hist EXCEPT !.faults = @ + 1,
               !.half = @ \/ Range(SubSeq(writer.job, 1, k) \o remnant) \cap Row # {},
               !.spoilt = @ \cup Spoilt(file, SubSeq(writer.job, 1, k), remnant)]
    BY <1>3 DEF WriteBatchFails
  <2>1. PICK remnant \in Remnants(writer.job, k) :
          /\ \E m \in Merged(file) : file' = Written(file, SubSeq(writer.job, 1, k), remnant, m)
          /\ hist' = [hist EXCEPT !.faults = @ + 1,
               !.half = @ \/ Range(SubSeq(writer.job, 1, k) \o remnant) \cap Row # {},
               !.spoilt = @ \cup Spoilt(file, SubSeq(writer.job, 1, k), remnant)]
    BY <2>x
  <2>2. /\ file' \in Log /\ Len(file'.tail) <= 1
        /\ Spoilt(file, SubSeq(writer.job, 1, k), remnant) \subseteq Row
    <3>1. PICK m \in Merged(file) : file' = Written(file, SubSeq(writer.job, 1, k), remnant, m)
      BY <2>1
    <3>2. QED BY <3>1, AppendFact
  <2>3. hist' \in History
    <3>0. hist.faults < MaxFaults BY <1>3 DEF WriteBatchFails
    <3>1. hist.faults + 1 \in 0 .. MaxFaults BY <3>0, <1>c, BoundsAssumption
    <3> DEFINE gone == Spoilt(file, SubSeq(writer.job, 1, k), remnant)
               some == Range(SubSeq(writer.job, 1, k) \o remnant) \cap Row # {}
    <3> HIDE DEF gone, some
    <3>2. hist' = [hist EXCEPT !.faults = @ + 1, !.half = @ \/ some, !.spoilt = @ \cup gone]
      BY <2>1 DEF gone, some
    <3>3. (hist.half \/ some) \in BOOLEAN /\ hist.spoilt \cup gone \subseteq Row
      BY <1>b, <2>2, HistoryFact DEF gone, some
    <3>4. QED BY <3>1, <3>2, <3>3, <1>b DEF History
  <2>4. buf' \in Seq(Row) BY <1>b, <1>3, ConcatProperties DEF WriteBatchFails
  <2>5. phase' = phase /\ batch' = batch /\ queue' = queue /\ db' = db /\ pending' = pending
        /\ writer.pc = "append" /\ writer' = Idle
    BY <1>3 DEF WriteBatchFails
  <2>6. QED BY <1>0, <2>2, <2>3, <2>4, <2>5, WriterFact DEF TypeOK, Typed, Shape
<1>4. CASE Store
  <2>1. db' \in {db, write(db, pending)} /\ writer' \in {Idle, [writer EXCEPT !.pc = "commit"]}
    BY <1>4 DEF Store
  <2>2. db' \subseteq (Row \cup {Garbled}) \X Nat
    <3>1. write(db, pending) \subseteq (Row \cup {Garbled}) \X Nat BY <1>b, WriteFact
    <3>2. QED BY <3>1, <2>1, <1>b
  <2>3. writer.pc = "store" BY <1>4 DEF Store
  <2>4. writer' \in Writer /\ writer'.job = << >> /\ writer'.pc \in {"idle", "commit"}
    <3>1. writer.job = << >> BY <1>0, <2>3 DEF Shape
    <3>2. LET w == [writer EXCEPT !.pc = "commit"] IN
          w \in Writer /\ w.job = writer.job /\ w.pc = "commit"
      BY <1>b DEF Writer
    <3>3. QED BY <2>1, <3>1, <3>2, WriterFact
  <2>5. UNCHANGED <<phase, buf, batch, queue, file, pending, hist>> BY <1>4 DEF Store
  <2>6. QED BY <1>0, <2>2, <2>3, <2>4, <2>5 DEF TypeOK, Typed, Shape
<1>5. CASE Commit
  BY <1>0, <1>a, <1>d, <1>5, WriterFact DEF Commit, TypeOK, Typed, Shape
<1>6. CASE CommitFails
  <2>1. hist' \in History
    <3>1. hist.faults + 1 \in 0 .. MaxFaults BY <1>6, <1>c, BoundsAssumption DEF CommitFails
    <3>2. QED BY <3>1, <1>b, <1>6 DEF CommitFails, History
  <2>2. QED BY <1>0, <1>6, <2>1, WriterFact DEF CommitFails, TypeOK, Typed, Shape
<1>7. CASE Crash
  <2>x. PICK k \in 0 .. Len(writer.job) : \E remnant \in Remnants(writer.job, k) :
          /\ \E m \in Merged(file) : file' = Written(file, SubSeq(writer.job, 1, k), remnant, m)
          /\ hist' = [hist EXCEPT !.crashes = @ + 1, !.lost = @ \cup Unlogged,
               !.spoilt = @ \cup Spoilt(file, SubSeq(writer.job, 1, k), remnant)]
    BY <1>7 DEF Crash
  <2>1. PICK remnant \in Remnants(writer.job, k) :
          /\ \E m \in Merged(file) : file' = Written(file, SubSeq(writer.job, 1, k), remnant, m)
          /\ hist' = [hist EXCEPT !.crashes = @ + 1, !.lost = @ \cup Unlogged,
               !.spoilt = @ \cup Spoilt(file, SubSeq(writer.job, 1, k), remnant)]
    BY <2>x
  <2>2. /\ file' \in Log /\ Len(file'.tail) <= 1
        /\ Spoilt(file, SubSeq(writer.job, 1, k), remnant) \subseteq Row
    <3>1. PICK m \in Merged(file) : file' = Written(file, SubSeq(writer.job, 1, k), remnant, m)
      BY <2>1
    <3>2. QED BY <3>1, AppendFact
  <2>3. Unlogged \subseteq Row
    <3>1. Range(buf) \subseteq Row /\ Range(batch) \subseteq Row /\ InQueue(queue) \subseteq Row
      BY <1>b, RangeOfSeq, QueueFact
    <3>2. QED BY <3>1, <1>c, UnloggedIs
  <2>4. hist' \in History
    <3>0. hist.crashes < MaxCrashes BY <1>7 DEF Crash
    <3>1. hist.crashes + 1 \in 0 .. MaxCrashes BY <3>0, <1>c, BoundsAssumption
    <3> DEFINE gone == Spoilt(file, SubSeq(writer.job, 1, k), remnant)
    <3>2. hist' = [hist EXCEPT !.crashes = @ + 1, !.lost = @ \cup Unlogged, !.spoilt = @ \cup gone]
      BY <2>1
    <3>3. gone \subseteq Row BY <2>2
    <3> HIDE DEF gone
    <3>4. QED BY <3>1, <3>2, <3>3, <2>3, <1>b DEF History
  <2>5. /\ phase' = "down" /\ writer' = Idle /\ buf' = << >> /\ batch' = << >>
        /\ queue' = << >> /\ pending' = << >> /\ db' = db
    BY <1>7 DEF Crash
  <2>6. Len(queue') <= QueueMax + (IF phase' = "stopping" THEN 1 ELSE 0)
    BY <2>5, <1>a, SizesAssumption
  <2>7. db' \subseteq (Row \cup {Garbled}) \X Nat BY <1>b, <2>5
  <2>8. writer' \in Writer /\ writer'.pc = "idle" /\ writer'.job = << >> BY <2>5, WriterFact
  <2>9. TypeOK' BY <1>a, <2>2, <2>4, <2>5, <2>6, <2>7, <2>8 DEF TypeOK, Job
  <2>10. Shape' BY <2>5, <2>8 DEF Shape
  <2>11. QED BY <2>9, <2>10 DEF Typed
<1>8. QED BY <1>1, <1>2, <1>3, <1>4, <1>5, <1>6, <1>7

LEMMA TypedStep == Typed /\ [Next]_vars => Typed'
<1>1. CASE UNCHANGED vars BY <1>1 DEF vars, Typed, TypeOK, Shape
<1>2. QED BY <1>1, TypedIo, TypedWriter DEF Next

\* The types hold, and the writer queue never holds more than its cap and the one job
\* handed over at shutdown, for any cap, flush size and number of rows.
THEOREM CollectorTypes == Spec => []TypeOK
<1>1. Spec => []Typed BY TypedInit, TypedStep, PTL DEF Spec
<1>2. Typed => TypeOK BY DEF Typed
<1>3. QED BY <1>1, <1>2, PTL

-----------------------------------------------------------------------------
(* No row is lost unaccounted for. *)

\* The rows a restart would find, or that the running process still has to store.
Kept == IF phase = "down" THEN InLog(file) ELSE Range(pending)

\* Pending rows are in the log, and those about to be committed are in the table.
OnDisk == phase # "down" => (Range(pending) \cap Row) \ hist.spoilt \subseteq InLog(file)
CommitStored == writer.pc = "commit" => Range(pending) \cap Row \subseteq Stored

Durable == Typed /\ OnDisk /\ CommitStored

LEMMA ReadableReplay ==
  ASSUME Readable, NEW f \in Log
  PROVE  Range(replay_once(f)) \cap Row = InLog(f) \cap Row
<1>1. InLog(f) \subseteq Line
  <2>1. f.lines \in Seq(Line) /\ f.tail \in Seq(Line) BY DEF Log
  <2>2. QED BY <2>1, RangeOfSeq DEF InLog
<1>2. \A x \in InLog(f) : x \in Row => from_line(x) BY <1>1, FromLineFact
<1>3. QED BY <1>2, ReplayFact

\* What one step may do with rows.  A stored row stays stored; a row in memory only is
\* stored, pending, dropped or lost next; one that recovery would find is stored or
\* still found, unless its line was spoilt; a new row is in memory; a row newly
\* acknowledged is pending.
RowsFlow ==
  /\ Stored \subseteq Stored'
  /\ Unlogged \subseteq Unlogged' \cup Kept' \cup hist'.dropped \cup hist'.lost
  /\ Kept \cap Row \subseteq Stored' \cup Kept' \cup hist'.spoilt
  /\ 1 .. hist'.received \subseteq 1 .. hist.received \cup Unlogged'
  /\ hist'.logged \subseteq hist.logged \cup Kept'
  /\ hist.dropped \subseteq hist'.dropped /\ hist.lost \subseteq hist'.lost
  /\ hist.spoilt \subseteq hist'.spoilt

LEMMA UnloggedNext ==
  Unlogged' = Range(buf') \cup Range(batch') \cup Range(writer'.job) \cup InQueue(queue')
  BY Zenon DEF Unlogged, InQueue

LEMMA StoredNext == Stored' = {e[1] : e \in db'} \cap Row
  BY DEF Stored

LEMMA FlowIo ==
  ASSUME Durable, Typed', Readable,
         Open \/ OpenUnread \/ Run \/ OnRow \/ EnqueueJob \/ Stop \/ Join
  PROVE  RowsFlow /\ OnDisk' /\ CommitStored'
<1>0. TypeOK /\ Shape /\ Typed /\ OnDisk /\ CommitStored BY DEF Typed, Durable
<1>a. Range(<< >>) = {} /\ InQueue(<< >>) = {} BY EmptyFact, EmptyQueue
<1>b. /\ buf \in Seq(Row) /\ batch \in Seq(Row) /\ queue \in Seq(Job)
      /\ writer \in Writer /\ file \in Log /\ hist \in History /\ hist.received \in Nat
  <2>1. /\ buf \in Seq(Row) /\ batch \in Seq(Row) /\ queue \in Seq(Job)
        /\ writer \in Writer /\ file \in Log /\ hist \in History
    BY <1>0 DEF TypeOK, Job
  <2>2. hist.received \in 0 .. MaxRows BY <2>1, HistoryFact
  <2>3. QED BY <2>1, <2>2, BoundsAssumption
<1>c. writer.pc \in {"idle", "append", "store", "commit"} BY <1>b, WriterFact
<1>1. CASE Open
  <2>1. phase = "down" /\ phase' = "open" /\ pending' = replay_once(file)
        /\ UNCHANGED <<buf, batch, queue, file, db, hist>>
        /\ writer' \in {Idle, [Idle EXCEPT !.pc = "store"]}
    BY <1>1 DEF Open
  <2>2. writer'.job = << >> /\ writer'.pc # "commit" BY <2>1, WriterFact
  <2>3. writer.job = << >> BY <1>0, <2>1 DEF Shape
  <2>4. Kept = InLog(file) /\ Kept' = Range(pending') BY <2>1 DEF Kept
  <2>5. Kept \cap Row = Kept' \cap Row BY <2>1, <2>4, <1>b, ReadableReplay
  <2>6. Unlogged' = Unlogged BY <2>1, <2>2, <2>3, UnloggedIs, UnloggedNext
  <2>7. Stored' = Stored BY <2>1, StoredNext DEF Stored
  <2>8. RowsFlow BY <2>1, <2>5, <2>6, <2>7 DEF RowsFlow
  <2>9. OnDisk' BY <2>1, <2>4, <2>5 DEF OnDisk
  <2>10. QED BY <2>2, <2>8, <2>9 DEF CommitStored
<1>2. CASE OpenUnread
  <2>1. /\ phase = "down" /\ phase' = "open" /\ UNCHANGED <<buf, batch, queue, writer, file, pending, db>>
        /\ hist' = [hist EXCEPT !.faults = @ + 1,
                      !.spoilt = @ \cup (Range(file.lines \o file.tail) \cap Row)]
    BY <1>2 DEF OpenUnread
  <2>2. Range(file.lines \o file.tail) = InLog(file)
    <3>1. file.lines \in Seq(Line) /\ file.tail \in Seq(Line) BY <1>b DEF Log
    <3>2. QED BY <3>1, RangeConcatenation DEF InLog
  <2>3. /\ hist'.spoilt = hist.spoilt \cup (InLog(file) \cap Row) /\ hist'.received = hist.received
        /\ hist'.logged = hist.logged /\ hist'.dropped = hist.dropped /\ hist'.lost = hist.lost
    BY <1>b, <2>1, <2>2 DEF History
  <2>4. Kept = InLog(file) /\ Kept' = {} BY <1>0, <1>a, <2>1 DEF Kept, Shape
  <2>5. Unlogged' = Unlogged /\ Stored' = Stored
    BY <2>1, UnloggedIs, UnloggedNext, StoredNext DEF Stored
  <2>6. RowsFlow BY <2>3, <2>4, <2>5 DEF RowsFlow
  <2>7. OnDisk' BY <2>1, <2>4 DEF OnDisk, Kept
  <2>8. QED BY <1>0, <2>1, <2>6, <2>7 DEF CommitStored, Shape
<1>3. CASE Run
  <2>1. phase = "open" /\ phase' = "run" /\ UNCHANGED <<buf, batch, queue, writer, file, pending, db, hist>>
    BY <1>3 DEF Run
  <2>2. Unlogged' = Unlogged /\ Stored' = Stored /\ Kept' = Kept
    BY <2>1, UnloggedIs, UnloggedNext, StoredNext DEF Stored, Kept
  <2>3. QED BY <1>0, <2>1, <2>2 DEF RowsFlow, OnDisk, CommitStored
<1>4. CASE OnRow
  <2> DEFINE b == Append(buf, hist.received + 1)
  <2>1. /\ phase = "run" /\ UNCHANGED <<queue, writer, file, pending, db>>
        /\ hist' = [hist EXCEPT !.received = @ + 1] /\ hist.received < MaxRows
        /\ \/ buf' = << >> /\ batch' = b /\ phase' = "enqueue"
           \/ buf' = b /\ batch' = batch /\ phase' = phase
    BY <1>4 DEF OnRow
  <2>2. hist.received + 1 \in Row BY <1>b, <2>1, BoundsAssumption DEF Row
  <2>3. Range(b) = Range(buf) \cup {hist.received + 1} BY <1>b, <2>2, RangeAppend
  <2>4. batch = << >> BY <1>0, <2>1 DEF Shape
  <2> HIDE DEF b
  <2>5. Unlogged' = Unlogged \cup {hist.received + 1}
    BY <1>a, <2>1, <2>3, <2>4, UnloggedIs, UnloggedNext
  <2>6. Stored' = Stored /\ Kept' = Kept BY <2>1, StoredNext DEF Stored, Kept
  <2>7. /\ hist'.spoilt = hist.spoilt /\ hist'.received = hist.received + 1
        /\ hist'.logged = hist.logged /\ hist'.dropped = hist.dropped /\ hist'.lost = hist.lost
    BY <1>b, <2>1 DEF History
  <2>8. 1 .. hist'.received \subseteq 1 .. hist.received \cup {hist.received + 1}
    BY <1>b, <2>7
  <2>9. RowsFlow BY <2>5, <2>6, <2>7, <2>8 DEF RowsFlow
  <2>10. QED BY <1>0, <2>1, <2>6, <2>7, <2>9 DEF OnDisk, CommitStored
<1>5. CASE EnqueueJob
  <2>1. /\ phase = "enqueue" /\ phase' = "run" /\ batch' = << >>
        /\ UNCHANGED <<buf, writer, file, pending, db>>
        /\ \/ queue' = queue /\ hist' = [hist EXCEPT !.dropped = @ \cup Range(batch)]
           \/ queue' = Append(queue, batch) /\ hist' = hist
    BY <1>5 DEF EnqueueJob
  <2>2. batch \in Job BY <1>0, <1>b, <2>1 DEF Shape, Job
  <2>3. InQueue(Append(queue, batch)) = InQueue(queue) \cup Range(batch) BY <1>b, <2>2, QueueFact
  <2>4. /\ hist'.spoilt = hist.spoilt /\ hist'.received = hist.received
        /\ hist'.logged = hist.logged /\ hist.dropped \subseteq hist'.dropped /\ hist'.lost = hist.lost
        /\ queue' = queue => Range(batch) \subseteq hist'.dropped \/ queue' = Append(queue, batch)
    BY <1>b, <2>1 DEF History
  <2>5. Unlogged \subseteq Unlogged' \cup hist'.dropped
    BY <2>1, <2>3, <2>4, UnloggedIs, UnloggedNext
  <2>6. Stored' = Stored /\ Kept' = Kept BY <2>1, StoredNext DEF Stored, Kept
  <2>7. RowsFlow BY <2>4, <2>5, <2>6 DEF RowsFlow
  <2>8. QED BY <1>0, <2>1, <2>4, <2>6, <2>7 DEF OnDisk, CommitStored
<1>6. CASE Stop
  <2>1. /\ phase = "run" /\ phase' = "stopping" /\ buf' = << >>
        /\ UNCHANGED <<batch, writer, file, pending, db, hist>>
        /\ queue' = enqueue_remaining(queue, buf)
    BY <1>6 DEF Stop
  <2>2. InQueue(queue') = InQueue(queue) \cup Range(buf)
    <3>1. CASE buf = << >> BY <1>a, <2>1, <3>1 DEF enqueue_remaining
    <3>2. CASE buf # << >>
      <4>1. buf \in Job BY <1>b, <3>2 DEF Job
      <4>2. queue' = Append(queue, buf) BY <2>1, <3>2 DEF enqueue_remaining
      <4>3. QED BY <4>1, <4>2, <1>b, QueueFact
    <3>3. QED BY <3>1, <3>2
  <2>3. Unlogged' = Unlogged BY <1>a, <2>1, <2>2, UnloggedIs, UnloggedNext
  <2>4. Stored' = Stored /\ Kept' = Kept BY <2>1, StoredNext DEF Stored, Kept
  <2>5. RowsFlow BY <2>1, <2>3, <2>4 DEF RowsFlow
  <2>6. QED BY <1>0, <2>1, <2>4, <2>5 DEF OnDisk, CommitStored
<1>7. CASE Join
  <2>1. /\ phase = "stopping" /\ phase' = "down" /\ buf' = << >> /\ pending' = << >>
        /\ hist' = [hist EXCEPT !.lost = @ \cup Range(buf)] /\ writer.pc = "idle"
        /\ UNCHANGED <<batch, queue, writer, file, db>>
    BY <1>7 DEF Join
  <2>2. /\ hist'.spoilt = hist.spoilt /\ hist'.received = hist.received
        /\ hist'.logged = hist.logged /\ hist.dropped = hist'.dropped
        /\ hist'.lost = hist.lost \cup Range(buf)
    BY <1>b, <2>1 DEF History
  <2>3. Unlogged \subseteq Unlogged' \cup hist'.lost BY <1>a, <2>1, <2>2, UnloggedIs, UnloggedNext
  <2>4. Kept = Range(pending) /\ Kept' = InLog(file) BY <2>1 DEF Kept
  <2>5. Kept \cap Row \subseteq Kept' \cup hist.spoilt BY <1>0, <2>1, <2>4 DEF OnDisk
  <2>6. Stored' = Stored BY <2>1, StoredNext DEF Stored
  <2>7. RowsFlow BY <2>2, <2>3, <2>5, <2>6 DEF RowsFlow
  <2>8. QED BY <2>1, <2>7 DEF OnDisk, CommitStored
<1>8. QED BY <1>1, <1>2, <1>3, <1>4, <1>5, <1>6, <1>7

LEMMA FlowWriter ==
  ASSUME Durable, Typed', Readable,
         Pop \/ WriteBatch \/ WriteBatchFails \/ Store \/ Commit \/ CommitFails \/ Crash
  PROVE  RowsFlow /\ OnDisk' /\ CommitStored'
<1>0. TypeOK /\ Shape /\ Typed /\ OnDisk /\ CommitStored BY DEF Typed, Durable
<1>a. Range(<< >>) = {} /\ InQueue(<< >>) = {} BY EmptyFact, EmptyQueue
<1>b. /\ buf \in Seq(Row) /\ batch \in Seq(Row) /\ queue \in Seq(Job) /\ writer.job \in Seq(Row)
      /\ writer \in Writer /\ file \in Log /\ hist \in History
      /\ pending \in Seq(Row \cup {Garbled}) /\ db \subseteq (Row \cup {Garbled}) \X Nat
  BY <1>0, WriterFact DEF TypeOK, Job
<1>c. Range(writer.job) \subseteq Row BY <1>b, RangeOfSeq
<1>d. Idle.pc = "idle" /\ Idle.job = << >> BY WriterFact
<1>1. CASE Pop
  <2>1. /\ queue # << >> /\ writer' = [pc |-> "append", job |-> Head(queue)] /\ queue' = Tail(queue)
        /\ writer.pc = "idle" /\ UNCHANGED <<phase, buf, batch, file, pending, db, hist>>
    BY <1>1 DEF Pop
  <2>2. writer'.job = Head(queue) /\ writer'.pc = "append" /\ writer.job = << >>
    BY <1>0, <2>1 DEF Shape
  <2>3. InQueue(queue) = Range(Head(queue)) \cup InQueue(Tail(queue)) BY <1>b, <2>1, QueueFact
  <2>4. Unlogged' = Unlogged BY <1>a, <2>1, <2>2, <2>3, UnloggedIs, UnloggedNext
  <2>5. Stored' = Stored /\ Kept' = Kept BY <2>1, StoredNext DEF Stored, Kept
  <2>6. RowsFlow BY <2>1, <2>4, <2>5 DEF RowsFlow
  <2>7. QED BY <1>0, <2>1, <2>2, <2>5, <2>6 DEF OnDisk, CommitStored
<1>2. CASE WriteBatch
  <2> DEFINE gone == Spoilt(file, writer.job, << >>)
  <2>0. PICK m \in Merged(file) : file' = Written(file, writer.job, << >>, m)
    BY <1>2 DEF WriteBatch
  <2>1. /\ pending' = pending \o writer.job /\ writer' = [pc |-> "store", job |-> << >>]
        /\ writer.pc = "append" /\ UNCHANGED <<phase, buf, batch, queue, db>>
        /\ hist' = [hist EXCEPT !.logged = @ \cup Range(writer.job), !.spoilt = @ \cup gone]
    BY <1>2 DEF WriteBatch
  <2>2. (InLog(file) \cup Range(writer.job)) \cap Row \subseteq InLog(file') \cup gone
    BY <1>0, <2>0, WholeAppendFact
  <2> HIDE DEF gone
  <2>3. /\ hist'.spoilt = hist.spoilt \cup gone /\ hist'.received = hist.received
        /\ hist'.logged = hist.logged \cup Range(writer.job) /\ hist.dropped = hist'.dropped
        /\ hist'.lost = hist.lost
    BY <1>b, <2>1 DEF History
  <2>4. Range(pending') = Range(pending) \cup Range(writer.job)
    <3>1. writer.job \in Seq(Row \cup {Garbled}) BY <1>b, SeqMonotonic
    <3>2. QED BY <3>1, <1>b, <2>1, RangeConcatenation
  <2>5. phase # "down" BY <1>0, <2>1 DEF Shape
  <2>6. Kept = Range(pending) /\ Kept' = Range(pending') BY <2>1, <2>5 DEF Kept
  <2>7. writer'.job = << >> /\ writer'.pc = "store" BY <2>1
  <2>8. Unlogged \subseteq Unlogged' \cup Kept'
    BY <1>a, <2>1, <2>4, <2>6, <2>7, UnloggedIs, UnloggedNext
  <2>9. Stored' = Stored BY <2>1, StoredNext DEF Stored
  <2>10. RowsFlow BY <2>3, <2>4, <2>6, <2>8, <2>9 DEF RowsFlow
  <2>11. OnDisk' BY <1>0, <1>c, <2>1, <2>2, <2>3, <2>4, <2>5 DEF OnDisk
  <2>12. QED BY <2>7, <2>10, <2>11 DEF CommitStored
<1>3. CASE WriteBatchFails
  <2>1. PICK k \in 0 .. Len(writer.job) : \E remnant \in Remnants(writer.job, k) :
          /\ \E m \in Merged(file) : file' = Written(file, SubSeq(writer.job, 1, k), remnant, m)
          /\ hist' = [hist EXCEPT !.faults = @ + 1,
               !.half = @ \/ Range(SubSeq(writer.job, 1, k) \o remnant) \cap Row # {},
               !.spoilt = @ \cup Spoilt(file, SubSeq(writer.job, 1, k), remnant)]
    BY <1>3 DEF WriteBatchFails
  <2>2. PICK remnant \in Remnants(writer.job, k), m \in Merged(file) :
          /\ file' = Written(file, SubSeq(writer.job, 1, k), remnant, m)
          /\ hist' = [hist EXCEPT !.faults = @ + 1,
               !.half = @ \/ Range(SubSeq(writer.job, 1, k) \o remnant) \cap Row # {},
               !.spoilt = @ \cup Spoilt(file, SubSeq(writer.job, 1, k), remnant)]
    BY <2>1
  <2> DEFINE gone == Spoilt(file, SubSeq(writer.job, 1, k), remnant)
  <2>3. InLog(file) \cap Row \subseteq InLog(file') \cup gone BY <1>0, <2>2, AppendFact
  <2>4. /\ hist'.spoilt = hist.spoilt \cup gone /\ hist'.received = hist.received
        /\ hist'.logged = hist.logged /\ hist.dropped = hist'.dropped /\ hist'.lost = hist.lost
    BY <1>b, <2>2 DEF History
  <2> HIDE DEF gone
  <2>5. /\ buf' = writer.job \o buf /\ writer' = Idle /\ writer.pc = "append"
        /\ UNCHANGED <<phase, batch, queue, pending, db>>
    BY <1>3 DEF WriteBatchFails
  <2>6. Range(buf') = Range(writer.job) \cup Range(buf) BY <1>b, <2>5, RangeConcatenation
  <2>7. Unlogged' = Unlogged BY <1>a, <1>d, <2>5, <2>6, UnloggedIs, UnloggedNext
  <2>8. phase # "down" BY <1>0, <2>5 DEF Shape
  <2>9. Stored' = Stored /\ Kept' = Kept BY <2>5, <2>8, StoredNext DEF Stored, Kept
  <2>10. RowsFlow BY <2>4, <2>7, <2>9 DEF RowsFlow
  <2>11. OnDisk' BY <1>0, <2>3, <2>4, <2>5, <2>8 DEF OnDisk
  <2>12. QED BY <1>d, <2>5, <2>10, <2>11 DEF CommitStored
<1>4. CASE Store
  <2>1. PICK landed \in BOOLEAN, acked \in BOOLEAN :
          /\ acked => landed
          /\ db' = IF landed THEN write(db, pending) ELSE db
          /\ writer' = IF acked THEN [writer EXCEPT !.pc = "commit"] ELSE Idle
    BY <1>4 DEF Store
  <2>2. writer.pc = "store" /\ UNCHANGED <<phase, buf, batch, queue, file, pending, hist>>
    BY <1>4 DEF Store
  <2>3. writer.job = << >> BY <1>0, <2>2 DEF Shape
  <2>4. writer'.job = << >> /\ (~acked => writer'.pc = "idle")
    BY <1>b, <1>d, <2>1, <2>3 DEF Writer
  <2>5. Unlogged' = Unlogged BY <2>2, <2>3, <2>4, UnloggedIs, UnloggedNext
  <2>6. /\ db \subseteq write(db, pending)
        /\ \A x \in Range(pending) : \E e \in write(db, pending) : e[1] = x
    BY <1>b, WriteFact
  <2>7. db \subseteq db' BY <2>1, <2>6
  <2>8. Stored \subseteq Stored' BY <2>7, StoredNext DEF Stored
  <2>9. landed => Range(pending) \cap Row \subseteq Stored'
    <3>1. SUFFICES ASSUME landed, NEW x \in Range(pending), x \in Row PROVE x \in Stored'
      OBVIOUS
    <3>2. PICK e \in db' : e[1] = x BY <2>1, <2>6, <3>1
    <3>3. QED BY <3>1, <3>2, StoredNext
  <2>10. Kept' = Kept BY <2>2 DEF Kept
  <2>11. RowsFlow BY <2>2, <2>5, <2>8, <2>10 DEF RowsFlow
  <2>12. CommitStored'
    <3>1. CASE acked BY <2>1, <2>2, <2>9, <3>1 DEF CommitStored
    <3>2. CASE ~acked BY <2>4, <3>2 DEF CommitStored
    <3>3. QED BY <3>1, <3>2
  <2>13. OnDisk' BY <1>0, <2>2 DEF OnDisk
  <2>14. QED BY <2>11, <2>12, <2>13
<1>5. CASE Commit
  <2>1. /\ writer.pc = "commit" /\ file' = EmptyLog /\ pending' = << >> /\ writer' = Idle
        /\ UNCHANGED <<phase, buf, batch, queue, db, hist>>
    BY <1>5 DEF Commit
  <2>2. phase # "down" /\ writer.job = << >> BY <1>0, <2>1 DEF Shape
  <2>3. Unlogged' = Unlogged BY <1>d, <2>1, <2>2, UnloggedIs, UnloggedNext
  <2>4. Stored' = Stored BY <2>1, StoredNext DEF Stored
  <2>5. Kept \cap Row \subseteq Stored BY <1>0, <2>1, <2>2 DEF Kept, CommitStored
  <2>6. RowsFlow BY <2>1, <2>3, <2>4, <2>5 DEF RowsFlow
  <2>7. QED BY <1>a, <1>d, <2>1, <2>6 DEF OnDisk, CommitStored
<1>6. CASE CommitFails
  <2>1. /\ writer.pc = "commit" /\ writer' = Idle /\ hist' = [hist EXCEPT !.faults = @ + 1]
        /\ UNCHANGED <<phase, buf, batch, queue, file, pending, db>>
    BY <1>6 DEF CommitFails
  <2>2. writer.job = << >> BY <1>0, <2>1 DEF Shape
  <2>3. /\ hist'.spoilt = hist.spoilt /\ hist'.received = hist.received
        /\ hist'.logged = hist.logged /\ hist.dropped = hist'.dropped /\ hist'.lost = hist.lost
    BY <1>b, <2>1 DEF History
  <2>4. Unlogged' = Unlogged BY <1>d, <2>1, <2>2, UnloggedIs, UnloggedNext
  <2>5. Stored' = Stored /\ Kept' = Kept BY <2>1, StoredNext DEF Stored, Kept
  <2>6. RowsFlow BY <2>3, <2>4, <2>5 DEF RowsFlow
  <2>7. QED BY <1>0, <1>d, <2>1, <2>3, <2>6 DEF OnDisk, CommitStored
<1>7. CASE Crash
  <2>1. PICK k \in 0 .. Len(writer.job) : \E remnant \in Remnants(writer.job, k) :
          /\ \E m \in Merged(file) : file' = Written(file, SubSeq(writer.job, 1, k), remnant, m)
          /\ hist' = [hist EXCEPT !.crashes = @ + 1, !.lost = @ \cup Unlogged,
               !.spoilt = @ \cup Spoilt(file, SubSeq(writer.job, 1, k), remnant)]
    BY <1>7 DEF Crash
  <2>2. PICK remnant \in Remnants(writer.job, k), m \in Merged(file) :
          /\ file' = Written(file, SubSeq(writer.job, 1, k), remnant, m)
          /\ hist' = [hist EXCEPT !.crashes = @ + 1, !.lost = @ \cup Unlogged,
               !.spoilt = @ \cup Spoilt(file, SubSeq(writer.job, 1, k), remnant)]
    BY <2>1
  <2> DEFINE gone == Spoilt(file, SubSeq(writer.job, 1, k), remnant)
  <2>3. InLog(file) \cap Row \subseteq InLog(file') \cup gone BY <1>0, <2>2, AppendFact
  <2>4. /\ hist'.spoilt = hist.spoilt \cup gone /\ hist'.received = hist.received
        /\ hist'.logged = hist.logged /\ hist.dropped = hist'.dropped
        /\ hist'.lost = hist.lost \cup Unlogged
    BY <1>b, <2>2 DEF History
  <2> HIDE DEF gone
  <2>5. /\ phase # "down" /\ phase' = "down" /\ writer' = Idle /\ db' = db BY <1>7 DEF Crash
  <2>6. Stored' = Stored /\ Kept' = InLog(file') /\ Kept = Range(pending)
    BY <2>5, StoredNext DEF Stored, Kept
  <2>7. Kept \cap Row \subseteq Kept' \cup hist'.spoilt
    BY <1>0, <2>3, <2>4, <2>5, <2>6 DEF OnDisk
  <2>8. RowsFlow BY <2>4, <2>6, <2>7 DEF RowsFlow
  <2>9. QED BY <1>d, <2>5, <2>8 DEF OnDisk, CommitStored
<1>8. QED BY <1>1, <1>2, <1>3, <1>4, <1>5, <1>6, <1>7

LEMMA FlowStep ==
  ASSUME Durable, Readable, [Next]_vars
  PROVE  RowsFlow /\ Durable'
<1>1. Typed' BY TypedStep DEF Durable
<1>2. CASE UNCHANGED vars
  BY <1>1, <1>2 DEF vars, Durable, RowsFlow, OnDisk, CommitStored, Kept, Stored, Unlogged
<1>3. CASE Next
  <2>1. RowsFlow /\ OnDisk' /\ CommitStored' BY <1>1, <1>3, FlowIo, FlowWriter DEF Next
  <2>2. QED BY <1>1, <2>1 DEF Durable
<1>4. QED BY <1>2, <1>3

LEMMA DurableInit == Init => Durable
<1> SUFFICES ASSUME Init PROVE Durable OBVIOUS
<1>1. Typed BY TypedInit
<1>2. phase = "down" /\ writer.pc = "idle" BY WriterFact DEF Init
<1>3. QED BY <1>1, <1>2 DEF Durable, OnDisk, CommitStored

\* The three invariants over what recovery finds, in terms of Kept.
Accounted == 1 .. hist.received \subseteq
               Stored \cup Unlogged \cup Kept \cup hist.dropped \cup hist.lost \cup hist.spoilt
Survives == hist.logged \ hist.spoilt \subseteq Stored \cup Kept

\* While the process is up, what is pending is in the log and reads back: a crash at
\* this instant loses none of it.
PendingOnDisk ==
  phase # "down" =>
    (Range(pending) \cap Row) \ hist.spoilt \subseteq Range(replay_once(file))

LEMMA RecoverableFact ==
  ASSUME Durable, Readable
  PROVE  Recoverable \cap Row = Kept \cap Row
<1>1. file \in Log BY DEF Durable, Typed, TypeOK
<1>2. QED BY <1>1, ReadableReplay DEF Recoverable, Kept

LEMMA AccountedFact ==
  ASSUME Durable, Readable
  PROVE  /\ Accounted => NothingVanishes
         /\ Survives => LoggedRowsSurvive
         /\ PendingOnDisk
<1>1. file \in Log /\ hist \in History BY DEF Durable, Typed, TypeOK
<1>2. hist.logged \subseteq Row /\ hist.received \in 0 .. MaxRows BY <1>1, HistoryFact
<1>3. 1 .. hist.received \subseteq Row BY <1>2, BoundsAssumption DEF Row
<1>4. Recoverable \cap Row = Kept \cap Row BY RecoverableFact
<1>5. Range(replay_once(file)) \cap Row = InLog(file) \cap Row BY <1>1, ReadableReplay
<1>6. Accounted => NothingVanishes BY <1>3, <1>4 DEF Accounted, NothingVanishes
<1>7. Survives => LoggedRowsSurvive BY <1>2, <1>4 DEF Survives, LoggedRowsSurvive
<1>8. PendingOnDisk BY <1>5 DEF PendingOnDisk, Durable, OnDisk
<1>9. QED BY <1>6, <1>7, <1>8

\* Every field from_line asks for is written, except for depth rows.
LEMMA ReadableStreams == Stream # "depth" => Readable
  BY StreamAssumption DEF Readable, FieldsWritten, FieldsNeeded

Safe == Durable /\ Accounted /\ Survives

LEMMA SafeStep ==
  ASSUME Readable, Safe, [Next]_vars
  PROVE  Safe'
<1>1. RowsFlow /\ Durable' BY FlowStep DEF Safe
<1>2. hist \in History BY DEF Safe, Durable, Typed, TypeOK
<1>3. /\ hist.logged \subseteq Row /\ 1 .. hist.received \subseteq Row
  BY <1>2, HistoryFact, BoundsAssumption DEF Row
<1>4. Accounted' BY <1>1, <1>3 DEF Safe, Accounted, RowsFlow
<1>5. Survives' BY <1>1, <1>3 DEF Safe, Survives, RowsFlow
<1>6. QED BY <1>1, <1>4, <1>5 DEF Safe

LEMMA SafeAlways ==
  ASSUME Readable
  PROVE  Spec => []Safe
<1>1. Init => Safe
  <2>1. ASSUME Init PROVE Accounted /\ Survives
    <3>1. hist.received = 0 /\ hist.logged = {} BY <2>1 DEF Init
    <3>2. QED BY <3>1 DEF Accounted, Survives
  <2>2. QED BY <2>1, DurableInit DEF Safe
<1>2. Safe /\ [Next]_vars => Safe' BY SafeStep
<1>3. QED BY <1>1, <1>2, PTL DEF Spec

\* For the two streams whose lines read back, whatever fails or crashes and however
\* often: every row received is accounted for, every row whose append returned is stored
\* or will be replayed, and what is pending is on disk.
THEOREM NoRowIsLost ==
  ASSUME Stream # "depth"
  PROVE  Spec => [](NothingVanishes /\ LoggedRowsSurvive /\ PendingOnDisk)
<1>1. Readable BY ReadableStreams
<1>2. Spec => []Safe BY <1>1, SafeAlways
<1>3. Safe => NothingVanishes /\ LoggedRowsSurvive /\ PendingOnDisk
  BY <1>1, AccountedFact DEF Safe
<1>4. QED BY <1>2, <1>3, PTL

\* A row whose append returned is in the database or will be replayed, whatever crash
\* comes between the append, the write and the commit.
THEOREM LoggedRowsAreSafe ==
  ASSUME Stream # "depth"
  PROVE  Spec => []LoggedRowsSurvive
<1>1. Spec => [](NothingVanishes /\ LoggedRowsSurvive /\ PendingOnDisk) BY NoRowIsLost
<1>2. QED BY <1>1, PTL

\* The commit that empties the log never runs ahead of the database: every row the
\* writer still has to store is in the file.
THEOREM PendingIsDurable ==
  ASSUME Stream # "depth"
  PROVE  Spec => []PendingOnDisk
<1>1. Spec => [](NothingVanishes /\ LoggedRowsSurvive /\ PendingOnDisk) BY NoRowIsLost
<1>2. QED BY <1>1, PTL

-----------------------------------------------------------------------------
(* The refinement of RowLog. *)

\* A step of RowLog's log: lines written or damaged, rows acknowledged that are there.
Appends ==
  /\ hist.spoilt \subseteq hist'.spoilt
  /\ InLog(file) \cap Row \subseteq InLog(file') \cup hist'.spoilt
  /\ hist.logged \subseteq hist'.logged
  /\ hist'.logged \subseteq hist.logged \cup InLog(file') \cup hist'.spoilt
  /\ Stored' = Stored

\* A step of its table.
Inserts ==
  /\ Stored \subseteq Stored'
  /\ Stored' \subseteq Stored \cup (InLog(file) \cap Row) \cup hist.spoilt
  /\ file' = file /\ hist' = hist

\* Its commit.
Truncates ==
  /\ hist.logged \ hist.spoilt \subseteq Stored
  /\ file' = EmptyLog /\ hist' = hist /\ Stored' = Stored

LEMMA LifeStep ==
  ASSUME Safe, Next
  PROVE  Appends \/ Inserts \/ Truncates
<1>0. /\ Typed /\ TypeOK /\ Shape /\ writer \in Writer /\ hist \in History
      /\ pending \in Seq(Row \cup {Garbled})
  BY DEF Safe, Durable, Typed, TypeOK
<1>1. CASE Open \/ Run \/ OnRow \/ EnqueueJob \/ Stop \/ Join \/ Pop \/ CommitFails
  <2>1. /\ file' = file /\ db' = db
        /\ hist'.logged = hist.logged /\ hist'.spoilt = hist.spoilt
    BY <1>0, <1>1 DEF Open, Run, OnRow, EnqueueJob, Stop, Join, Pop, CommitFails, History
  <2> QED BY <2>1, StoredNext DEF Appends, Stored
<1>2. CASE OpenUnread
  <2>1. /\ file' = file /\ db' = db
        /\ hist'.logged = hist.logged /\ hist.spoilt \subseteq hist'.spoilt
    BY <1>0, <1>2 DEF OpenUnread, History
  <2> QED BY <2>1, StoredNext DEF Appends, Stored
<1>3. CASE WriteBatch
  <2>0. PICK m \in Merged(file) : file' = Written(file, writer.job, << >>, m)
    BY <1>3 DEF WriteBatch
  <2> DEFINE gone == Spoilt(file, writer.job, << >>)
  <2>1. (InLog(file) \cup Range(writer.job)) \cap Row \subseteq InLog(file') \cup gone
    BY <1>0, <2>0, WholeAppendFact
  <2> HIDE DEF gone
  <2>2. /\ hist'.spoilt = hist.spoilt \cup gone
        /\ hist'.logged = hist.logged \cup Range(writer.job) /\ db' = db
    BY <1>0, <1>3 DEF WriteBatch, History, gone
  <2>3. Range(writer.job) \subseteq Row
    BY <1>0, WriterFact, RangeOfSeq
  <2> QED BY <2>1, <2>2, <2>3, StoredNext DEF Appends, Stored
<1>4. CASE WriteBatchFails \/ Crash
  <2>1. PICK k \in 0 .. Len(writer.job) : \E r \in Remnants(writer.job, k) :
          /\ \E m \in Merged(file) : file' = Written(file, SubSeq(writer.job, 1, k), r, m)
          /\ hist'.spoilt = hist.spoilt \cup Spoilt(file, SubSeq(writer.job, 1, k), r)
    BY <1>0, <1>4 DEF WriteBatchFails, Crash, History
  <2>2. PICK r \in Remnants(writer.job, k), m \in Merged(file) :
          /\ file' = Written(file, SubSeq(writer.job, 1, k), r, m)
          /\ hist'.spoilt = hist.spoilt \cup Spoilt(file, SubSeq(writer.job, 1, k), r)
    BY <2>1
  <2>3. InLog(file) \cap Row \subseteq InLog(file') \cup Spoilt(file, SubSeq(writer.job, 1, k), r)
    BY <1>0, <2>2, AppendFact
  <2>4. hist'.logged = hist.logged /\ db' = db
    BY <1>0, <1>4 DEF WriteBatchFails, Crash, History
  <2> QED BY <2>2, <2>3, <2>4, StoredNext DEF Appends, Stored
<1>5. CASE Store
  <2>1. /\ db' = write(db, pending) \/ db' = db
        /\ writer.pc = "store" /\ file' = file /\ hist' = hist
    BY <1>5 DEF Store
  <2>2. Range(pending) \cap Row \subseteq InLog(file) \cup hist.spoilt
    BY <1>0, <2>1 DEF Safe, Durable, OnDisk, Shape
  <2>3. \A e \in write(db, pending) : e \in db \/ e[1] \in Range(pending)
    BY <1>0 DEF write, Range
  <2>4. Stored \subseteq Stored'
    BY <1>0, <2>1, WriteFact, StoredNext DEF Stored, TypeOK
  <2>5. Stored' \subseteq Stored \cup (Range(pending) \cap Row)
    BY <2>1, <2>3, StoredNext DEF Stored
  <2> QED BY <2>1, <2>2, <2>4, <2>5 DEF Inserts
<1>6. CASE Commit
  <2>1. writer.pc = "commit" /\ file' = EmptyLog /\ hist' = hist /\ db' = db
    BY <1>6 DEF Commit
  <2>2. Kept = Range(pending)
    BY <1>0, <2>1 DEF Shape, Kept
  <2>3. hist.logged \subseteq Row
    BY <1>0, HistoryFact
  <2>4. hist.logged \ hist.spoilt \subseteq Stored
    BY <2>1, <2>2, <2>3 DEF Safe, Survives, Durable, CommitStored
  <2> QED BY <2>1, <2>4, StoredNext DEF Truncates, Stored
<1> QED BY <1>1, <1>2, <1>3, <1>4, <1>5, <1>6 DEF Next

\* The collector's threads, retries, torn appends and crashes amount to the life cycle
\* of wal.hpp: rows reach the table only from the log, which is emptied only when
\* every row it acknowledged is stored.
THEOREM CollectorIsRowLog ==
  ASSUME Stream # "depth"
  PROVE  Spec => WriteAhead
<1>0. Readable BY ReadableStreams
<1>1. Spec => []Safe BY <1>0, SafeAlways
<1>2. Init => Lifecycle!Init
  <2> SUFFICES ASSUME Init PROVE Lifecycle!Init OBVIOUS
  <2>1. file \in Log /\ InLog(file) = {} /\ hist.logged = {} /\ hist.spoilt = {} /\ db = {}
    BY DurableInit, EmptyFact DEF Init, EmptyLog, InLog, Durable, Typed, TypeOK
  <2>2. Range(replay_once(file)) \cap Row = {}
    BY <1>0, <2>1, ReadableReplay
  <2> QED BY <2>1, <2>2 DEF Lifecycle!Init, Stored
<1>3. Safe /\ Safe' /\ [Next]_vars => [Lifecycle!Next]_(Lifecycle!vars)
  <2> SUFFICES ASSUME Safe, Safe', [Next]_vars
               PROVE  [Lifecycle!Next]_(Lifecycle!vars)
    OBVIOUS
  <2>1. /\ Range(replay_once(file)) \cap Row = InLog(file) \cap Row
        /\ Range(replay_once(file')) \cap Row = InLog(file') \cap Row
        /\ hist.logged \subseteq Row /\ hist'.logged \subseteq Row
    BY <1>0, ReadableReplay, HistoryFact DEF Safe, Durable, Typed, TypeOK
  <2>2. CASE UNCHANGED vars
    BY <2>2 DEF vars, Lifecycle!vars, Stored
  <2>3. CASE Appends
    BY <2>1, <2>3 DEF Appends, Lifecycle!Append, Lifecycle!Next
  <2>4. CASE Inserts
    BY <2>1, <2>4 DEF Inserts, Lifecycle!Insert, Lifecycle!Next
  <2>5. CASE Truncates
    <3>1. InLog(file') = {}
      BY <2>5, EmptyFact DEF Truncates, EmptyLog, InLog
    <3> QED BY <2>1, <2>5, <3>1 DEF Truncates, Lifecycle!Truncate, Lifecycle!Next
  <2> QED BY <2>2, <2>3, <2>4, <2>5, LifeStep
<1> QED
  BY <1>1, <1>2, <1>3, PTL DEF Spec, WriteAhead, Lifecycle!Spec

-----------------------------------------------------------------------------
(* No row is stored twice. *)

OnceInQueue(q) == \A i \in DOMAIN q :
  /\ Once(q[i])
  /\ \A j \in DOMAIN q : i # j => Range(q[i]) \cap Range(q[j]) = {}

\* As long as no append failed half-way a row is in one place only: in one of the four
\* places in memory, or in the log and, while the process is up, among the pending.
MemoryApart ==
  /\ Once(buf) /\ Once(batch) /\ Once(writer.job) /\ OnceInQueue(queue)
  /\ Range(buf) \cap Range(batch) = {} /\ Range(buf) \cap Range(writer.job) = {}
  /\ Range(batch) \cap Range(writer.job) = {}
  /\ InQueue(queue) \cap (Range(buf) \cup Range(batch) \cup Range(writer.job)) = {}

LogApart ==
  /\ OnceInLog(file) /\ Once(pending)
  /\ Unlogged \cap (InLog(file) \cup Range(pending)) = {}

RankZero == \A e \in db : e[1] \in Row => e[2] = 0

\* Nothing is a row that has not been received yet.
Known == Unlogged \cup ((InLog(file) \cup Range(pending)) \cap Row) \subseteq 1 .. hist.received

Distinct == Known /\ (~hist.half => MemoryApart /\ LogApart /\ RankZero)

LEMMA OnceInQueueFact ==
  ASSUME NEW q \in Seq(Job), OnceInQueue(q)
  PROVE  /\ \A b \in Job : Once(b) /\ Range(b) \cap InQueue(q) = {} => OnceInQueue(Append(q, b))
         /\ q # << >> => /\ OnceInQueue(Tail(q)) /\ Once(Head(q))
                         /\ Range(Head(q)) \cap InQueue(Tail(q)) = {}
<1>1. DOMAIN q = 1 .. Len(q) /\ Len(q) \in Nat OBVIOUS
<1>2. \A i \in DOMAIN q : Range(q[i]) \subseteq InQueue(q) BY DEF InQueue, Range
<1>3. ASSUME NEW b \in Job, Once(b), Range(b) \cap InQueue(q) = {}
      PROVE  OnceInQueue(Append(q, b))
  <2> DEFINE a == Append(q, b)
  <2>1. /\ DOMAIN a = 1 .. Len(q) + 1 /\ a[Len(q) + 1] = b
        /\ \A i \in 1 .. Len(q) : a[i] = q[i]
    BY <1>1
  <2> HIDE DEF a
  <2>2. \A i \in DOMAIN a : (i \in DOMAIN q /\ a[i] = q[i]) \/ (i = Len(q) + 1 /\ a[i] = b)
    BY <1>1, <2>1
  <2>3. OnceInQueue(a) BY <1>2, <1>3, <2>2 DEF OnceInQueue
  <2>4. QED BY <2>3 DEF a
<1>4. ASSUME q # << >>
      PROVE  /\ OnceInQueue(Tail(q)) /\ Once(Head(q)) /\ Range(Head(q)) \cap InQueue(Tail(q)) = {}
  <2> DEFINE t == Tail(q)
  <2>1. /\ DOMAIN t = 1 .. Len(q) - 1 /\ Len(q) # 0 /\ Head(q) = q[1]
        /\ \A i \in 1 .. Len(q) - 1 : t[i] = q[i + 1]
    BY <1>1, <1>4
  <2> HIDE DEF t
  <2>2. \A i \in DOMAIN t : i + 1 \in DOMAIN q /\ t[i] = q[i + 1] /\ i + 1 # 1 BY <1>1, <2>1
  <2>3. 1 \in DOMAIN q BY <1>1, <2>1
  <2>4. OnceInQueue(t)
    <3>1. ASSUME NEW i \in DOMAIN t, NEW j \in DOMAIN t, i # j
          PROVE  Range(t[i]) \cap Range(t[j]) = {}
      <4>1. i + 1 # j + 1 BY <1>1, <2>1, <3>1
      <4>2. QED BY <4>1, <2>2 DEF OnceInQueue
    <3>2. \A i \in DOMAIN t : Once(t[i]) BY <2>2 DEF OnceInQueue
    <3>3. QED BY <3>1, <3>2 DEF OnceInQueue
  <2>5. Once(Head(q)) BY <2>1, <2>3 DEF OnceInQueue
  <2>6. \A i \in DOMAIN t : Range(Head(q)) \cap Range(t[i]) = {} BY <2>1, <2>2, <2>3 DEF OnceInQueue
  <2>7. Range(Head(q)) \cap InQueue(t) = {} BY <2>6 DEF InQueue, Range
  <2>8. QED BY <2>4, <2>5, <2>7 DEF t
<1>5. QED BY <1>3, <1>4

LEMMA DistinctIo ==
  ASSUME Typed, Distinct, Open \/ OpenUnread \/ Run \/ OnRow \/ EnqueueJob \/ Stop \/ Join
  PROVE  Distinct'
<1>0. TypeOK /\ Shape BY DEF Typed
<1>a. Range(<< >>) = {} /\ InQueue(<< >>) = {} /\ Once(<< >>) BY EmptyFact, EmptyQueue
<1>b. /\ buf \in Seq(Row) /\ batch \in Seq(Row) /\ queue \in Seq(Job)
      /\ writer \in Writer /\ file \in Log /\ hist \in History
  BY <1>0 DEF TypeOK, Job
<1>c. hist.received \in Nat /\ hist.received \in 0 .. MaxRows
  BY <1>b, HistoryFact, BoundsAssumption
<1>d. Unlogged = Range(buf) \cup Range(batch) \cup Range(writer.job) \cup InQueue(queue)
  BY UnloggedIs
<1>e. Unlogged' = Range(buf') \cup Range(batch') \cup Range(writer'.job) \cup InQueue(queue')
  BY UnloggedNext
<1>1. CASE Open
  <2>1. phase = "down" /\ pending' = replay_once(file)
        /\ UNCHANGED <<buf, batch, queue, file, db, hist>>
        /\ writer' \in {Idle, [Idle EXCEPT !.pc = "store"]}
    BY <1>1 DEF Open
  <2>2. writer'.job = << >> /\ writer.job = << >> BY <1>0, <2>1, WriterFact DEF Shape
  <2>3. Range(pending') \subseteq InLog(file) /\ (OnceInLog(file) => Once(pending'))
    BY <1>b, <2>1, ReplayFact
  <2>4. Unlogged' = Unlogged BY <1>d, <1>e, <2>1, <2>2
  <2>5. Known' BY <2>1, <2>3, <2>4 DEF Distinct, Known
  <2>6. ASSUME ~hist.half PROVE (MemoryApart /\ LogApart /\ RankZero)'
    <3>1. MemoryApart' BY <2>1, <2>2, <2>6 DEF Distinct, MemoryApart
    <3>2. LogApart' BY <2>1, <2>3, <2>4, <2>6 DEF Distinct, LogApart
    <3>3. QED BY <2>1, <2>6, <3>1, <3>2 DEF Distinct, RankZero
  <2>7. QED BY <2>1, <2>5, <2>6 DEF Distinct
<1>2. CASE OpenUnread
  <2>1. /\ UNCHANGED <<buf, batch, queue, writer, file, pending, db>>
        /\ hist'.half = hist.half /\ hist'.received = hist.received
    BY <1>b, <1>2 DEF OpenUnread, History
  <2>2. Unlogged' = Unlogged BY <1>d, <1>e, <2>1
  <2>3. QED BY <2>1, <2>2 DEF Distinct, Known, MemoryApart, LogApart, RankZero
<1>3. CASE Run
  <2>1. UNCHANGED <<buf, batch, queue, writer, file, pending, db, hist>> BY <1>3 DEF Run
  <2>2. Unlogged' = Unlogged BY <1>d, <1>e, <2>1
  <2>3. QED BY <2>1, <2>2 DEF Distinct, Known, MemoryApart, LogApart, RankZero
<1>4. CASE OnRow
  <2> DEFINE x == hist.received + 1
             b == Append(buf, x)
  <2>1. /\ phase = "run" /\ UNCHANGED <<queue, writer, file, pending, db>>
        /\ hist.received < MaxRows
        /\ \/ buf' = << >> /\ batch' = b
           \/ buf' = b /\ batch' = batch
    BY <1>4 DEF OnRow
  <2>2. hist'.half = hist.half /\ hist'.received = x BY <1>b, <1>4 DEF OnRow, History
  <2>3. x \in Row BY <1>c, <2>1, BoundsAssumption DEF Row
  <2>4. x \notin Unlogged /\ x \notin InLog(file) \cup Range(pending)
    <3>1. x \notin 1 .. hist.received BY <1>c
    <3>2. QED BY <3>1, <2>3 DEF Distinct, Known
  <2>5. batch = << >> BY <1>0, <2>1 DEF Shape
  <2>6. Range(b) = Range(buf) \cup {x} /\ (Once(buf) => Once(b))
    BY <1>b, <1>d, <2>3, <2>4, RangeAppend, OnceAppend
  <2>7. 1 .. hist'.received = 1 .. hist.received \cup {x} BY <1>c, <2>2
  <2> HIDE DEF b, x
  <2>8. Unlogged' = Unlogged \cup {x} BY <1>a, <1>d, <1>e, <2>1, <2>5, <2>6
  <2>9. Known' BY <2>1, <2>7, <2>8 DEF Distinct, Known
  <2>10. ASSUME ~hist.half PROVE (MemoryApart /\ LogApart /\ RankZero)'
    <3>1. MemoryApart /\ LogApart /\ RankZero BY <2>10 DEF Distinct
    <3>2. x \notin Range(writer.job) /\ x \notin InQueue(queue) BY <1>d, <2>4
    <3>3. MemoryApart' BY <1>a, <2>1, <2>5, <2>6, <3>1, <3>2 DEF MemoryApart
    <3>4. LogApart' BY <2>1, <2>4, <2>8, <3>1 DEF LogApart
    <3>5. QED BY <2>1, <3>1, <3>3, <3>4 DEF RankZero
  <2>11. QED BY <2>2, <2>9, <2>10 DEF Distinct
<1>5. CASE EnqueueJob
  <2>1. /\ phase = "enqueue" /\ batch' = << >> /\ UNCHANGED <<buf, writer, file, pending, db>>
        /\ \/ queue' = queue /\ hist' = [hist EXCEPT !.dropped = @ \cup Range(batch)]
           \/ queue' = Append(queue, batch) /\ hist' = hist
    BY <1>5 DEF EnqueueJob
  <2>2. batch \in Job BY <1>0, <1>b, <2>1 DEF Shape, Job
  <2>3. InQueue(queue') \subseteq InQueue(queue) \cup Range(batch) BY <1>b, <2>1, <2>2, QueueFact
  <2>4. hist'.half = hist.half /\ hist'.received = hist.received BY <1>b, <2>1 DEF History
  <2>5. Unlogged' \subseteq Unlogged BY <1>a, <1>d, <1>e, <2>1, <2>3
  <2>6. Known' BY <2>1, <2>4, <2>5 DEF Distinct, Known
  <2>7. ASSUME ~hist.half PROVE (MemoryApart /\ LogApart /\ RankZero)'
    <3>1. MemoryApart /\ LogApart /\ RankZero BY <2>7 DEF Distinct
    <3>2. OnceInQueue(queue') BY <1>b, <2>1, <2>2, <3>1, OnceInQueueFact DEF MemoryApart
    <3>3. MemoryApart' BY <1>a, <2>1, <2>3, <3>1, <3>2 DEF MemoryApart
    <3>4. LogApart' BY <2>1, <2>5, <3>1 DEF LogApart
    <3>5. QED BY <2>1, <3>1, <3>3, <3>4 DEF RankZero
  <2>8. QED BY <2>4, <2>6, <2>7 DEF Distinct
<1>6. CASE Stop
  <2>1. /\ phase = "run" /\ buf' = << >> /\ UNCHANGED <<batch, writer, file, pending, db, hist>>
        /\ queue' = enqueue_remaining(queue, buf)
    BY <1>6 DEF Stop
  <2>2. /\ InQueue(queue') = InQueue(queue) \cup Range(buf)
        /\ OnceInQueue(queue) /\ Once(buf) /\ Range(buf) \cap InQueue(queue) = {}
             => OnceInQueue(queue')
    <3>1. CASE buf = << >> BY <1>a, <2>1, <3>1 DEF enqueue_remaining
    <3>2. CASE buf # << >>
      <4>1. buf \in Job BY <1>b, <3>2 DEF Job
      <4>2. queue' = Append(queue, buf) BY <2>1, <3>2 DEF enqueue_remaining
      <4>3. QED BY <4>1, <4>2, <1>b, QueueFact, OnceInQueueFact
    <3>3. QED BY <3>1, <3>2
  <2>3. Unlogged' = Unlogged BY <1>a, <1>d, <1>e, <2>1, <2>2
  <2>4. Known' BY <2>1, <2>3 DEF Distinct, Known
  <2>5. ASSUME ~hist.half PROVE (MemoryApart /\ LogApart /\ RankZero)'
    <3>1. MemoryApart /\ LogApart /\ RankZero BY <2>5 DEF Distinct
    <3>2. MemoryApart' BY <1>a, <2>1, <2>2, <3>1 DEF MemoryApart
    <3>3. LogApart' BY <2>1, <2>3, <3>1 DEF LogApart
    <3>4. QED BY <2>1, <3>1, <3>2, <3>3 DEF RankZero
  <2>6. QED BY <2>1, <2>4, <2>5 DEF Distinct
<1>7. CASE Join
  <2>1. /\ buf' = << >> /\ pending' = << >> /\ UNCHANGED <<batch, queue, writer, file, db>>
    BY <1>7 DEF Join
  <2>2. hist'.half = hist.half /\ hist'.received = hist.received
    BY <1>b, <1>7 DEF Join, History
  <2>3. Unlogged' \subseteq Unlogged BY <1>a, <1>d, <1>e, <2>1
  <2>4. Known' BY <1>a, <2>1, <2>2, <2>3 DEF Distinct, Known
  <2>5. ASSUME ~hist.half PROVE (MemoryApart /\ LogApart /\ RankZero)'
    <3>1. MemoryApart /\ LogApart /\ RankZero BY <2>5 DEF Distinct
    <3>2. MemoryApart' BY <1>a, <2>1, <3>1 DEF MemoryApart
    <3>3. LogApart' BY <1>a, <2>1, <2>3, <3>1 DEF LogApart
    <3>4. QED BY <2>1, <3>1, <3>2, <3>3 DEF RankZero
  <2>6. QED BY <2>2, <2>4, <2>5 DEF Distinct
<1>8. QED BY <1>1, <1>2, <1>3, <1>4, <1>5, <1>6, <1>7

LEMMA DistinctWriter ==
  ASSUME Typed, Distinct,
         Pop \/ WriteBatch \/ WriteBatchFails \/ Store \/ Commit \/ CommitFails \/ Crash
  PROVE  Distinct'
<1>0. TypeOK /\ Shape BY DEF Typed
<1>a. Range(<< >>) = {} /\ InQueue(<< >>) = {} /\ Once(<< >>) BY EmptyFact, EmptyQueue
<1>b. /\ buf \in Seq(Row) /\ batch \in Seq(Row) /\ queue \in Seq(Job) /\ writer.job \in Seq(Row)
      /\ writer \in Writer /\ file \in Log /\ hist \in History
      /\ pending \in Seq(Row \cup {Garbled}) /\ db \subseteq (Row \cup {Garbled}) \X Nat
  BY <1>0, WriterFact DEF TypeOK, Job
<1>c. Range(writer.job) \subseteq Row /\ Range(writer.job) \subseteq Unlogged
  BY <1>b, RangeOfSeq, UnloggedIs
<1>d. Unlogged = Range(buf) \cup Range(batch) \cup Range(writer.job) \cup InQueue(queue)
  BY UnloggedIs
<1>e. Unlogged' = Range(buf') \cup Range(batch') \cup Range(writer'.job) \cup InQueue(queue')
  BY UnloggedNext
<1>f. Idle.pc = "idle" /\ Idle.job = << >> BY WriterFact
<1>1. CASE Pop
  <2>1. /\ queue # << >> /\ writer' = [pc |-> "append", job |-> Head(queue)] /\ queue' = Tail(queue)
        /\ writer.pc = "idle" /\ UNCHANGED <<phase, buf, batch, file, pending, db, hist>>
    BY <1>1 DEF Pop
  <2>2. writer'.job = Head(queue) /\ writer.job = << >> BY <1>0, <2>1 DEF Shape
  <2>3. InQueue(queue) = Range(Head(queue)) \cup InQueue(Tail(queue)) BY <1>b, <2>1, QueueFact
  <2>4. Unlogged' = Unlogged BY <1>a, <1>d, <1>e, <2>1, <2>2, <2>3
  <2>5. Known' BY <2>1, <2>4 DEF Distinct, Known
  <2>6. ASSUME ~hist.half PROVE (MemoryApart /\ LogApart /\ RankZero)'
    <3>1. MemoryApart /\ LogApart /\ RankZero BY <2>6 DEF Distinct
    <3>2. /\ OnceInQueue(Tail(queue)) /\ Once(Head(queue))
          /\ Range(Head(queue)) \cap InQueue(Tail(queue)) = {}
      BY <1>b, <2>1, <3>1, OnceInQueueFact DEF MemoryApart
    <3>3. MemoryApart' BY <2>1, <2>2, <2>3, <3>1, <3>2 DEF MemoryApart
    <3>4. LogApart' BY <2>1, <2>4, <3>1 DEF LogApart
    <3>5. QED BY <2>1, <3>1, <3>3, <3>4 DEF RankZero
  <2>7. QED BY <2>1, <2>5, <2>6 DEF Distinct
<1>2. CASE WriteBatch
  <2>0. PICK m \in Merged(file) : file' = Written(file, writer.job, << >>, m)
    BY <1>2 DEF WriteBatch
  <2>1. /\ pending' = pending \o writer.job /\ writer' = [pc |-> "store", job |-> << >>]
        /\ UNCHANGED <<buf, batch, queue, db>>
    BY <1>2 DEF WriteBatch
  <2>2. /\ InLog(file') \cap Row \subseteq InLog(file) \cup Range(writer.job)
        /\ Once(writer.job) /\ OnceInLog(file) /\ InLog(file) \cap Range(writer.job) = {}
             => OnceInLog(file')
    BY <2>0, WholeAppendFact
  <2>3. hist'.half = hist.half /\ hist'.received = hist.received
    BY <1>b, <1>2 DEF WriteBatch, History
  <2>4. writer.job \in Seq(Row \cup {Garbled}) BY <1>b, SeqMonotonic
  <2>5. Range(pending') = Range(pending) \cup Range(writer.job)
    BY <1>b, <2>1, <2>4, RangeConcatenation
  <2>6. writer'.job = << >> BY <2>1
  <2>7. Unlogged' = Range(buf) \cup Range(batch) \cup InQueue(queue) BY <1>a, <1>e, <2>1, <2>6
  <2>8. Known' BY <1>d, <2>2, <2>3, <2>5, <2>7 DEF Distinct, Known
  <2>9. ASSUME ~hist.half PROVE (MemoryApart /\ LogApart /\ RankZero)'
    <3>1. MemoryApart /\ LogApart /\ RankZero BY <2>9 DEF Distinct
    <3>2. MemoryApart' BY <1>a, <2>1, <2>6, <3>1 DEF MemoryApart
    <3>3. InLog(file) \cap Range(writer.job) = {} /\ Range(pending) \cap Range(writer.job) = {}
      BY <1>c, <3>1 DEF LogApart
    <3>4. OnceInLog(file') BY <2>2, <3>1, <3>3 DEF MemoryApart, LogApart
    <3>5. Once(pending')
      <4>1. Range(pending) \cap Range(writer.job) \cap Row = {} BY <3>3
      <4>2. QED BY <1>b, <2>1, <2>4, <3>1, <4>1, OnceConcat DEF MemoryApart, LogApart
    <3>6. Unlogged' \cap Range(writer.job) = {} BY <2>7, <3>1 DEF MemoryApart
    <3>7. Unlogged' \subseteq Row
      <4>1. Range(buf) \subseteq Row /\ Range(batch) \subseteq Row /\ InQueue(queue) \subseteq Row
        BY <1>b, RangeOfSeq, QueueFact
      <4>2. QED BY <4>1, <2>7
    <3>8. Unlogged' \cap (InLog(file') \cup Range(pending')) = {}
      <4>1. Unlogged' \cap (InLog(file) \cup Range(pending)) = {} BY <1>d, <2>7, <3>1 DEF LogApart
      <4>2. QED BY <2>2, <2>5, <3>6, <3>7, <4>1
    <3>9. LogApart' BY <3>4, <3>5, <3>8 DEF LogApart
    <3>10. QED BY <2>1, <3>1, <3>2, <3>9 DEF RankZero
  <2>10. QED BY <2>3, <2>8, <2>9 DEF Distinct
<1>3. CASE WriteBatchFails
  <2>1. PICK k \in 0 .. Len(writer.job) : \E remnant \in Remnants(writer.job, k) :
          /\ \E m \in Merged(file) : file' = Written(file, SubSeq(writer.job, 1, k), remnant, m)
          /\ hist' = [hist EXCEPT !.faults = @ + 1,
               !.half = @ \/ Range(SubSeq(writer.job, 1, k) \o remnant) \cap Row # {},
               !.spoilt = @ \cup Spoilt(file, SubSeq(writer.job, 1, k), remnant)]
    BY <1>3 DEF WriteBatchFails
  <2>2. PICK remnant \in Remnants(writer.job, k), m \in Merged(file) :
          /\ file' = Written(file, SubSeq(writer.job, 1, k), remnant, m)
          /\ hist' = [hist EXCEPT !.faults = @ + 1,
               !.half = @ \/ Range(SubSeq(writer.job, 1, k) \o remnant) \cap Row # {},
               !.spoilt = @ \cup Spoilt(file, SubSeq(writer.job, 1, k), remnant)]
    BY <2>1
  <2> DEFINE new == Range(SubSeq(writer.job, 1, k) \o remnant)
  <2>3. /\ InLog(file') \cap Row \subseteq InLog(file) \cup Range(writer.job)
        /\ InLog(file') \cap Row \subseteq InLog(file) \cup new
        /\ Once(writer.job) /\ OnceInLog(file) /\ InLog(file) \cap Range(writer.job) = {}
             => OnceInLog(file')
    BY <2>2, AppendFact
  <2>4. hist'.half = (hist.half \/ new \cap Row # {}) /\ hist'.received = hist.received
    BY <1>b, <2>2 DEF History
  <2> HIDE DEF new
  <2>5. buf' = writer.job \o buf /\ writer' = Idle /\ UNCHANGED <<batch, queue, pending, db>>
    BY <1>3 DEF WriteBatchFails
  <2>6. Range(buf') = Range(writer.job) \cup Range(buf) BY <1>b, <2>5, RangeConcatenation
  <2>7. Unlogged' = Unlogged BY <1>a, <1>d, <1>e, <1>f, <2>5, <2>6
  <2>8. Known' BY <1>c, <2>3, <2>4, <2>5, <2>7 DEF Distinct, Known
  <2>9. ASSUME ~hist'.half PROVE (MemoryApart /\ LogApart /\ RankZero)'
    <3>1. ~hist.half /\ new \cap Row = {} BY <2>4, <2>9
    <3>2. MemoryApart /\ LogApart /\ RankZero BY <3>1 DEF Distinct
    <3>3. Once(buf')
      <4>1. Range(writer.job) \cap Range(buf) \cap Row = {} BY <3>2 DEF MemoryApart
      <4>2. QED BY <1>b, <2>5, <3>2, <4>1, OnceConcat DEF MemoryApart
    <3>4. MemoryApart' BY <1>a, <1>f, <2>5, <2>6, <3>2, <3>3 DEF MemoryApart
    <3>5. InLog(file') \cap Row \subseteq InLog(file) BY <2>3, <3>1
    <3>6. OnceInLog(file')
      <4>1. InLog(file) \cap Range(writer.job) = {} BY <1>c, <3>2 DEF LogApart
      <4>2. QED BY <2>3, <3>2, <4>1 DEF MemoryApart, LogApart
    <3>7. Unlogged \subseteq Row
      <4>1. Range(buf) \subseteq Row /\ Range(batch) \subseteq Row /\ InQueue(queue) \subseteq Row
        BY <1>b, RangeOfSeq, QueueFact
      <4>2. QED BY <4>1, <1>c, <1>d
    <3>8. LogApart' BY <2>5, <2>7, <3>2, <3>5, <3>6, <3>7 DEF LogApart
    <3>9. QED BY <2>5, <3>2, <3>4, <3>8 DEF RankZero
  <2>10. QED BY <2>8, <2>9 DEF Distinct
<1>4. CASE Store
  <2>1. db' \in {db, write(db, pending)} /\ writer' \in {Idle, [writer EXCEPT !.pc = "commit"]}
    BY <1>4 DEF Store
  <2>2. writer.pc = "store" /\ UNCHANGED <<phase, buf, batch, queue, file, pending, hist>>
    BY <1>4 DEF Store
  <2>3. writer.job = << >> BY <1>0, <2>2 DEF Shape
  <2>4. writer'.job = << >> BY <1>b, <1>f, <2>1, <2>3 DEF Writer
  <2>5. Unlogged' = Unlogged BY <1>d, <1>e, <2>2, <2>3, <2>4
  <2>6. Known' BY <2>2, <2>5 DEF Distinct, Known
  <2>7. ASSUME ~hist.half PROVE (MemoryApart /\ LogApart /\ RankZero)'
    <3>1. MemoryApart /\ LogApart /\ RankZero BY <2>7 DEF Distinct
    <3>2. MemoryApart' BY <2>2, <2>3, <2>4, <3>1 DEF MemoryApart
    <3>3. LogApart' BY <2>2, <2>5, <3>1 DEF LogApart
    <3>4. RankZero'
      <4>1. \A e \in write(db, pending) : e \in db \/ (e[1] \in Row => e[2] = 0)
        BY <1>b, <3>1, WriteFact DEF LogApart
      <4>2. QED BY <2>1, <3>1, <4>1 DEF RankZero
    <3>5. QED BY <3>2, <3>3, <3>4
  <2>8. QED BY <2>2, <2>6, <2>7 DEF Distinct
<1>5. CASE Commit
  <2>1. /\ writer.pc = "commit" /\ file' = EmptyLog /\ pending' = << >> /\ writer' = Idle
        /\ UNCHANGED <<phase, buf, batch, queue, db, hist>>
    BY <1>5 DEF Commit
  <2>2. writer.job = << >> BY <1>0, <2>1 DEF Shape
  <2>3. Unlogged' = Unlogged BY <1>d, <1>e, <1>f, <2>1, <2>2
  <2>4. file'.lines = << >> /\ file'.tail = << >> BY <2>1 DEF EmptyLog
  <2>5. InLog(file') = {} /\ OnceInLog(file') BY <1>a, <2>4 DEF InLog, OnceInLog
  <2>6. Known' BY <1>a, <2>1, <2>3, <2>5 DEF Distinct, Known
  <2>7. ASSUME ~hist.half PROVE (MemoryApart /\ LogApart /\ RankZero)'
    <3>1. MemoryApart /\ LogApart /\ RankZero BY <2>7 DEF Distinct
    <3>2. MemoryApart' BY <1>f, <2>1, <2>2, <3>1 DEF MemoryApart
    <3>3. LogApart' BY <1>a, <2>1, <2>5 DEF LogApart
    <3>4. QED BY <2>1, <3>1, <3>2, <3>3 DEF RankZero
  <2>8. QED BY <2>1, <2>6, <2>7 DEF Distinct
<1>6. CASE CommitFails
  <2>1. /\ writer.pc = "commit" /\ writer' = Idle
        /\ UNCHANGED <<phase, buf, batch, queue, file, pending, db>>
    BY <1>6 DEF CommitFails
  <2>2. hist'.half = hist.half /\ hist'.received = hist.received
    BY <1>b, <1>6 DEF CommitFails, History
  <2>3. writer.job = << >> BY <1>0, <2>1 DEF Shape
  <2>4. Unlogged' = Unlogged BY <1>d, <1>e, <1>f, <2>1, <2>3
  <2>5. writer'.job = writer.job BY <1>f, <2>1, <2>3
  <2>6. QED BY <2>1, <2>2, <2>4, <2>5 DEF Distinct, Known, MemoryApart, LogApart, RankZero
<1>7. CASE Crash
  <2>1. PICK k \in 0 .. Len(writer.job) : \E remnant \in Remnants(writer.job, k) :
          \E m \in Merged(file) : file' = Written(file, SubSeq(writer.job, 1, k), remnant, m)
    BY <1>7 DEF Crash
  <2>2. PICK remnant \in Remnants(writer.job, k), m \in Merged(file) :
          file' = Written(file, SubSeq(writer.job, 1, k), remnant, m)
    BY <2>1
  <2>3. /\ InLog(file') \cap Row \subseteq InLog(file) \cup Range(writer.job)
        /\ Once(writer.job) /\ OnceInLog(file) /\ InLog(file) \cap Range(writer.job) = {}
             => OnceInLog(file')
    BY <2>2, AppendFact
  <2>4. hist'.half = hist.half /\ hist'.received = hist.received BY <1>b, <1>7 DEF Crash, History
  <2>5. /\ writer' = Idle /\ buf' = << >> /\ batch' = << >> /\ queue' = << >>
        /\ pending' = << >> /\ db' = db
    BY <1>7 DEF Crash
  <2>6. Unlogged' = {} BY <1>a, <1>e, <1>f, <2>5
  <2>7. Known' BY <1>a, <1>c, <2>3, <2>4, <2>5, <2>6 DEF Distinct, Known
  <2>8. ASSUME ~hist.half PROVE (MemoryApart /\ LogApart /\ RankZero)'
    <3>1. MemoryApart /\ LogApart /\ RankZero BY <2>8 DEF Distinct
    <3>2. OnceInQueue(<< >>) BY DEF OnceInQueue
    <3>3. MemoryApart' BY <1>a, <1>f, <2>5, <3>2 DEF MemoryApart
    <3>4. OnceInLog(file')
      <4>1. InLog(file) \cap Range(writer.job) = {} BY <1>c, <3>1 DEF LogApart
      <4>2. QED BY <2>3, <3>1, <4>1 DEF MemoryApart, LogApart
    <3>5. LogApart' BY <1>a, <2>5, <2>6, <3>4 DEF LogApart
    <3>6. QED BY <2>5, <3>1, <3>3, <3>5 DEF RankZero
  <2>9. QED BY <2>4, <2>7, <2>8 DEF Distinct
<1>8. QED BY <1>1, <1>2, <1>3, <1>4, <1>5, <1>6, <1>7

LEMMA DistinctInit == Init => Distinct
<1> SUFFICES ASSUME Init PROVE Distinct OBVIOUS
<1>1. Range(<< >>) = {} /\ InQueue(<< >>) = {} /\ Once(<< >>) BY EmptyFact, EmptyQueue
<1>2. /\ buf = << >> /\ batch = << >> /\ queue = << >> /\ writer.job = << >>
      /\ pending = << >> /\ db = {} /\ file.lines = << >> /\ file.tail = << >>
  BY WriterFact DEF Init, EmptyLog
<1>3. Unlogged = {} /\ InLog(file) = {} BY <1>1, <1>2, UnloggedIs DEF InLog
<1>4. OnceInQueue(<< >>) BY DEF OnceInQueue
<1>5. MemoryApart BY <1>1, <1>2, <1>4 DEF MemoryApart
<1>6. LogApart BY <1>1, <1>2, <1>3 DEF LogApart, OnceInLog
<1>7. Known BY <1>1, <1>2, <1>3 DEF Known
<1>8. QED BY <1>2, <1>5, <1>6, <1>7 DEF Distinct, RankZero

\* Whatever is retried, replayed or acknowledged too late, no row is stored twice as
\* long as no append failed half-way, on every stream.
THEOREM NoRowTwice == Spec => []NoDuplicates
<1> DEFINE I == Typed /\ Distinct
<1>1. Init => I BY TypedInit, DistinctInit
<1>2. I /\ [Next]_vars => I'
  <2>1. ASSUME I, [Next]_vars PROVE I'
    <3>1. Typed' BY <2>1, TypedStep
    <3>2. CASE UNCHANGED vars
      <4>1. Unlogged' = Unlogged BY <3>2 DEF vars, Unlogged
      <4>2. Distinct'
        BY <2>1, <3>2, <4>1 DEF vars, Distinct, Known, MemoryApart, LogApart, RankZero
      <4>3. QED BY <3>1, <4>2
    <3>3. CASE Next BY <2>1, <3>1, <3>3, DistinctIo, DistinctWriter DEF Next
    <3>4. QED BY <2>1, <3>2, <3>3
  <2>2. QED BY <2>1
<1>3. I => NoDuplicates
  <2>1. SUFFICES ASSUME I, ~hist.half, NEW e \in db, NEW f \in db, e[1] = f[1], e[1] \in Row
                 PROVE  e = f
    BY DEF NoDuplicates
  <2>2. RankZero /\ db \subseteq (Row \cup {Garbled}) \X Nat BY <2>1 DEF Distinct, Typed, TypeOK
  <2>3. e[2] = 0 /\ f[2] = 0 BY <2>1, <2>2 DEF RankZero
  <2>4. QED BY <2>1, <2>2, <2>3
<1>4. QED BY <1>1, <1>2, <1>3, PTL DEF Spec
=============================================================================
