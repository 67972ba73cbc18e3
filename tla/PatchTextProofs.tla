--------------------------- MODULE PatchTextProofs ---------------------------
(***************************************************************************)
(* Theorems about PatchText: for any text of a patch, any files, and any    *)
(* limits.                                                                  *)
(***************************************************************************)
EXTENDS PatchText, SequenceTheorems, FiniteSetTheorems, WellFoundedInduction, TLAPS

(***************************************************************************)
(* How many elements of a sequence are in a set.                            *)
(***************************************************************************)
Where(C, s) == { i \in DOMAIN s : s[i] \in C }
HowMany(C, s) == Cardinality(Where(C, s))

LEMMA Indices ==
    ASSUME NEW S, NEW s \in Seq(S), NEW C
    PROVE  /\ DOMAIN s = 1..Len(s) /\ Len(s) \in Nat
           /\ IsFiniteSet(Where(C, s))
           /\ HowMany(C, s) \in Nat /\ HowMany(C, s) <= Len(s)
<1>1. DOMAIN s = 1..Len(s) /\ Len(s) \in Nat
  BY LenProperties
<1>2. IsFiniteSet(1..Len(s)) /\ Cardinality(1..Len(s)) = Len(s)
  BY SMTT(60), <1>1, FS_Interval
<1>3. Where(C, s) \in SUBSET (1..Len(s))
  BY <1>1 DEF Where
<1>4. QED
  BY <1>1, <1>2, <1>3, FS_Subset, FS_CardinalityType DEF HowMany

LEMMA HowManyOfNone ==
    ASSUME NEW C
    PROVE  HowMany(C, << >>) = 0
<1>1. Where(C, << >>) = {}
  BY DEF Where
<1>2. QED
  BY <1>1, FS_EmptySet DEF HowMany

LEMMA HowManyAppended ==
    ASSUME NEW S, NEW s \in Seq(S), NEW e \in S, NEW C
    PROVE  HowMany(C, Append(s, e)) = HowMany(C, s) + (IF e \in C THEN 1 ELSE 0)
<1> DEFINE n == Len(s) + 1
<1>1. /\ DOMAIN s = 1..Len(s) /\ Len(s) \in Nat /\ IsFiniteSet(Where(C, s))
      /\ HowMany(C, s) \in Nat
  BY Indices
<1>2. /\ DOMAIN Append(s, e) = 1..n /\ Append(s, e)[n] = e
      /\ \A i \in 1..Len(s) : Append(s, e)[i] = s[i]
  BY <1>1, AppendProperties, LenProperties
<1>3. n \notin Where(C, s)
  BY <1>1 DEF Where
<1>4. CASE e \in C
  <2>1. Where(C, Append(s, e)) = Where(C, s) \cup { n }
    BY <1>1, <1>2, <1>4 DEF Where
  <2>2. QED
    BY <1>1, <1>3, <1>4, <2>1, FS_AddElement DEF HowMany
<1>5. CASE e \notin C
  <2>1. Where(C, Append(s, e)) = Where(C, s)
    BY <1>1, <1>2, <1>5 DEF Where
  <2>2. QED
    BY <1>1, <1>5, <2>1 DEF HowMany
<1>6. QED
  BY <1>4, <1>5

LEMMA HowManyJoined ==
    ASSUME NEW S, NEW s \in Seq(S), NEW t \in Seq(S), NEW C
    PROVE  HowMany(C, s \o t) = HowMany(C, s) + HowMany(C, t)
<1> DEFINE I(u) == Where(C, u)
           f == [ i \in I(t) |-> i + Len(s) ]
           J == { i + Len(s) : i \in I(t) }
<1>1. /\ DOMAIN s = 1..Len(s) /\ Len(s) \in Nat /\ DOMAIN t = 1..Len(t) /\ Len(t) \in Nat
      /\ IsFiniteSet(I(s)) /\ IsFiniteSet(I(t)) /\ HowMany(C, s) \in Nat /\ HowMany(C, t) \in Nat
  BY Indices
<1>2. /\ s \o t \in Seq(S) /\ Len(s \o t) = Len(s) + Len(t)
      /\ \A i \in 1..(Len(s) + Len(t)) : (s \o t)[i] = IF i <= Len(s) THEN s[i] ELSE t[i - Len(s)]
  BY ConcatProperties
<1>3. DOMAIN (s \o t) = 1..(Len(s) + Len(t))
  BY <1>2, LenProperties
<1>4. f \in Bijection(I(t), J)
  BY <1>1 DEF Where, Bijection, Injection, Surjection, IsInjective
<1>5. IsFiniteSet(J) /\ Cardinality(J) = HowMany(C, t)
  <2>1. ExistsBijection(I(t), J)
    BY <1>4 DEF ExistsBijection
  <2> HIDE DEF J
  <2>2. QED
    BY <1>1, <2>1, FS_Bijection DEF HowMany
<1>6. I(s \o t) = I(s) \cup J
  <2>1. \A i \in I(s \o t) : i \in I(s) \cup J
    <3> SUFFICES ASSUME NEW i \in I(s \o t) PROVE i \in I(s) \cup J
      OBVIOUS
    <3>1. CASE i <= Len(s)
      BY <1>1, <1>2, <1>3, <3>1 DEF Where
    <3>2. CASE i > Len(s)
      <4>1. i - Len(s) \in I(t) /\ i = (i - Len(s)) + Len(s)
        BY <1>1, <1>2, <1>3, <3>2 DEF Where
      <4>2. QED
        BY <4>1
    <3>3. QED
      BY <1>1, <1>3, <3>1, <3>2 DEF Where
  <2>2. \A i \in I(s) : i \in I(s \o t)
    BY <1>1, <1>2, <1>3 DEF Where
  <2>3. \A i \in J : i \in I(s \o t)
    BY <1>1, <1>2, <1>3 DEF Where
  <2>4. QED
    BY <2>1, <2>2, <2>3
<1>7. I(s) \cap J = {}
  BY <1>1 DEF Where
<1>8. Cardinality(I(s) \cup J) = Cardinality(I(s)) + Cardinality(J) - Cardinality(I(s) \cap J)
  <2> HIDE DEF I, J
  <2> QED
    BY <1>1, <1>5, FS_Union
<1>9. HowMany(C, s \o t) = Cardinality(I(s) \cup J)
  BY <1>6 DEF HowMany
<1>10. Cardinality(I(s) \cap J) = 0
  BY <1>7, FS_EmptySet
<1> HIDE DEF J
<1>11. QED
  BY <1>1, <1>5, <1>8, <1>9, <1>10 DEF HowMany

LEMMA HowManyOfBoth ==
    ASSUME NEW S, NEW s \in Seq(S), NEW C, NEW D, C \cap D = {}
    PROVE  HowMany(C \cup D, s) = HowMany(C, s) + HowMany(D, s)
<1>1. /\ IsFiniteSet(Where(C, s)) /\ IsFiniteSet(Where(D, s))
      /\ HowMany(C, s) \in Nat /\ HowMany(D, s) \in Nat
  BY Indices
<1>2. Where(C \cup D, s) = Where(C, s) \cup Where(D, s) /\ Where(C, s) \cap Where(D, s) = {}
  BY DEF Where
<1>3. Cardinality(Where(C, s) \cup Where(D, s)) =
          Cardinality(Where(C, s)) + Cardinality(Where(D, s)) - Cardinality(Where(C, s) \cap Where(D, s))
  BY <1>1, FS_Union
<1>4. Cardinality(Where(C, s) \cap Where(D, s)) = 0
  BY <1>2, FS_EmptySet
<1>5. HowMany(C \cup D, s) = Cardinality(Where(C, s) \cup Where(D, s))
  BY <1>2 DEF HowMany
<1>6. QED
  BY <1>1, <1>3, <1>4, <1>5 DEF HowMany

\* Only the elements that the sequence has matter.
LEMMA HowManySame ==
    ASSUME NEW s, NEW C, NEW D, \A i \in DOMAIN s : s[i] \in C <=> s[i] \in D
    PROVE  HowMany(C, s) = HowMany(D, s)
<1>1. Where(C, s) = Where(D, s)
  BY DEF Where
<1>2. QED
  BY <1>1 DEF HowMany

LEMMA HowManyOfAll ==
    ASSUME NEW S, NEW s \in Seq(S)
    PROVE  HowMany(S, s) = Len(s)
<1>1. DOMAIN s = 1..Len(s) /\ Len(s) \in Nat
  BY Indices
<1>2. Where(S, s) = 1..Len(s)
  BY <1>1, ElementOfSeq DEF Where
<1>3. QED
  BY SMTT(60), <1>1, <1>2, FS_Interval DEF HowMany

LEMMA HowManyOfMissing ==
    ASSUME NEW s, NEW C, \A i \in DOMAIN s : s[i] \notin C
    PROVE  HowMany(C, s) = 0
<1>1. Where(C, s) = {}
  BY DEF Where
<1>2. QED
  BY <1>1, FS_EmptySet DEF HowMany

(***************************************************************************)
(* Folds over a sequence: what FoldLeft iterates exists, so the function    *)
(* that it chooses has the values that the iteration gives it.              *)
(***************************************************************************)
LEMMA LeastNumber ==
    ASSUME NEW T \in SUBSET Nat, T # {}
    PROVE  \E x \in T : \A y \in T : x <= y
<1> DEFINE less == { p \in Nat \X Nat : p[1] < p[2] }
<1>1. IsWellFoundedOn(less, Nat)
  BY NatLessThanWellFounded DEF OpToRel
<1>2. PICK x \in T : \A y \in T : << y, x >> \notin less
  <2> HIDE DEF less
  <2> QED
    BY <1>1, WFMin
<1>3. ASSUME NEW y \in T
      PROVE  x <= y
  <2>1. ~(<< y, x >> \in Nat \X Nat /\ << y, x >>[1] < << y, x >>[2])
    BY <1>2
  <2>2. QED
    BY <2>1
<1>4. QED
  BY <1>3

\* What holds before the first turn, and after a turn when it held before, holds after each.
LEMMA Reached ==
    ASSUME NEW n \in Nat, NEW T, 0 \in T, \A i \in 1..n : i - 1 \in T => i \in T
    PROVE  \A i \in 0..n : i \in T
<1> DEFINE bad == { i \in 0..n : i \notin T }
<1>1. SUFFICES ASSUME bad # {}
               PROVE  FALSE
  OBVIOUS
<1>2. PICK i \in bad : \A j \in bad : i <= j
  <2>1. bad \in SUBSET Nat
    OBVIOUS
  <2> HIDE DEF bad
  <2>2. QED
    BY <1>1, <2>1, LeastNumber
<1>3. i \in 1..n /\ i - 1 \in 0..n
  BY <1>2
<1>4. i - 1 \notin bad
  BY <1>2, <1>3
<1>5. QED
  BY <1>2, <1>3, <1>4

LEMMA MaxOf ==
    ASSUME NEW m \in Nat, NEW s \in SUBSET (1..m), m \in s
    PROVE  Max(s) = m
<1>1. m \in s /\ \A y \in s : m >= y
  OBVIOUS
<1>2. Max(s) \in s /\ \A y \in s : Max(s) >= y
  BY <1>1 DEF Max
<1>3. PICK x : x = Max(s)
  OBVIOUS
<1>4. x \in s /\ m >= x /\ x >= m
  BY <1>1, <1>2, <1>3, Zenon
<1>5. x = m
  BY <1>4
<1>6. QED
  BY <1>3, <1>5

Folding(n, V, base, step, f) ==
    /\ f \in [ SUBSET (1..n) -> V ]
    /\ \A s \in SUBSET (1..n) : f[s] = IF s = {} THEN base ELSE step[<< Max(s), f[s \ { Max(s) }] >>]

LEMMA FoldExists ==
    ASSUME NEW n \in Nat, NEW V, NEW base \in V, NEW step \in [ (1..n) \X V -> V ]
    PROVE  \E f : Folding(n, V, base, step, f)
<1> DEFINE Folds(m, it) ==
               \A s \in SUBSET (1..m) : it[s] = IF s = {} THEN base ELSE step[<< Max(s), it[s \ { Max(s) }] >>]
           T == { m \in 0..n : \E it \in [ SUBSET (1..m) -> V ] : Folds(m, it) }
<1>1. 0 \in T
  <2> DEFINE it == [ s \in SUBSET (1..0) |-> base ]
  <2>1. it \in [ SUBSET (1..0) -> V ] /\ Folds(0, it)
    OBVIOUS
  <2>2. \E f \in [ SUBSET (1..0) -> V ] : Folds(0, f)
    <3> HIDE DEF it, Folds
    <3> QED
      BY <2>1
  <2>3. 0 \in 0..n
    OBVIOUS
  <2> HIDE DEF Folds
  <2>4. QED
    BY <2>2, <2>3
<1>2. ASSUME NEW m \in 1..n, m - 1 \in T
      PROVE  m \in T
  <2>1. PICK it \in [ SUBSET (1..(m - 1)) -> V ] : Folds(m - 1, it)
    BY <1>2
  <2> DEFINE more == [ s \in SUBSET (1..m) |-> IF m \in s THEN step[<< m, it[s \ { m }] >>] ELSE it[s] ]
  <2>2. \A s \in SUBSET (1..m) : s \ { m } \in SUBSET (1..(m - 1)) /\ (m \notin s => s \in SUBSET (1..(m - 1)))
    OBVIOUS
  <2>3. more \in [ SUBSET (1..m) -> V ]
    <3>1. ASSUME NEW s \in SUBSET (1..m)
          PROVE  (IF m \in s THEN step[<< m, it[s \ { m }] >>] ELSE it[s]) \in V
      <4>1. CASE m \in s
        <5>1. it[s \ { m }] \in V
          BY <2>1, <2>2
        <5>2. QED
          BY <4>1, <5>1
      <4>2. CASE m \notin s
        BY <2>1, <2>2, <4>2
      <4>3. QED
        BY <4>1, <4>2
    <3>2. QED
      BY <3>1
  <2>4. ASSUME NEW s \in SUBSET (1..m), s # {}
        PROVE  more[s] = step[<< Max(s), more[s \ { Max(s) }] >>]
    <3>1. CASE m \in s
      <4>1. Max(s) = m
        BY <3>1, MaxOf
      <4>2. s \ { m } \in SUBSET (1..m) /\ m \notin s \ { m }
        OBVIOUS
      <4>3. more[s] = step[<< m, it[s \ { m }] >>] /\ more[s \ { m }] = it[s \ { m }]
        BY <3>1, <4>2
      <4>4. QED
        BY <4>1, <4>3
    <3>2. CASE m \notin s
      <4>1. s \in SUBSET (1..(m - 1))
        BY <2>2, <3>2
      <4>2. s \ { Max(s) } \in SUBSET (1..m) /\ m \notin s \ { Max(s) }
        BY <3>2
      <4>3. more[s] = it[s] /\ more[s \ { Max(s) }] = it[s \ { Max(s) }]
        BY <3>2, <4>2
      <4>4. QED
        BY <2>1, <2>4, <4>1, <4>3
    <3>3. QED
      BY <3>1, <3>2
  <2>5. more[{}] = base
    BY <2>1
  <2>6. Folds(m, more)
    <3> HIDE DEF more
    <3> QED
      BY <2>4, <2>5
  <2>7. \E f \in [ SUBSET (1..m) -> V ] : Folds(m, f)
    <3> HIDE DEF more, Folds
    <3> QED
      BY <2>3, <2>6
  <2>8. m \in 0..n
    OBVIOUS
  <2> HIDE DEF Folds
  <2>9. QED
    BY <2>7, <2>8
<1>3. n \in T
  <2> HIDE DEF T
  <2>1. \A i \in 0..n : i \in T
    BY <1>1, <1>2, Reached
  <2>2. QED
    BY <2>1
<1>4. QED
  BY <1>3 DEF Folding

LEMMA MaxIn ==
    ASSUME NEW n \in Nat, NEW s \in SUBSET (1..n), s # {}
    PROVE  Max(s) \in s
<1> DEFINE T == { m \in Nat : \A y \in s : m >= y }
<1>1. n \in T
  OBVIOUS
<1>2. PICK m \in T : \A k \in T : m <= k
  <2>1. T # {} /\ T \in SUBSET Nat
    BY <1>1
  <2> HIDE DEF T
  <2>2. QED
    BY <2>1, LeastNumber
<1>3. m \in s
  <2>1. SUFFICES ASSUME m \notin s
                 PROVE  FALSE
    OBVIOUS
  <2>2. PICK y \in s : TRUE
    OBVIOUS
  <2>3. m \in Nat /\ \A z \in s : m - 1 >= z
    BY <1>2, <2>1
  <2>4. m - 1 \in T
    BY <2>2, <2>3
  <2>5. QED
    BY <1>2, <2>3, <2>4
<1>4. m \in s /\ \A y \in s : m >= y
  BY <1>2, <1>3
<1>5. QED
  BY <1>4 DEF Max

\* The first i turns look at the first i elements, the last of them at the i-th.
LEMMA Prefix ==
    ASSUME NEW n \in Nat
    PROVE  /\ 1..0 = {}
           /\ \A i \in 0..n : 1..i \in SUBSET (1..n)
           /\ \A i \in 1..n : 1..i # {} /\ Max(1..i) = i /\ (1..i) \ { i } = 1..(i - 1)
<1>1. ASSUME NEW i \in 1..n
      PROVE  1..i # {} /\ Max(1..i) = i /\ (1..i) \ { i } = 1..(i - 1)
  <2>1. i \in 1..i /\ i \in Nat /\ 1..i \in SUBSET (1..i)
    OBVIOUS
  <2>2. Max(1..i) = i
    BY <2>1, MaxOf
  <2>3. (1..i) \ { i } = 1..(i - 1)
    OBVIOUS
  <2>4. QED
    BY <2>1, <2>2, <2>3
<1>2. 1..0 = {} /\ \A i \in 0..n : 1..i \in SUBSET (1..n)
  OBVIOUS
<1>3. QED
  BY <1>1, <1>2

(***************************************************************************)
(* The lines of a patch.                                                    *)
(***************************************************************************)
PatchLine == [ kind : { "context", "removed", "added" }, content : Line, old : Nat, new : Nat ]

\* The lines of these kinds with these contents.
Of(kinds, C) == { l \in PatchLine : l.kind \in kinds /\ l.content \in C }

LEMMA SideIs ==
    ASSUME NEW hunk, hunk.lines \in Seq(PatchLine), NEW kinds, NEW C
    PROVE  /\ Side(hunk, kinds) \in Seq(Line)
           /\ HowMany(C, Side(hunk, kinds)) = HowMany(Of(kinds, C), hunk.lines)
<1> DEFINE lines == hunk.lines
           n == Len(lines)
           Turn(i, side) == IF lines[i].kind \in kinds THEN Append(side, lines[i].content) ELSE side
           step == [ x \in (1..n) \X Seq(Line) |-> Turn(x[1], x[2]) ]
           Folds(f) == f = [ s \in SUBSET (1..n) |->
                               IF s = {} THEN << >> ELSE Turn(Max(s), f[s \ { Max(s) }]) ]
           iter == CHOOSE f : Folds(f)
<1>1. n \in Nat /\ DOMAIN lines = 1..n /\ \A i \in 1..n : lines[i] \in PatchLine
  BY LenProperties, ElementOfSeq
<1>2. \A i \in 1..n : \A side \in Seq(Line) : Turn(i, side) \in Seq(Line)
  BY <1>1, AppendProperties DEF PatchLine
<1> HIDE DEF n
<1>3. \E f : Folds(f)
  <2>1. step \in [ (1..n) \X Seq(Line) -> Seq(Line) ]
    <3>1. \A x \in (1..n) \X Seq(Line) : Turn(x[1], x[2]) \in Seq(Line)
      BY <1>2
    <3> HIDE DEF Turn
    <3>2. QED
      BY <3>1
  <2>2. << >> \in Seq(Line)
    BY EmptySeq
  <2>3. PICK f : Folding(n, Seq(Line), << >>, step, f)
    <3> HIDE DEF step
    <3> QED
      BY <1>1, <2>1, <2>2, FoldExists
  <2>4. ASSUME NEW s \in SUBSET (1..n), s # {}
        PROVE  f[s] = Turn(Max(s), f[s \ { Max(s) }])
    <3>1. Max(s) \in 1..n
      BY <1>1, <2>4, MaxIn
    <3>2. f[s \ { Max(s) }] \in Seq(Line)
      BY <2>3 DEF Folding
    <3>3. << Max(s), f[s \ { Max(s) }] >> \in (1..n) \X Seq(Line)
      BY <3>1, <3>2
    <3> HIDE DEF Turn
    <3>4. QED
      BY <2>3, <2>4, <3>3 DEF Folding
  <2>5. \A s \in SUBSET (1..n) : f[s] = IF s = {} THEN << >> ELSE Turn(Max(s), f[s \ { Max(s) }])
    BY <2>3, <2>4 DEF Folding
  <2>6. Folds(f)
    <3> HIDE DEF Turn
    <3> QED
      BY <2>3, <2>5 DEF Folding
  <2>7. QED
    BY <2>6
<1>4. Folds(iter)
  <2> HIDE DEF Folds
  <2> QED
    BY <1>3
<1>5. Side(hunk, kinds) = iter[1..n]
  BY <1>1, Zenon DEF Side, FoldLeft, MapThenFoldSet
<1> HIDE DEF iter
<1>6. iter[1..0] = << >>
  BY <1>1, <1>4, Prefix
<1>7. \A i \in 1..n : iter[1..i] = Turn(i, iter[1..(i - 1)])
  <2> HIDE DEF Turn
  <2>1. ASSUME NEW i \in 1..n
        PROVE  iter[1..i] = Turn(i, iter[1..(i - 1)])
    <3>1. 1..i \in SUBSET (1..n) /\ 1..i # {} /\ Max(1..i) = i /\ (1..i) \ { i } = 1..(i - 1)
      BY <1>1, Prefix
    <3>2. iter[1..i] = IF 1..i = {} THEN << >> ELSE Turn(Max(1..i), iter[(1..i) \ { Max(1..i) }])
      BY <1>4, <3>1
    <3>3. QED
      BY <3>1, <3>2
  <2>2. QED
    BY <2>1
<1> DEFINE Counted(i) == /\ iter[1..i] \in Seq(Line)
                         /\ HowMany(C, iter[1..i]) = HowMany(Of(kinds, C), SubSeq(lines, 1, i))
           T == { i \in 0..n : Counted(i) }
<1>8. Counted(0)
  <2>1. << >> \in Seq(Line) /\ SubSeq(lines, 1, 0) = << >>
    BY EmptySeq, SubSeqEmpty
  <2>2. QED
    BY <1>6, <2>1, HowManyOfNone
<1>9. ASSUME NEW i \in 1..n, Counted(i - 1)
      PROVE  Counted(i)
  <2> DEFINE before == iter[1..(i - 1)]
             seen == SubSeq(lines, 1, i - 1)
  <2>1. seen \in Seq(PatchLine) /\ SubSeq(lines, 1, i) = Append(seen, lines[i])
    <3>1. \A j \in 1..(i - 1) : lines[j] \in PatchLine
      BY <1>1
    <3>2. seen \in Seq(PatchLine)
      BY <1>1, <3>1, SubSeqProperties
    <3>3. SubSeq(lines, 1, i) = SubSeq(lines, 1, i - 1) \o << lines[i] >>
      BY <1>1, SubSeqRecursiveSecond DEF n
    <3>4. QED
      BY <1>1, <3>2, <3>3, AppendIsConcat
  <2>2. /\ before \in Seq(Line) /\ HowMany(C, before) = HowMany(Of(kinds, C), seen)
        /\ HowMany(C, before) \in Nat
    BY <1>9, Indices
  <2>3. HowMany(Of(kinds, C), SubSeq(lines, 1, i)) =
            HowMany(C, before) + (IF lines[i] \in Of(kinds, C) THEN 1 ELSE 0)
    <3>1. HowMany(Of(kinds, C), Append(seen, lines[i])) =
              HowMany(Of(kinds, C), seen) + (IF lines[i] \in Of(kinds, C) THEN 1 ELSE 0)
      <4>1. seen \in Seq(PatchLine) /\ lines[i] \in PatchLine
        BY <1>1, <2>1
      <4> HIDE DEF seen, lines
      <4>2. QED
        BY <4>1, HowManyAppended
    <3>2. QED
      BY <2>1, <2>2, <3>1
  <2>4. lines[i] \in PatchLine /\ iter[1..i] = Turn(i, before)
    BY <1>1, <1>7
  <2>5. lines[i].content \in Line
    BY <2>4 DEF PatchLine
  <2> HIDE DEF before
  <2>6. CASE lines[i].kind \in kinds
    <3>1. HowMany(C, Append(before, lines[i].content)) =
              HowMany(C, before) + (IF lines[i].content \in C THEN 1 ELSE 0)
      BY <2>2, <2>5, HowManyAppended
    <3>2. lines[i] \in Of(kinds, C) <=> lines[i].content \in C
      BY <2>4, <2>6 DEF Of
    <3>3. iter[1..i] = Append(before, lines[i].content) /\ iter[1..i] \in Seq(Line)
      BY <2>2, <2>4, <2>5, <2>6, AppendProperties
    <3>4. HowMany(C, iter[1..i]) = HowMany(Of(kinds, C), SubSeq(lines, 1, i))
      BY <2>3, <3>1, <3>2, <3>3
    <3>5. QED
      BY <3>3, <3>4
  <2>7. CASE lines[i].kind \notin kinds
    <3>1. lines[i] \notin Of(kinds, C)
      BY <2>7 DEF Of
    <3>2. iter[1..i] = before
      BY <2>4, <2>7
    <3>3. HowMany(C, iter[1..i]) = HowMany(Of(kinds, C), SubSeq(lines, 1, i))
      BY <2>2, <2>3, <3>1, <3>2
    <3>4. QED
      BY <2>2, <3>2, <3>3
  <2>8. QED
    BY <2>6, <2>7
<1>10. n \in T
  <2> HIDE DEF Counted
  <2>1. 0 \in T /\ \A i \in 1..n : i - 1 \in T => i \in T
    BY <1>1, <1>8, <1>9
  <2>2. \A i \in 0..n : i \in T
    <3> HIDE DEF T
    <3> QED
      BY <1>1, <2>1, Reached
  <2>3. QED
    BY <1>1, <2>2
<1>11. SubSeq(lines, 1, n) = lines
  BY SubSeqFull DEF n
<1>12. QED
  BY <1>5, <1>10, <1>11

Hunk == { h \in [ old_start : Nat, old_count : Nat, new_start : Nat, new_count : Nat, lines : Seq(PatchLine) ] :
            (h.old_count > 0 => h.old_start > 0) /\ (h.new_count > 0 => h.new_start > 0) }
PatchFile == [ path : Path, old : BOOLEAN, new : BOOLEAN, hunks : Seq(Hunk), old_end : Nat, new_end : Nat ]

LEMMA LinesUpTo ==
    ASSUME NEW file \in PatchFile
    PROVE  \E at : /\ at[0] = << >>
                   /\ \A i \in 1..Len(file.hunks) : at[i] = at[i - 1] \o file.hunks[i].lines
                   /\ \A i \in 0..Len(file.hunks) : at[i] \in Seq(PatchLine)
                   /\ LinesOf(file) = at[Len(file.hunks)]
<1> DEFINE n == Len(file.hunks)
           Turn(i, lines) == lines \o file.hunks[i].lines
           step == [ x \in (1..n) \X Seq(PatchLine) |-> Turn(x[1], x[2]) ]
           Folds(f) == f = [ s \in SUBSET (1..n) |->
                               IF s = {} THEN << >> ELSE Turn(Max(s), f[s \ { Max(s) }]) ]
           iter == CHOOSE f : Folds(f)
           at == [ i \in 0..n |-> iter[1..i] ]
<1>1. n \in Nat /\ DOMAIN file.hunks = 1..n /\ \A i \in 1..n : file.hunks[i] \in Hunk
  BY LenProperties, ElementOfSeq DEF PatchFile
<1>2. \A i \in 1..n : \A lines \in Seq(PatchLine) : Turn(i, lines) \in Seq(PatchLine)
  BY <1>1, ConcatProperties DEF Hunk
<1>3. << >> \in Seq(PatchLine)
  BY EmptySeq
<1> HIDE DEF n
<1>4. \E f : Folds(f)
  <2>1. step \in [ (1..n) \X Seq(PatchLine) -> Seq(PatchLine) ]
    <3>1. \A x \in (1..n) \X Seq(PatchLine) : Turn(x[1], x[2]) \in Seq(PatchLine)
      BY <1>2
    <3> HIDE DEF Turn
    <3>2. QED
      BY <3>1
  <2>2. PICK f : Folding(n, Seq(PatchLine), << >>, step, f)
    <3> HIDE DEF step
    <3> QED
      BY <1>1, <1>3, <2>1, FoldExists
  <2>3. ASSUME NEW s \in SUBSET (1..n), s # {}
        PROVE  f[s] = Turn(Max(s), f[s \ { Max(s) }])
    <3>1. Max(s) \in 1..n
      BY <1>1, <2>3, MaxIn
    <3>2. f[s \ { Max(s) }] \in Seq(PatchLine)
      BY <2>2 DEF Folding
    <3>3. << Max(s), f[s \ { Max(s) }] >> \in (1..n) \X Seq(PatchLine)
      BY <3>1, <3>2
    <3> HIDE DEF Turn
    <3>4. QED
      BY <2>2, <2>3, <3>3 DEF Folding
  <2>4. \A s \in SUBSET (1..n) : f[s] = IF s = {} THEN << >> ELSE Turn(Max(s), f[s \ { Max(s) }])
    BY <2>2, <2>3 DEF Folding
  <2>5. Folds(f)
    <3> HIDE DEF Turn
    <3> QED
      BY <2>2, <2>4 DEF Folding
  <2>6. QED
    BY <2>5
<1>5. Folds(iter)
  <2> HIDE DEF Folds
  <2> QED
    BY <1>4
<1>6. LinesOf(file) = iter[1..n]
  BY <1>1, Zenon DEF LinesOf, FoldLeft, MapThenFoldSet
<1> HIDE DEF iter
<1>7. iter[1..0] = << >>
  BY <1>1, <1>5, Prefix
<1>8. ASSUME NEW i \in 1..n
      PROVE  iter[1..i] = Turn(i, iter[1..(i - 1)])
  <2> HIDE DEF Turn
  <2>1. 1..i \in SUBSET (1..n) /\ 1..i # {} /\ Max(1..i) = i /\ (1..i) \ { i } = 1..(i - 1)
    BY <1>1, Prefix
  <2>2. iter[1..i] = IF 1..i = {} THEN << >> ELSE Turn(Max(1..i), iter[(1..i) \ { Max(1..i) }])
    BY <1>5, <2>1
  <2>3. QED
    BY <2>1, <2>2
<1>9. /\ at[0] = << >> /\ at[n] = iter[1..n]
      /\ \A i \in 1..n : at[i] = Turn(i, at[i - 1])
  <2> HIDE DEF Turn
  <2> QED
    BY <1>1, <1>7, <1>8
<1> DEFINE Typed == { i \in 0..n : at[i] \in Seq(PatchLine) }
<1> HIDE DEF at
<1>10. \A i \in 0..n : i \in Typed
  <2> HIDE DEF Turn
  <2>1. 0 \in Typed
    <3>1. 0 \in 0..n
      BY <1>1
    <3>2. QED
      BY <1>3, <1>9, <3>1, Zenon
  <2>2. ASSUME NEW i \in 1..n, i - 1 \in Typed
        PROVE  i \in Typed
    <3>1. Turn(i, at[i - 1]) \in Seq(PatchLine) /\ i \in 0..n
      BY <1>1, <1>2, <2>2
    <3>2. QED
      BY <1>9, <3>1
  <2> HIDE DEF Typed
  <2>3. QED
    BY <1>1, <2>1, <2>2, Reached
<1>11. \A i \in 0..n : at[i] \in Seq(PatchLine)
  BY <1>10
<1>12. QED
  BY <1>6, <1>9, <1>11 DEF n

\* What a line changes.
ChangeLine == { l \in PatchLine : l.kind # "context" }

LEMMA ChangesAreMany ==
    ASSUME NEW lines \in Seq(PatchLine)
    PROVE  ChangesOf(lines) = HowMany(ChangeLine, lines) /\ ChangesOf(lines) \in Nat
<1>1. \A i \in DOMAIN lines : lines[i] \in PatchLine
  BY LenProperties, ElementOfSeq
<1>2. Where(ChangeLine, lines) = { i \in DOMAIN lines : lines[i].kind # "context" }
  BY <1>1 DEF Where, ChangeLine
<1>3. QED
  BY <1>2, Indices DEF ChangesOf, HowMany

LEMMA LinesAreLines ==
    ASSUME NEW file \in PatchFile
    PROVE  LinesOf(file) \in Seq(PatchLine)
<1>1. file.hunks \in Seq(Hunk)
  BY DEF PatchFile
<1>2. Len(file.hunks) \in 0..Len(file.hunks)
  BY <1>1, LenProperties
<1>3. QED
  BY <1>2, LinesUpTo

LEMMA ChangedUpTo ==
    ASSUME diff \in Seq(PatchFile)
    PROVE  \E at : /\ at[0] = 0
                   /\ \A i \in 1..Len(diff) : at[i] = at[i - 1] + ChangesOf(LinesOf(diff[i]))
                   /\ \A i \in 0..Len(diff) : at[i] \in Nat
                   /\ ChangedLines = at[Len(diff)]
<1> DEFINE n == Len(diff)
           Turn(i, sum) == sum + ChangesOf(LinesOf(diff[i]))
           step == [ x \in (1..n) \X Nat |-> Turn(x[1], x[2]) ]
           Folds(f) == f = [ s \in SUBSET (1..n) |->
                               IF s = {} THEN 0 ELSE Turn(Max(s), f[s \ { Max(s) }]) ]
           iter == CHOOSE f : Folds(f)
           at == [ i \in 0..n |-> iter[1..i] ]
<1>1. n \in Nat /\ DOMAIN diff = 1..n /\ \A i \in 1..n : diff[i] \in PatchFile
  BY LenProperties, ElementOfSeq
<1>2. \A i \in 1..n : \A sum \in Nat : Turn(i, sum) \in Nat
  BY <1>1, ChangesAreMany, LinesAreLines
<1>3. 0 \in Nat
  OBVIOUS
<1> HIDE DEF n
<1>4. \E f : Folds(f)
  <2>1. step \in [ (1..n) \X Nat -> Nat ]
    <3>1. \A x \in (1..n) \X Nat : Turn(x[1], x[2]) \in Nat
      BY <1>2
    <3> HIDE DEF Turn
    <3>2. QED
      BY <3>1
  <2>2. PICK f : Folding(n, Nat, 0, step, f)
    <3> HIDE DEF step
    <3> QED
      BY <1>1, <1>3, <2>1, FoldExists
  <2>3. ASSUME NEW s \in SUBSET (1..n), s # {}
        PROVE  f[s] = Turn(Max(s), f[s \ { Max(s) }])
    <3>1. Max(s) \in 1..n
      BY <1>1, <2>3, MaxIn
    <3>2. f[s \ { Max(s) }] \in Nat
      BY <2>2 DEF Folding
    <3>3. << Max(s), f[s \ { Max(s) }] >> \in (1..n) \X Nat
      BY <3>1, <3>2
    <3> HIDE DEF Turn
    <3>4. QED
      BY <2>2, <2>3, <3>3 DEF Folding
  <2>4. \A s \in SUBSET (1..n) : f[s] = IF s = {} THEN 0 ELSE Turn(Max(s), f[s \ { Max(s) }])
    BY <2>2, <2>3 DEF Folding
  <2>5. Folds(f)
    <3> HIDE DEF Turn
    <3> QED
      BY <2>2, <2>4 DEF Folding
  <2>6. QED
    BY <2>5
<1>5. Folds(iter)
  <2> HIDE DEF Folds
  <2> QED
    BY <1>4
<1>6. ChangedLines = iter[1..n]
  BY <1>1, Zenon DEF ChangedLines, FoldLeft, MapThenFoldSet
<1> HIDE DEF iter
<1>7. iter[1..0] = 0
  BY <1>1, <1>5, Prefix
<1>8. ASSUME NEW i \in 1..n
      PROVE  iter[1..i] = Turn(i, iter[1..(i - 1)])
  <2> HIDE DEF Turn
  <2>1. 1..i \in SUBSET (1..n) /\ 1..i # {} /\ Max(1..i) = i /\ (1..i) \ { i } = 1..(i - 1)
    BY <1>1, Prefix
  <2>2. iter[1..i] = IF 1..i = {} THEN 0 ELSE Turn(Max(1..i), iter[(1..i) \ { Max(1..i) }])
    BY <1>5, <2>1
  <2>3. QED
    BY <2>1, <2>2
<1>9. /\ at[0] = 0 /\ at[n] = iter[1..n]
      /\ \A i \in 1..n : at[i] = Turn(i, at[i - 1])
  <2> HIDE DEF Turn
  <2> QED
    BY <1>1, <1>7, <1>8
<1> DEFINE Typed == { i \in 0..n : at[i] \in Nat }
<1> HIDE DEF at
<1>10. \A i \in 0..n : i \in Typed
  <2> HIDE DEF Turn
  <2>1. 0 \in Typed
    <3>1. 0 \in 0..n
      BY <1>1
    <3>2. QED
      BY <1>3, <1>9, <3>1, Zenon
  <2>2. ASSUME NEW i \in 1..n, i - 1 \in Typed
        PROVE  i \in Typed
    <3>1. Turn(i, at[i - 1]) \in Nat /\ i \in 0..n
      BY <1>1, <1>2, <2>2
    <3>2. QED
      BY <1>9, <3>1
  <2> HIDE DEF Typed
  <2>3. QED
    BY <1>1, <2>1, <2>2, Reached
<1>11. \A i \in 0..n : at[i] \in Nat
  BY <1>10
<1>12. QED
  BY <1>6, <1>9, <1>11 DEF n

\* No file has more changes than all together.
LEMMA ChangedLinesBound ==
    ASSUME diff \in Seq(PatchFile)
    PROVE  \A i \in DOMAIN diff : ChangesOf(LinesOf(diff[i])) <= ChangedLines
<1> DEFINE n == Len(diff)
           ch(i) == ChangesOf(LinesOf(diff[i]))
<1>1. n \in Nat /\ DOMAIN diff = 1..n /\ \A i \in 1..n : ch(i) \in Nat
  BY LenProperties, ElementOfSeq, ChangesAreMany, LinesAreLines
<1>2. PICK at : /\ at[0] = 0
                /\ \A i \in 1..n : at[i] = at[i - 1] + ch(i)
                /\ \A i \in 0..n : at[i] \in Nat
                /\ ChangedLines = at[n]
  BY ChangedUpTo
<1> HIDE DEF n, ch
<1> DEFINE T == { i \in 0..n : \A j \in 1..i : ch(j) <= at[i] }
<1>3. 0 \in T
  BY <1>1
<1>4. ASSUME NEW i \in 1..n, i - 1 \in T
      PROVE  i \in T
  <2>1. at[i - 1] \in Nat /\ ch(i) \in Nat /\ at[i] = at[i - 1] + ch(i)
    BY <1>1, <1>2
  <2>2. ASSUME NEW j \in 1..i
        PROVE  ch(j) <= at[i]
    <3>1. CASE j = i
      BY <2>1, <3>1
    <3>2. CASE j # i
      <4>1. j \in 1..(i - 1) /\ j \in 1..n
        BY <1>1, <3>2
      <4>2. ch(j) <= at[i - 1] /\ ch(j) \in Nat
        BY <1>1, <1>4, <4>1
      <4>3. QED
        BY <2>1, <4>2
    <3>3. QED
      BY <3>1, <3>2
  <2>3. QED
    BY <1>1, <2>2
<1>5. \A i \in 0..n : i \in T
  <2> HIDE DEF T
  <2> QED
    BY <1>1, <1>3, <1>4, Reached
<1>6. n \in T
  BY <1>1, <1>5
<1>7. QED
  BY <1>1, <1>2, <1>6 DEF ch

(***************************************************************************)
(* What a hunk does: where no assertion is removed, the new side has every  *)
(* assertion of the old one; and the sides differ in length by no more than *)
(* the changes.                                                             *)
(***************************************************************************)
LEMMA HowManyMore ==
    ASSUME NEW S, NEW s \in Seq(S), NEW D, NEW C \in SUBSET D
    PROVE  HowMany(C, s) <= HowMany(D, s)
<1>1. C \cup (D \ C) = D /\ C \cap (D \ C) = {}
  OBVIOUS
<1>2. HowMany(C \cup (D \ C), s) = HowMany(C, s) + HowMany(D \ C, s)
  BY <1>1, HowManyOfBoth
<1>3. HowMany(C, s) \in Nat /\ HowMany(D \ C, s) \in Nat
  BY Indices
<1>4. HowMany(C \cup (D \ C), s) = HowMany(D, s)
  BY <1>1
<1>5. QED
  BY <1>2, <1>3, <1>4

\* What no patch may remove.
Refused == Of({ "removed" }, Assertions)

\* The kinds that a side consists of.
LEMMA SideParts ==
    ASSUME NEW hunk, hunk.lines \in Seq(PatchLine), NEW C
    PROVE  /\ HowMany(C, Side(hunk, OldKind)) =
                  HowMany(Of({ "context" }, C), hunk.lines) + HowMany(Of({ "removed" }, C), hunk.lines)
           /\ HowMany(C, Side(hunk, NewKind)) =
                  HowMany(Of({ "context" }, C), hunk.lines) + HowMany(Of({ "added" }, C), hunk.lines)
<1>1. /\ Of(OldKind, C) = Of({ "context" }, C) \cup Of({ "removed" }, C)
      /\ Of(NewKind, C) = Of({ "context" }, C) \cup Of({ "added" }, C)
      /\ Of({ "context" }, C) \cap Of({ "removed" }, C) = {}
      /\ Of({ "context" }, C) \cap Of({ "added" }, C) = {}
  BY DEF Of, OldKind, NewKind
<1>2. /\ HowMany(Of(OldKind, C), hunk.lines) =
             HowMany(Of({ "context" }, C), hunk.lines) + HowMany(Of({ "removed" }, C), hunk.lines)
      /\ HowMany(Of(NewKind, C), hunk.lines) =
             HowMany(Of({ "context" }, C), hunk.lines) + HowMany(Of({ "added" }, C), hunk.lines)
  BY <1>1, HowManyOfBoth
<1>3. QED
  BY <1>2, SideIs

LEMMA HunkSides ==
    ASSUME NEW hunk \in Hunk
    PROVE  LET old == Side(hunk, OldKind)
               new == Side(hunk, NewKind)
               changes == HowMany(ChangeLine, hunk.lines)
           IN  /\ old \in Seq(Line) /\ new \in Seq(Line)
               /\ Len(new) <= Len(old) + changes /\ Len(old) <= Len(new) + changes
               /\ HowMany(Refused, hunk.lines) = 0 =>
                     \A a \in Assertions : HowMany({ a }, old) <= HowMany({ a }, new)
<1> DEFINE old == Side(hunk, OldKind)
           new == Side(hunk, NewKind)
           lines == hunk.lines
           K(kind, C) == HowMany(Of({ kind }, C), lines)
<1>1. lines \in Seq(PatchLine) /\ old \in Seq(Line) /\ new \in Seq(Line)
  BY SideIs DEF Hunk
<1>2. \A kind, C : K(kind, C) \in Nat
  BY <1>1, Indices
<1>3. \A C : /\ HowMany(C, old) = K("context", C) + K("removed", C)
             /\ HowMany(C, new) = K("context", C) + K("added", C)
  BY <1>1, SideParts
<1>4. HowMany(ChangeLine, lines) = K("removed", Line) + K("added", Line)
  <2>1. /\ ChangeLine = Of({ "removed" }, Line) \cup Of({ "added" }, Line)
        /\ Of({ "removed" }, Line) \cap Of({ "added" }, Line) = {}
    BY DEF ChangeLine, Of, PatchLine
  <2>2. HowMany(Of({ "removed" }, Line) \cup Of({ "added" }, Line), lines) = K("removed", Line) + K("added", Line)
    BY <1>1, <2>1, HowManyOfBoth
  <2>3. QED
    BY <2>1, <2>2
<1>5. Len(old) = HowMany(Line, old) /\ Len(new) = HowMany(Line, new)
  BY <1>1, HowManyOfAll
<1>6. ASSUME HowMany(Refused, lines) = 0, NEW a \in Assertions
      PROVE  HowMany({ a }, old) <= HowMany({ a }, new)
  <2>1. Of({ "removed" }, { a }) \in SUBSET Refused
    BY DEF Of, Refused
  <2>2. K("removed", { a }) <= HowMany(Refused, lines)
    BY <1>1, <2>1, HowManyMore
  <2>3. K("removed", { a }) \in Nat /\ K("context", { a }) \in Nat /\ K("added", { a }) \in Nat
    BY <1>2
  <2>4. HowMany({ a }, old) = K("context", { a }) + K("removed", { a })
        /\ HowMany({ a }, new) = K("context", { a }) + K("added", { a })
    BY <1>3
  <2> HIDE DEF K, old, new, lines
  <2>5. QED
    BY <1>6, <2>2, <2>3, <2>4
<1>7. Len(new) <= Len(old) + HowMany(ChangeLine, lines) /\ Len(old) <= Len(new) + HowMany(ChangeLine, lines)
  <2>1. K("removed", Line) \in Nat /\ K("context", Line) \in Nat /\ K("added", Line) \in Nat
    BY <1>2
  <2>2. HowMany(Line, old) = K("context", Line) + K("removed", Line)
        /\ HowMany(Line, new) = K("context", Line) + K("added", Line)
    BY <1>3
  <2> HIDE DEF K, old, new, lines
  <2>3. QED
    BY <1>4, <1>5, <2>1, <2>2
<1>8. QED
  BY <1>1, <1>6, <1>7

(***************************************************************************)
(* The loop over the hunks.                                                 *)
(***************************************************************************)
HunkState == [ fits : BOOLEAN, output : Seq(Line), cursor : Nat ]
Unread == [ fits |-> TRUE, output |-> << >>, cursor |-> 0 ]

LEMMA IndexIsNat ==
    ASSUME NEW hunk \in Hunk
    PROVE  Index(hunk.old_start, hunk.old_count) \in Nat /\ Index(hunk.new_start, hunk.new_count) \in Nat
BY DEF Hunk, Index

LEMMA Between ==
    ASSUME NEW source \in Seq(Line), NEW m \in Nat, NEW k \in Nat, m <= k, k <= Len(source)
    PROVE  /\ SubSeq(source, m + 1, k) \in Seq(Line) /\ Len(SubSeq(source, m + 1, k)) = k - m
           /\ SubSeq(source, 1, m) \in Seq(Line)
           /\ SubSeq(source, 1, k) = SubSeq(source, 1, m) \o SubSeq(source, m + 1, k)
<1>1. Len(source) \in Nat /\ \A i \in 1..Len(source) : source[i] \in Line
  BY LenProperties, ElementOfSeq
<1>2. \A i \in (m + 1)..k : source[i] \in Line
  BY <1>1
<1>3. \A i \in 1..m : source[i] \in Line
  BY <1>1
<1>4. SubSeq(source, m + 1, k) \in Seq(Line)
      /\ Len(SubSeq(source, m + 1, k)) = IF m + 1 <= k THEN k - (m + 1) + 1 ELSE 0
  BY <1>2, SubSeqProperties
<1>5. SubSeq(source, 1, m) \in Seq(Line)
  BY <1>3, SubSeqProperties
<1>6. SubSeq(source, 1, m) \o SubSeq(source, m + 1, k) = SubSeq(source, 1, k)
  BY <1>1, ConcatAdjacentSubSeq
<1>7. QED
  BY <1>4, <1>5, <1>6

\* What a turn of the loop does when the hunk fits.
LEMMA HunkFits ==
    ASSUME NEW source \in Seq(Line), NEW hunk \in Hunk, NEW acc \in HunkState,
           ApplyHunk(source, hunk, acc).fits
    PROVE  LET from == Index(hunk.old_start, hunk.old_count)
               old == Side(hunk, OldKind)
               end == ApplyHunk(source, hunk, acc)
           IN  /\ acc.fits /\ from \in Nat /\ acc.cursor <= from /\ from + Len(old) <= Len(source)
               /\ SubSeq(source, from + 1, from + Len(old)) = old
               /\ Len(acc.output) + (from - acc.cursor) = Index(hunk.new_start, hunk.new_count)
               /\ end = [ fits |-> TRUE, cursor |-> from + Len(old),
                          output |-> acc.output \o SubSeq(source, acc.cursor + 1, from) \o Side(hunk, NewKind) ]
BY IndexIsNat DEF ApplyHunk, HunkState

LEMMA HunkKeepsProgress ==
    ASSUME NEW source \in Seq(Line), NEW hunk \in Hunk, NEW acc \in HunkState
    PROVE  ApplyHunk(source, hunk, acc) \in HunkState
<1> DEFINE from == Index(hunk.old_start, hunk.old_count)
           old == Side(hunk, OldKind)
           end == ApplyHunk(source, hunk, acc)
<1>1. CASE end.fits
  <2>1. /\ from \in Nat /\ acc.cursor <= from /\ from + Len(old) <= Len(source)
        /\ end = [ fits |-> TRUE, cursor |-> from + Len(old),
                   output |-> acc.output \o SubSeq(source, acc.cursor + 1, from) \o Side(hunk, NewKind) ]
    BY <1>1, HunkFits
  <2>2. /\ acc.output \in Seq(Line) /\ acc.cursor \in Nat /\ Side(hunk, NewKind) \in Seq(Line)
        /\ Len(old) \in Nat /\ Len(source) \in Nat
    BY HunkSides, LenProperties DEF HunkState
  <2> HIDE DEF from, old, end
  <2>3. SubSeq(source, acc.cursor + 1, from) \in Seq(Line)
    BY <2>1, <2>2, Between
  <2>4. acc.output \o SubSeq(source, acc.cursor + 1, from) \o Side(hunk, NewKind) \in Seq(Line)
    BY <2>2, <2>3, ConcatProperties
  <2>5. end \in HunkState
    BY <2>1, <2>2, <2>4 DEF HunkState
  <2>6. QED
    BY <2>5 DEF end
<1>2. CASE ~end.fits
  <2>1. end = [acc EXCEPT !.fits = FALSE]
    BY <1>2 DEF ApplyHunk
  <2>2. QED
    BY <2>1 DEF HunkState
<1>3. QED
  BY <1>1, <1>2

LEMMA HunksUpTo ==
    ASSUME NEW file \in PatchFile, NEW source \in Seq(Line)
    PROVE  \E at : /\ at[0] = Unread
                   /\ \A i \in 1..Len(file.hunks) : at[i] = ApplyHunk(source, file.hunks[i], at[i - 1])
                   /\ \A i \in 0..Len(file.hunks) : at[i] \in HunkState
                   /\ Hunks(file, source) =
                        LET end == at[Len(file.hunks)]
                        IN  [ fits |-> end.fits,
                              output |-> end.output \o SubSeq(source, end.cursor + 1, Len(source)) ]
<1> DEFINE n == Len(file.hunks)
           Turn(i, acc) == ApplyHunk(source, file.hunks[i], acc)
           step == [ x \in (1..n) \X HunkState |-> Turn(x[1], x[2]) ]
           Folds(f) == f = [ s \in SUBSET (1..n) |->
                               IF s = {} THEN Unread ELSE Turn(Max(s), f[s \ { Max(s) }]) ]
           iter == CHOOSE f : Folds(f)
           at == [ i \in 0..n |-> iter[1..i] ]
<1>1. n \in Nat /\ DOMAIN file.hunks = 1..n /\ \A i \in 1..n : file.hunks[i] \in Hunk
  BY LenProperties, ElementOfSeq DEF PatchFile
<1>2. \A i \in 1..n : \A acc \in HunkState : Turn(i, acc) \in HunkState
  BY <1>1, HunkKeepsProgress
<1>3. Unread \in HunkState
  BY EmptySeq DEF Unread, HunkState
<1> HIDE DEF n
<1>4. \E f : Folds(f)
  <2>1. step \in [ (1..n) \X HunkState -> HunkState ]
    <3>1. \A x \in (1..n) \X HunkState : Turn(x[1], x[2]) \in HunkState
      BY <1>2
    <3> HIDE DEF Turn
    <3>2. QED
      BY <3>1
  <2>2. PICK f : Folding(n, HunkState, Unread, step, f)
    <3> HIDE DEF step
    <3> QED
      BY <1>1, <1>3, <2>1, FoldExists
  <2>3. ASSUME NEW s \in SUBSET (1..n), s # {}
        PROVE  f[s] = Turn(Max(s), f[s \ { Max(s) }])
    <3>1. Max(s) \in 1..n
      BY <1>1, <2>3, MaxIn
    <3>2. f[s \ { Max(s) }] \in HunkState
      BY <2>2 DEF Folding
    <3>3. << Max(s), f[s \ { Max(s) }] >> \in (1..n) \X HunkState
      BY <3>1, <3>2
    <3> HIDE DEF Turn
    <3>4. QED
      BY <2>2, <2>3, <3>3 DEF Folding
  <2>4. \A s \in SUBSET (1..n) : f[s] = IF s = {} THEN Unread ELSE Turn(Max(s), f[s \ { Max(s) }])
    BY <2>2, <2>3 DEF Folding
  <2>5. Folds(f)
    <3> HIDE DEF Turn
    <3> QED
      BY <2>2, <2>4 DEF Folding
  <2>6. QED
    BY <2>5
<1>5. Folds(iter)
  <2> HIDE DEF Folds
  <2> QED
    BY <1>4
<1>6. Hunks(file, source) =
          LET end == iter[1..n]
          IN  [ fits |-> end.fits, output |-> end.output \o SubSeq(source, end.cursor + 1, Len(source)) ]
  BY <1>1, Zenon DEF Hunks, Unread, FoldLeft, MapThenFoldSet
<1> HIDE DEF iter
<1>7. iter[1..0] = Unread
  BY <1>1, <1>5, Prefix
<1>8. ASSUME NEW i \in 1..n
      PROVE  iter[1..i] = Turn(i, iter[1..(i - 1)])
  <2> HIDE DEF Turn
  <2>1. 1..i \in SUBSET (1..n) /\ 1..i # {} /\ Max(1..i) = i /\ (1..i) \ { i } = 1..(i - 1)
    BY <1>1, Prefix
  <2>2. iter[1..i] = IF 1..i = {} THEN Unread ELSE Turn(Max(1..i), iter[(1..i) \ { Max(1..i) }])
    BY <1>5, <2>1
  <2>3. QED
    BY <2>1, <2>2
<1>9. /\ at[0] = Unread /\ at[n] = iter[1..n]
      /\ \A i \in 1..n : at[i] = Turn(i, at[i - 1])
  <2> HIDE DEF Turn
  <2> QED
    BY <1>1, <1>7, <1>8
<1> DEFINE Typed == { i \in 0..n : at[i] \in HunkState }
<1> HIDE DEF at
<1>10. \A i \in 0..n : i \in Typed
  <2> HIDE DEF Turn
  <2>1. 0 \in Typed
    <3>1. 0 \in 0..n
      BY <1>1
    <3>2. QED
      BY <1>3, <1>9, <3>1, Zenon
  <2>2. ASSUME NEW i \in 1..n, i - 1 \in Typed
        PROVE  i \in Typed
    <3>1. Turn(i, at[i - 1]) \in HunkState /\ i \in 0..n
      BY <1>1, <1>2, <2>2
    <3>2. QED
      BY <1>9, <3>1
  <2> HIDE DEF Typed
  <2>3. QED
    BY <1>1, <2>1, <2>2, Reached
<1>11. \A i \in 0..n : at[i] \in HunkState
  BY <1>10
<1>12. QED
  BY <1>6, <1>9, <1>11 DEF n

\* After these lines of the patch, the hunks fit so far, and what they have read and
\* what they have written differ by the changes, with every assertion kept.
Fair(acc, lines, source) ==
    acc.fits =>
        /\ acc.cursor <= Len(source)
        /\ Len(acc.output) <= acc.cursor + HowMany(ChangeLine, lines)
        /\ acc.cursor <= Len(acc.output) + HowMany(ChangeLine, lines)
        /\ HowMany(Refused, lines) = 0 =>
              \A a \in Assertions : HowMany({ a }, SubSeq(source, 1, acc.cursor)) <= HowMany({ a }, acc.output)

LEMMA HunkFair ==
    ASSUME NEW source \in Seq(Line), NEW hunk \in Hunk, NEW acc \in HunkState,
           NEW lines \in Seq(PatchLine), Fair(acc, lines, source)
    PROVE  Fair(ApplyHunk(source, hunk, acc), lines \o hunk.lines, source)
<1> DEFINE from == Index(hunk.old_start, hunk.old_count)
           old == Side(hunk, OldKind)
           new == Side(hunk, NewKind)
           end == ApplyHunk(source, hunk, acc)
           gap == SubSeq(source, acc.cursor + 1, from)
           read == SubSeq(source, 1, acc.cursor)
           more == hunk.lines
<1>1. SUFFICES ASSUME end.fits
               PROVE  Fair(end, lines \o more, source)
  BY DEF Fair
<1>2. /\ acc.fits /\ from \in Nat /\ acc.cursor <= from /\ from + Len(old) <= Len(source)
      /\ SubSeq(source, from + 1, from + Len(old)) = old
      /\ end = [ fits |-> TRUE, cursor |-> from + Len(old), output |-> acc.output \o gap \o new ]
  BY <1>1, HunkFits
<1>3. /\ acc.output \in Seq(Line) /\ acc.cursor \in Nat /\ more \in Seq(PatchLine)
      /\ old \in Seq(Line) /\ new \in Seq(Line)
  BY HunkSides DEF HunkState, Hunk
<1>4. Len(source) \in Nat /\ Len(old) \in Nat /\ Len(new) \in Nat /\ Len(acc.output) \in Nat
  BY <1>3, LenProperties
<1>5. /\ Len(new) <= Len(old) + HowMany(ChangeLine, more) /\ Len(old) <= Len(new) + HowMany(ChangeLine, more)
      /\ HowMany(Refused, more) = 0 => \A a \in Assertions : HowMany({ a }, old) <= HowMany({ a }, new)
  BY HunkSides
<1> HIDE DEF from, old, new, end, more
<1>6. /\ gap \in Seq(Line) /\ Len(gap) = from - acc.cursor /\ read \in Seq(Line)
      /\ SubSeq(source, 1, from) = read \o gap
  <2>1. acc.cursor \in Nat /\ from \in Nat /\ acc.cursor <= from /\ from <= Len(source)
    BY <1>2, <1>3, <1>4
  <2>2. QED
    BY <2>1, Between
<1>7. SubSeq(source, 1, from + Len(old)) = SubSeq(source, 1, from) \o old /\ SubSeq(source, 1, from) \in Seq(Line)
  <2>1. from <= from + Len(old) /\ from + Len(old) \in Nat
    BY <1>2, <1>4
  <2>2. QED
    BY ZenonT(60), <1>2, <2>1, Between
<1>8. \A C : /\ HowMany(C, lines \o more) = HowMany(C, lines) + HowMany(C, more)
             /\ HowMany(C, lines) \in Nat /\ HowMany(C, more) \in Nat
  BY <1>3, HowManyJoined, Indices
<1>9. /\ acc.output \o gap \in Seq(Line) /\ Len(acc.output \o gap) = Len(acc.output) + Len(gap)
      /\ Len((acc.output \o gap) \o new) = Len(acc.output \o gap) + Len(new)
  BY <1>3, <1>6, ConcatProperties
<1> HIDE DEF gap, read
<1>10. ASSUME HowMany(Refused, lines \o more) = 0, NEW a \in Assertions
       PROVE  HowMany({ a }, SubSeq(source, 1, end.cursor)) <= HowMany({ a }, end.output)
  <2>1. HowMany(Refused, lines) = 0 /\ HowMany(Refused, more) = 0
    BY <1>8, <1>10
  <2>2. HowMany({ a }, read) <= HowMany({ a }, acc.output) /\ HowMany({ a }, old) <= HowMany({ a }, new)
    BY <1>2, <1>5, <2>1 DEF Fair, read
  <2>3. HowMany({ a }, SubSeq(source, 1, from + Len(old))) =
            HowMany({ a }, read) + HowMany({ a }, gap) + HowMany({ a }, old)
    <3>1. HowMany({ a }, SubSeq(source, 1, from) \o old) = HowMany({ a }, SubSeq(source, 1, from)) + HowMany({ a }, old)
      BY <1>3, <1>7, HowManyJoined
    <3>2. HowMany({ a }, read \o gap) = HowMany({ a }, read) + HowMany({ a }, gap)
      BY <1>6, HowManyJoined
    <3>3. QED
      BY <1>6, <1>7, <3>1, <3>2
  <2>4. HowMany({ a }, (acc.output \o gap) \o new) =
            HowMany({ a }, acc.output) + HowMany({ a }, gap) + HowMany({ a }, new)
    <3>1. HowMany({ a }, (acc.output \o gap) \o new) = HowMany({ a }, acc.output \o gap) + HowMany({ a }, new)
      BY <1>3, <1>9, HowManyJoined
    <3>2. HowMany({ a }, acc.output \o gap) = HowMany({ a }, acc.output) + HowMany({ a }, gap)
      BY <1>3, <1>6, HowManyJoined
    <3>3. QED
      BY <3>1, <3>2
  <2>5. \A s \in Seq(Line) : HowMany({ a }, s) \in Nat
    BY Indices
  <2>6. /\ HowMany({ a }, read) \in Nat /\ HowMany({ a }, gap) \in Nat /\ HowMany({ a }, old) \in Nat
        /\ HowMany({ a }, new) \in Nat /\ HowMany({ a }, acc.output) \in Nat
    BY <1>3, <1>6, <2>5
  <2>7. end.cursor = from + Len(old) /\ end.output = (acc.output \o gap) \o new
    BY <1>2
  <2>8. HowMany({ a }, SubSeq(source, 1, from + Len(old))) <= HowMany({ a }, (acc.output \o gap) \o new)
    BY <2>2, <2>3, <2>4, <2>6
  <2>9. QED
    BY <2>7, <2>8
<1>11. /\ end.cursor <= Len(source)
       /\ Len(end.output) <= end.cursor + HowMany(ChangeLine, lines \o more)
       /\ end.cursor <= Len(end.output) + HowMany(ChangeLine, lines \o more)
  <2>1. end.cursor = from + Len(old) /\ end.output = (acc.output \o gap) \o new
    BY <1>2
  <2>2. Len(end.output) = Len(acc.output) + (from - acc.cursor) + Len(new)
    BY <1>6, <1>9, <2>1
  <2>3. /\ HowMany(ChangeLine, lines \o more) = HowMany(ChangeLine, lines) + HowMany(ChangeLine, more)
        /\ HowMany(ChangeLine, lines) \in Nat /\ HowMany(ChangeLine, more) \in Nat
    BY <1>8
  <2>4. Len(acc.output) <= acc.cursor + HowMany(ChangeLine, lines) /\ acc.cursor <= Len(acc.output) + HowMany(ChangeLine, lines)
    BY <1>2 DEF Fair
  <2>5. /\ from \in Nat /\ acc.cursor \in Nat /\ from + Len(old) <= Len(source)
        /\ Len(new) <= Len(old) + HowMany(ChangeLine, more) /\ Len(old) <= Len(new) + HowMany(ChangeLine, more)
    BY <1>2, <1>3, <1>5
  <2> HIDE DEF ChangeLine
  <2>6. end.cursor <= Len(source)
    BY <1>4, <2>1, <2>5
  <2>7. end.cursor = from + Len(old)
    BY <2>1
  <2>8. /\ Len(end.output) <= end.cursor + (HowMany(ChangeLine, lines) + HowMany(ChangeLine, more))
        /\ end.cursor <= Len(end.output) + (HowMany(ChangeLine, lines) + HowMany(ChangeLine, more))
    <3>1. \A f, c, o, w, l, x, y \in Nat :
             o <= c + x /\ c <= o + x /\ w <= l + y /\ l <= w + y =>
                 /\ o + (f - c) + w <= (f + l) + (x + y)
                 /\ f + l <= (o + (f - c) + w) + (x + y)
      OBVIOUS
    <3>2. /\ Len(acc.output) + (from - acc.cursor) + Len(new)
                 <= (from + Len(old)) + (HowMany(ChangeLine, lines) + HowMany(ChangeLine, more))
          /\ from + Len(old) <= (Len(acc.output) + (from - acc.cursor) + Len(new))
                                   + (HowMany(ChangeLine, lines) + HowMany(ChangeLine, more))
      BY <1>4, <2>3, <2>4, <2>5, <3>1, Zenon
    <3>3. QED
      BY <2>2, <2>7, <3>2, Zenon
  <2>9. QED
    BY <2>3, <2>6, <2>8
<1>12. QED
  BY <1>10, <1>11 DEF Fair

\* All the hunks of a file.
LEMMA HunksAreFair ==
    ASSUME NEW file \in PatchFile, NEW source \in Seq(Line), Hunks(file, source).fits
    PROVE  LET output == Hunks(file, source).output
               lines == LinesOf(file)
           IN  /\ output \in Seq(Line)
               /\ Len(output) <= Len(source) + HowMany(ChangeLine, lines)
               /\ Len(source) <= Len(output) + HowMany(ChangeLine, lines)
               /\ HowMany(Refused, lines) = 0 =>
                     \A a \in Assertions : HowMany({ a }, source) <= HowMany({ a }, output)
<1> DEFINE n == Len(file.hunks)
           lines == LinesOf(file)
           output == Hunks(file, source).output
<1>1. n \in Nat /\ \A i \in 1..n : file.hunks[i] \in Hunk
  BY LenProperties, ElementOfSeq DEF PatchFile
<1>2. PICK seen : /\ seen[0] = << >>
                  /\ \A i \in 1..n : seen[i] = seen[i - 1] \o file.hunks[i].lines
                  /\ \A i \in 0..n : seen[i] \in Seq(PatchLine)
                  /\ lines = seen[n]
  BY LinesUpTo
<1>3. PICK at : /\ at[0] = Unread
                /\ \A i \in 1..n : at[i] = ApplyHunk(source, file.hunks[i], at[i - 1])
                /\ \A i \in 0..n : at[i] \in HunkState
                /\ Hunks(file, source) =
                      [ fits |-> at[n].fits,
                        output |-> at[n].output \o SubSeq(source, at[n].cursor + 1, Len(source)) ]
  BY HunksUpTo
<1> DEFINE T == { i \in 0..n : Fair(at[i], seen[i], source) }
<1>4. 0 \in T
  <2>1. Fair(Unread, << >>, source)
    <3>1. SubSeq(source, 1, 0) = << >> /\ Len(source) \in Nat
      BY SubSeqEmpty, LenProperties
    <3>2. \A C : HowMany(C, << >>) = 0
      BY HowManyOfNone
    <3>3. Len(<< >>) = 0 /\ Unread.cursor = 0 /\ Unread.output = << >>
      BY DEF Unread
    <3>4. \A a \in Assertions : HowMany({ a }, SubSeq(source, 1, 0)) <= HowMany({ a }, << >>)
      <4>1. ASSUME NEW a \in Assertions
            PROVE  HowMany({ a }, SubSeq(source, 1, 0)) = 0 /\ HowMany({ a }, << >>) = 0
        BY <3>1, <3>2, Zenon
      <4>2. QED
        BY <4>1
    <3>5. QED
      BY <3>1, <3>2, <3>3, <3>4 DEF Fair
  <2>2. 0 \in 0..n
    BY <1>1
  <2>3. QED
    BY <1>2, <1>3, <2>1, <2>2
<1>5. ASSUME NEW i \in 1..n, i - 1 \in T
      PROVE  i \in T
  <2>1. Fair(at[i - 1], seen[i - 1], source) /\ i - 1 \in 0..n /\ i \in 0..n
    BY <1>1, <1>5
  <2>2. Fair(ApplyHunk(source, file.hunks[i], at[i - 1]), seen[i - 1] \o file.hunks[i].lines, source)
    <3>1. file.hunks[i] \in Hunk /\ at[i - 1] \in HunkState /\ seen[i - 1] \in Seq(PatchLine)
      BY <1>1, <1>2, <1>3, <2>1
    <3>2. QED
      BY <2>1, <3>1, HunkFair
  <2>3. Fair(at[i], seen[i], source)
    BY <1>2, <1>3, <2>2
  <2>4. QED
    BY <2>1, <2>3
<1>6. Fair(at[n], lines, source)
  <2>1. \A i \in 0..n : i \in T
    <3> HIDE DEF T, n
    <3> QED
      BY <1>1, <1>4, <1>5, Reached
  <2>2. n \in 0..n
    BY <1>1
  <2>3. QED
    BY <1>2, <2>1, <2>2
<1>7. at[n] \in HunkState /\ at[n].fits /\ lines \in Seq(PatchLine)
  BY <1>1, <1>2, <1>3
<1> DEFINE end == at[n]
           rest == SubSeq(source, end.cursor + 1, Len(source))
           read == SubSeq(source, 1, end.cursor)
<1>8. /\ end.output \in Seq(Line) /\ end.cursor \in Nat /\ end.cursor <= Len(source)
      /\ Len(source) \in Nat /\ Len(end.output) \in Nat /\ HowMany(ChangeLine, lines) \in Nat
  BY <1>6, <1>7, LenProperties, Indices DEF Fair, HunkState
<1>9. output = end.output \o rest
  <2>1. Hunks(file, source) = [ fits |-> end.fits, output |-> end.output \o rest ]
    BY <1>3
  <2> HIDE DEF end, rest
  <2>2. Hunks(file, source).output = end.output \o rest
    BY <2>1
  <2>3. QED
    BY <2>2
<1> HIDE DEF end, output, lines
<1>10. /\ rest \in Seq(Line) /\ Len(rest) = Len(source) - end.cursor /\ read \in Seq(Line)
       /\ source = read \o rest
  <2>1. SubSeq(source, 1, Len(source)) = source
    BY SubSeqFull
  <2>2. end.cursor \in Nat /\ Len(source) \in Nat /\ end.cursor <= Len(source) /\ Len(source) <= Len(source)
    BY <1>8
  <2>3. QED
    BY <2>1, <2>2, Between
<1> HIDE DEF rest
<1>11. output \in Seq(Line) /\ Len(output) = Len(end.output) + Len(rest)
  BY ZenonT(60), <1>8, <1>9, <1>10, ConcatProperties
<1>12. /\ Len(end.output) <= end.cursor + HowMany(ChangeLine, lines)
       /\ end.cursor <= Len(end.output) + HowMany(ChangeLine, lines)
       /\ HowMany(Refused, lines) = 0 => \A a \in Assertions : HowMany({ a }, read) <= HowMany({ a }, end.output)
  BY <1>6, <1>7 DEF Fair, end
<1> HIDE DEF read
<1>13. ASSUME HowMany(Refused, lines) = 0, NEW a \in Assertions
       PROVE  HowMany({ a }, source) <= HowMany({ a }, output)
  <2>1. HowMany({ a }, source) = HowMany({ a }, read) + HowMany({ a }, rest)
    <3>1. HowMany({ a }, read \o rest) = HowMany({ a }, read) + HowMany({ a }, rest)
      BY <1>10, HowManyJoined
    <3>2. QED
      BY <1>10, <3>1
  <2>2. HowMany({ a }, output) = HowMany({ a }, end.output) + HowMany({ a }, rest)
    BY <1>8, <1>9, <1>10, HowManyJoined
  <2>3. HowMany({ a }, read) \in Nat /\ HowMany({ a }, rest) \in Nat /\ HowMany({ a }, end.output) \in Nat
    BY <1>8, <1>10, Indices
  <2>4. HowMany({ a }, read) <= HowMany({ a }, end.output)
    BY <1>12, <1>13
  <2>5. QED
    BY <2>1, <2>2, <2>3, <2>4
<1>14. Len(output) <= Len(source) + HowMany(ChangeLine, lines) /\ Len(source) <= Len(output) + HowMany(ChangeLine, lines)
  BY SMTT(60), <1>8, <1>10, <1>11, <1>12
<1>15. QED
  BY <1>11, <1>13, <1>14 DEF lines, output

(***************************************************************************)
(* The files.                                                               *)
(***************************************************************************)
FileText == { f \in [ lines : Seq(Line), newline : BOOLEAN, there : BOOLEAN ] : f.there \/ f = Missing }

\* What a patch within the limits leaves of a file.
Kept(before, after) ==
    /\ \A a \in Assertions : HowMany({ a }, before.lines) <= HowMany({ a }, after.lines)
    /\ Len(after.lines) <= Len(Decoded(before).lines) + MaxChanged
    /\ Len(before.lines) <= Len(after.lines) + MaxChanged + 1

\* A file of a patch that the policy lets through.
Small(file) ==
    HowMany(ChangeLine, LinesOf(file)) <= MaxChanged /\ HowMany(Refused, LinesOf(file)) = 0

PatchTyped ==
    /\ writing \in { "text", "policy", "apply", "done" }
    /\ plan \in SUBSET Path /\ diff \in Seq(PatchFile)
    /\ open \in { NoHunk } \cup (Nat \X Nat) /\ next \in Nat \X Nat
    /\ tree \in [ Path -> FileText ] /\ patched \in [ Path -> FileText ]
    /\ verdict = "fits" => writing = "done"

\* A hunk is open in the last file of the patch.
InHunk == writing = "text" /\ open # NoHunk => diff # << >> /\ Current.hunks # << >>

\* What the comparison with the plan, and then the policy, let through.
Compared == writing = "policy" => plan = Named
AllApproved ==
    writing = "apply" =>
        /\ plan \cap Protected = {} /\ Cardinality(plan) <= MaxFiles
        /\ \A i \in DOMAIN diff : Small(diff[i])

\* Between the files as well as behind the last one.
Carried == writing = "apply" => \A p \in Path : Kept(tree[p], patched[p])

PatchInv == PatchTyped /\ InHunk /\ Compared /\ AllApproved /\ Carried /\ ChangesAreApproved

LEMMA FileFacts ==
    ASSUME NEW f \in FileText
    PROVE  /\ f.lines \in Seq(Line) /\ Len(f.lines) \in Nat /\ f.there \in BOOLEAN /\ f.newline \in BOOLEAN
           /\ ~f.there => f.lines = << >>
<1>1. f.lines \in Seq(Line) /\ f.there \in BOOLEAN /\ f.newline \in BOOLEAN /\ (f.there \/ f = Missing)
  BY DEF FileText
<1>2. Missing.lines = << >>
  BY DEF Missing
<1>3. QED
  BY <1>1, <1>2, LenProperties

LEMMA TextIsFile ==
    ASSUME NEW lines \in Seq(Line), NEW newline \in BOOLEAN
    PROVE  /\ Text(lines, newline) \in FileText
           /\ Text(lines, newline).lines = lines /\ Text(lines, newline).newline = newline
BY DEF Text, FileText

LEMMA MissingIsFile == Missing \in FileText /\ Missing.lines = << >>
<1>1. << >> \in Seq(Line)
  BY EmptySeq
<1>2. QED
  BY <1>1 DEF Missing, FileText

LEMMA DecodedText ==
    ASSUME NEW f \in FileText
    PROVE  /\ Decoded(f).lines \in Seq(Line) /\ Decoded(f).newline \in BOOLEAN
           /\ Len(f.lines) <= Len(Decoded(f).lines)
           /\ \A a \in Assertions : HowMany({ a }, f.lines) <= HowMany({ a }, Decoded(f).lines)
<1>1. f.lines \in Seq(Line) /\ Len(f.lines) \in Nat /\ f.newline \in BOOLEAN
  BY FileFacts
<1>2. \A C : HowMany(C, f.lines) \in Nat
  BY <1>1, Indices
<1>3. CASE f.lines = << >>
  <2>1. Decoded(f).lines = << Empty >> /\ Decoded(f).newline = f.newline
    BY <1>3 DEF Decoded, FileText
  <2>2. << Empty >> \in Seq(Line) /\ Len(<< Empty >>) = 1 /\ Len(<< >>) = 0
    BY PatchAssumption
  <2>3. \A C : HowMany(C, << Empty >>) \in Nat /\ HowMany(C, << >>) = 0
    BY <2>2, Indices, HowManyOfNone
  <2>4. ASSUME NEW a \in Assertions
        PROVE  HowMany({ a }, f.lines) <= HowMany({ a }, Decoded(f).lines)
    <3>1. HowMany({ a }, f.lines) = 0 /\ HowMany({ a }, Decoded(f).lines) \in Nat
      BY <1>3, <2>1, <2>3, Zenon
    <3>2. QED
      BY <3>1
  <2>5. QED
    BY <1>1, <1>3, <2>1, <2>2, <2>4
<1>4. CASE f.lines # << >>
  <2>1. Decoded(f) = f
    BY <1>4 DEF Decoded
  <2>2. QED
    BY <1>1, <1>2, <2>1
<1>5. QED
  BY <1>3, <1>4

LEMMA EncodedText ==
    ASSUME NEW lines \in Seq(Line), NEW newline \in BOOLEAN
    PROVE  LET f == Encoded(lines, newline)
           IN  /\ f \in FileText
               /\ Len(f.lines) <= Len(lines) /\ Len(lines) <= Len(f.lines) + 1
               /\ \A a \in Assertions : HowMany({ a }, lines) <= HowMany({ a }, f.lines)
<1> DEFINE f == Encoded(lines, newline)
<1>1. Len(lines) \in Nat /\ \A C : HowMany(C, lines) \in Nat
  BY LenProperties, Indices
<1>2. \A a \in Assertions : Empty \notin { a }
  BY PatchAssumption
<1>3. << >> \in Seq(Line) /\ Len(<< >>) = 0 /\ Len(<< Empty >>) = 1 /\ << Empty >>[1] = Empty
  BY EmptySeq
<1>4. CASE lines = << >> \/ (lines = << Empty >> /\ ~newline)
  <2>1. f = Text(<< >>, FALSE)
    BY <1>4 DEF Encoded
  <2>2. f \in FileText /\ f.lines = << >>
    BY <1>3, <2>1, TextIsFile
  <2>3. Len(lines) \in { 0, 1 }
    BY <1>3, <1>4
  <2>4. ASSUME NEW a \in Assertions
        PROVE  HowMany({ a }, lines) = 0 /\ HowMany({ a }, << >>) = 0
    <3>1. HowMany({ a }, << >>) = 0
      BY HowManyOfNone
    <3>2. HowMany({ a }, << Empty >>) = 0
      <4>1. \A i \in DOMAIN << Empty >> : << Empty >>[i] \notin { a }
        BY <1>2
      <4>2. QED
        BY <4>1, HowManyOfMissing
    <3>3. QED
      BY <1>4, <3>1, <3>2, Zenon
  <2>5. \A a \in Assertions : HowMany({ a }, lines) <= HowMany({ a }, f.lines)
    BY <2>2, <2>4
  <2>6. Len(f.lines) = 0
    <3> HIDE DEF f
    <3>1. Len(f.lines) = Len(<< >>)
      BY <2>2
    <3>2. QED
      BY <1>3, <3>1
  <2>7. Len(f.lines) <= Len(lines) /\ Len(lines) <= Len(f.lines) + 1
    <3> HIDE DEF f
    <3>1. QED
      BY <2>3, <2>6
  <2>8. QED
    BY <2>2, <2>5, <2>7
<1>5. CASE ~(lines = << >> \/ (lines = << Empty >> /\ ~newline)) /\ ~newline /\ Last(lines) = Empty
  <2> DEFINE front == Front(lines)
  <2>1. lines # << >> /\ f = Text(front, TRUE)
    BY <1>5 DEF Encoded
  <2>2. Len(lines) \in Nat \ { 0 } /\ lines[Len(lines)] = Empty
    BY <1>1, <1>5, <2>1 DEF Last
  <2>3. \A i \in 1..Len(lines) : lines[i] \in Line
    BY ElementOfSeq
  <2>4. front \in Seq(Line) /\ Len(front) = Len(lines) - 1
    <3>1. \A i \in 1..(Len(lines) - 1) : lines[i] \in Line
      BY <2>2, <2>3
    <3>2. Len(lines) - 1 \in Int /\ 1 \in Int
      BY <2>2
    <3>3. /\ SubSeq(lines, 1, Len(lines) - 1) \in Seq(Line)
          /\ Len(SubSeq(lines, 1, Len(lines) - 1)) = IF 1 <= Len(lines) - 1 THEN (Len(lines) - 1) - 1 + 1 ELSE 0
      BY <3>1, <3>2, SubSeqProperties
    <3>4. front = SubSeq(lines, 1, Len(lines) - 1)
      BY DEF Front
    <3>5. (IF 1 <= Len(lines) - 1 THEN (Len(lines) - 1) - 1 + 1 ELSE 0) = Len(lines) - 1
      <4>1. \A n \in Nat \ { 0 } : (IF 1 <= n - 1 THEN (n - 1) - 1 + 1 ELSE 0) = n - 1
        OBVIOUS
      <4>2. QED
        BY <2>2, <4>1, Zenon
    <3>6. QED
      BY <3>3, <3>4, <3>5, Zenon
  <2>5. f \in FileText /\ f.lines = front
    BY <2>1, <2>4, TextIsFile
  <2>6. lines = Append(front, Empty)
    <3>1. SubSeq(lines, 1, Len(lines)) = SubSeq(lines, 1, Len(lines) - 1) \o << lines[Len(lines)] >>
      BY SMTT(60), <2>2, SubSeqRecursiveSecond
    <3>2. SubSeq(lines, 1, Len(lines)) = lines
      BY SubSeqFull
    <3>3. Append(front, Empty) = front \o << Empty >>
      BY <2>4, PatchAssumption, AppendIsConcat
    <3>4. QED
      BY <2>2, <3>1, <3>2, <3>3 DEF Front
  <2> HIDE DEF front
  <2>7. ASSUME NEW a \in Assertions
        PROVE  HowMany({ a }, lines) <= HowMany({ a }, front)
    <3>1. HowMany({ a }, Append(front, Empty)) = HowMany({ a }, front) + (IF Empty \in { a } THEN 1 ELSE 0)
      BY <2>4, PatchAssumption, HowManyAppended
    <3>2. HowMany({ a }, front) \in Nat
      BY <2>4, Indices
    <3>3. HowMany({ a }, lines) = HowMany({ a }, front) + (IF Empty \in { a } THEN 1 ELSE 0)
      BY <2>6, <3>1
    <3>4. QED
      BY <1>2, <3>2, <3>3
  <2>8. QED
    BY <1>1, <2>4, <2>5, <2>7
<1>6. CASE ~(lines = << >> \/ (lines = << Empty >> /\ ~newline)) /\ ~(~newline /\ Last(lines) = Empty)
  <2>1. f = Text(lines, newline)
    BY <1>6 DEF Encoded
  <2>2. f \in FileText /\ f.lines = lines
    BY <2>1, TextIsFile
  <2>3. QED
    BY <1>1, <2>2
<1>7. QED
  BY <1>4, <1>5, <1>6

LEMMA KeptSame ==
    ASSUME NEW f \in FileText
    PROVE  Kept(f, f)
<1>1. /\ Len(f.lines) \in Nat /\ \A C : HowMany(C, f.lines) \in Nat
      /\ Len(f.lines) <= Len(Decoded(f).lines) /\ Len(Decoded(f).lines) \in Nat
  BY FileFacts, DecodedText, Indices, LenProperties
<1>2. MaxChanged \in Nat
  BY PatchAssumption
<1>3. QED
  BY <1>1, <1>2 DEF Kept

LEMMA FileIsKept ==
    ASSUME NEW file \in PatchFile, NEW before \in FileText, ApplyFile(file, before).fits, Small(file)
    PROVE  LET after == ApplyFile(file, before).file
           IN  after \in FileText /\ Kept(before, after)
<1> DEFINE source == IF file.old THEN Decoded(before) ELSE Text(<< >>, file.new_end = 0)
           hunks == Hunks(file, source.lines)
           written == Encoded(hunks.output, source.newline /\ file.new_end = 0)
           after == ApplyFile(file, before).file
           ch == HowMany(ChangeLine, LinesOf(file))
<1>1. /\ before.there = file.old /\ hunks.fits /\ (~file.new => written.lines = << >>)
      /\ after = IF file.new THEN written ELSE Missing
  BY DEF ApplyFile, Misfit
<1>2. /\ before.lines \in Seq(Line) /\ Len(before.lines) \in Nat /\ (~before.there => before.lines = << >>)
      /\ << >> \in Seq(Line) /\ Len(<< >>) = 0
  BY FileFacts, EmptySeq
<1>3. /\ Decoded(before).lines \in Seq(Line) /\ Len(before.lines) <= Len(Decoded(before).lines)
      /\ Decoded(before).newline \in BOOLEAN /\ Len(Decoded(before).lines) \in Nat
      /\ \A a \in Assertions : HowMany({ a }, before.lines) <= HowMany({ a }, Decoded(before).lines)
  BY DecodedText, LenProperties
<1>4. /\ source.lines \in Seq(Line) /\ source.newline \in BOOLEAN
      /\ Len(before.lines) <= Len(source.lines) /\ Len(source.lines) <= Len(Decoded(before).lines)
      /\ \A a \in Assertions : HowMany({ a }, before.lines) <= HowMany({ a }, source.lines)
  <2>1. CASE file.old
    BY <1>3, <2>1
  <2>2. CASE ~file.old
    <3>1. source.lines = << >> /\ source.newline \in BOOLEAN
      BY <1>2, <2>2, TextIsFile
    <3>2. before.lines = << >>
      BY <1>1, <1>2, <2>2
    <3>3. \A a \in Assertions : HowMany({ a }, << >>) = 0
      BY HowManyOfNone
    <3>4. \A a \in Assertions : HowMany({ a }, before.lines) <= HowMany({ a }, source.lines)
      BY <3>1, <3>2, <3>3
    <3>5. Len(before.lines) = 0 /\ Len(source.lines) = 0
      BY <1>2, <3>1, <3>2
    <3>6. Len(before.lines) <= Len(source.lines) /\ Len(source.lines) <= Len(Decoded(before).lines)
      BY <1>3, <3>5
    <3>7. source.lines \in Seq(Line)
      BY <1>2, <3>1
    <3>8. QED
      BY <3>1, <3>4, <3>6, <3>7
  <2>3. QED
    BY <2>1, <2>2
<1>5. (source.newline /\ file.new_end = 0) \in BOOLEAN
  OBVIOUS
<1> HIDE DEF source
<1>6. /\ hunks.output \in Seq(Line)
      /\ Len(hunks.output) <= Len(source.lines) + ch /\ Len(source.lines) <= Len(hunks.output) + ch
      /\ \A a \in Assertions : HowMany({ a }, source.lines) <= HowMany({ a }, hunks.output)
  BY <1>1, <1>4, HunksAreFair DEF Small
<1> HIDE DEF hunks
<1>7. /\ written \in FileText
      /\ Len(written.lines) <= Len(hunks.output) /\ Len(hunks.output) <= Len(written.lines) + 1
      /\ \A a \in Assertions : HowMany({ a }, hunks.output) <= HowMany({ a }, written.lines)
  BY <1>5, <1>6, EncodedText
<1> HIDE DEF written
<1>8. after \in FileText /\ after.lines = written.lines
  BY <1>1, <1>7, MissingIsFile
<1> HIDE DEF after
<1>9. ASSUME NEW a \in Assertions
      PROVE  HowMany({ a }, before.lines) <= HowMany({ a }, after.lines)
  <2>1. written.lines \in Seq(Line)
    BY <1>7, FileFacts
  <2>2. /\ HowMany({ a }, before.lines) \in Nat /\ HowMany({ a }, source.lines) \in Nat
        /\ HowMany({ a }, hunks.output) \in Nat /\ HowMany({ a }, written.lines) \in Nat
    BY <1>2, <1>4, <1>6, <2>1, Indices
  <2>3. /\ HowMany({ a }, before.lines) <= HowMany({ a }, source.lines)
        /\ HowMany({ a }, source.lines) <= HowMany({ a }, hunks.output)
        /\ HowMany({ a }, hunks.output) <= HowMany({ a }, written.lines)
    BY <1>4, <1>6, <1>7
  <2>4. HowMany({ a }, before.lines) <= HowMany({ a }, written.lines)
    BY <2>2, <2>3
  <2>5. QED
    BY <1>8, <2>4
<1>10. /\ Len(after.lines) <= Len(Decoded(before).lines) + MaxChanged
       /\ Len(before.lines) <= Len(after.lines) + MaxChanged + 1
  <2>1. Len(written.lines) \in Nat /\ Len(source.lines) \in Nat /\ Len(hunks.output) \in Nat
    BY <1>4, <1>6, <1>7, FileFacts, LenProperties
  <2>2. ch \in Nat /\ MaxChanged \in Nat /\ ch <= MaxChanged
    BY LinesAreLines, Indices, PatchAssumption DEF Small
  <2> HIDE DEF ch
  <2>3. /\ Len(written.lines) <= Len(Decoded(before).lines) + MaxChanged
        /\ Len(before.lines) <= Len(written.lines) + MaxChanged + 1
    BY SMTT(60), <1>2, <1>3, <1>4, <1>6, <1>7, <2>1, <2>2
  <2>4. QED
    BY <1>8, <2>3
<1>11. QED
  BY <1>8, <1>9, <1>10 DEF Kept, after

(***************************************************************************)
(* The invariant.                                                           *)
(***************************************************************************)
LEMMA NoHunkIsNone == NoHunk = << >> /\ NoHunk # << 0, 0 >> /\ \A m, n \in Nat : << m, n >> # NoHunk
BY DEF NoHunk

LEMMA Init_Patch == PatchInit => PatchInv
<1> SUFFICES ASSUME PatchInit PROVE PatchInv
  OBVIOUS
<1>1. NoTree \in [ Path -> FileText ]
  BY MissingIsFile DEF NoTree
<1>2. << >> \in Seq(PatchFile)
  BY EmptySeq
<1>3. PatchTyped
  BY <1>1, <1>2 DEF PatchInit, PatchTyped
<1>4. InHunk /\ Compared /\ AllApproved /\ Carried /\ ChangesAreApproved
  BY DEF PatchInit, InHunk, Compared, AllApproved, Carried, ChangesAreApproved
<1>5. QED
  BY <1>3, <1>4 DEF PatchInv

\* The end of the patch, whatever its verdict: what counts is what is said of it.
LEMMA Ended ==
    ASSUME PatchInv, NEW how, End(how), UNCHANGED << tree, patched >>, plan' \in SUBSET Path,
           how = "fits" => ChangesAreApproved'
    PROVE  PatchInv'
<1>1. writing' = "done" /\ verdict' = how /\ diff' = << >> /\ open' = NoHunk /\ next' = << 0, 0 >>
  BY DEF End
<1>2. << >> \in Seq(PatchFile) /\ << 0, 0 >> \in Nat \X Nat
  BY EmptySeq
<1>3. PatchTyped'
  BY <1>1, <1>2 DEF PatchInv, PatchTyped
<1>4. (InHunk /\ Compared /\ AllApproved /\ Carried)'
  BY <1>1 DEF InHunk, Compared, AllApproved, Carried
<1>5. ChangesAreApproved'
  BY <1>1 DEF ChangesAreApproved
<1>6. QED
  BY <1>3, <1>4, <1>5 DEF PatchInv

LEMMA RefusedEnds ==
    ASSUME PatchInv, Refuse
    PROVE  PatchInv'
<1>1. plan' \in SUBSET Path
  BY DEF Refuse, PatchInv, PatchTyped
<1>2. QED
  BY <1>1, Ended DEF Refuse

\* Another line of the patch.
LEMMA Continued ==
    ASSUME PatchInv, writing = "text", Continue,
           diff' \in Seq(PatchFile), open' \in { NoHunk } \cup (Nat \X Nat), next' \in Nat \X Nat, InHunk'
    PROVE  PatchInv'
<1>1. UNCHANGED << writing, plan, tree, patched, verdict >>
  BY DEF Continue
<1>2. PatchTyped'
  BY <1>1 DEF PatchInv, PatchTyped
<1>3. (Compared /\ AllApproved /\ Carried /\ ChangesAreApproved)'
  BY <1>1 DEF Compared, AllApproved, Carried, ChangesAreApproved
<1>4. QED
  BY <1>2, <1>3 DEF PatchInv

\* The last file of the patch, and the patch with another one in its place.
LEMMA LastFile ==
    ASSUME diff \in Seq(PatchFile), diff # << >>
    PROVE  /\ Len(diff) \in 1..Len(diff) /\ Current \in PatchFile
           /\ \A file \in PatchFile : /\ WithCurrent(file) \in Seq(PatchFile) /\ WithCurrent(file) # << >>
                                 /\ Last(WithCurrent(file)) = file
<1>1. Len(diff) \in Nat \ { 0 } /\ Len(diff) \in 1..Len(diff)
  BY LenProperties
<1>2. Current \in PatchFile
  BY <1>1, ElementOfSeq DEF Current, Last
<1>3. ASSUME NEW file \in PatchFile
      PROVE  /\ WithCurrent(file) \in Seq(PatchFile) /\ WithCurrent(file) # << >>
             /\ Last(WithCurrent(file)) = file
  <2>1. /\ WithCurrent(file) \in Seq(PatchFile) /\ Len(WithCurrent(file)) = Len(diff)
        /\ WithCurrent(file)[Len(diff)] = file
    BY <1>1, ExceptSeq DEF WithCurrent
  <2>2. WithCurrent(file) # << >>
    <3>1. Len(<< >>) = 0
      OBVIOUS
    <3>2. Len(WithCurrent(file)) # 0
      BY <1>1, <2>1
    <3>3. QED
      BY <3>1, <3>2
  <2>3. QED
    BY <2>1, <2>2 DEF Last
<1>4. QED
  BY <1>1, <1>2, <1>3

LEMMA FileHeaderKeeps ==
    ASSUME PatchInv, FileHeader
    PROVE  PatchInv'
<1>1. PICK path \in Path, sides \in Sides :
           IF path \in Named \/ (diff # << >> /\ Current.hunks = << >>) THEN Refuse
           ELSE /\ diff' = Append(diff, FileOf(path, sides[1], sides[2]))
                /\ open' = NoHunk /\ UNCHANGED next /\ Continue
  BY DEF FileHeader
<1>2. CASE Refuse
  BY <1>2, RefusedEnds
<1>3. CASE ~Refuse
  <2>1. /\ diff' = Append(diff, FileOf(path, sides[1], sides[2]))
        /\ open' = NoHunk /\ UNCHANGED next /\ Continue
    BY <1>1, <1>3
  <2>2. sides[1] \in BOOLEAN /\ sides[2] \in BOOLEAN
    <3>1. sides \in BOOLEAN \X BOOLEAN
      <4>1. \A old, new \in BOOLEAN : << old, new >> \in BOOLEAN \X BOOLEAN
        OBVIOUS
      <4>2. \E old, new \in BOOLEAN : sides = << old, new >>
        BY Zenon DEF Sides
      <4>3. QED
        BY <4>1, <4>2, Zenon
    <3>2. QED
      BY <3>1
  <2>3. FileOf(path, sides[1], sides[2]) \in PatchFile
    <3>1. << >> \in Seq(Hunk)
      BY EmptySeq
    <3>2. ASSUME NEW old \in BOOLEAN, NEW new \in BOOLEAN
          PROVE  FileOf(path, old, new) \in PatchFile
      BY <3>1 DEF FileOf, PatchFile
    <3>3. QED
      BY <2>2, <3>2, Zenon
  <2>4. diff' \in Seq(PatchFile)
    BY <2>1, <2>3, AppendProperties DEF PatchInv, PatchTyped
  <2>5. InHunk' /\ open' \in { NoHunk } \cup (Nat \X Nat) /\ next' \in Nat \X Nat /\ writing = "text"
    BY <2>1 DEF InHunk, PatchInv, PatchTyped, FileHeader, Writing
  <2>6. QED
    BY <2>1, <2>4, <2>5, Continued
<1>4. QED
  BY <1>2, <1>3

LEMMA HunkHeaderKeeps ==
    ASSUME PatchInv, HunkHeader
    PROVE  PatchInv'
<1>1. PICK h \in Headers :
           IF diff = << >> \/ (h[2] > 0 /\ h[1] = 0) \/ (h[4] > 0 /\ h[3] = 0) THEN Refuse
           ELSE /\ diff' = WithCurrent([Current EXCEPT !.hunks = Append(@, HunkOf(h[1], h[2], h[3], h[4]))])
                /\ open' = << h[2], h[4] >> /\ next' = << h[1], h[3] >> /\ Continue
  BY DEF HunkHeader
<1>2. CASE Refuse
  BY <1>2, RefusedEnds
<1>3. CASE ~Refuse
  <2> DEFINE hunk == HunkOf(h[1], h[2], h[3], h[4])
             file == [Current EXCEPT !.hunks = Append(@, hunk)]
  <2>1. /\ diff # << >> /\ ~(h[2] > 0 /\ h[1] = 0) /\ ~(h[4] > 0 /\ h[3] = 0)
        /\ diff' = WithCurrent(file)
        /\ open' = << h[2], h[4] >> /\ next' = << h[1], h[3] >> /\ Continue
    BY <1>1, <1>3
  <2>2. h[1] \in Nat /\ h[2] \in Nat /\ h[3] \in Nat /\ h[4] \in Nat
    BY PatchAssumption
  <2>3. hunk \in Hunk
    <3>1. << >> \in Seq(PatchLine)
      BY EmptySeq
    <3>2. (h[2] > 0 => h[1] > 0) /\ (h[4] > 0 => h[3] > 0)
      BY <2>1, <2>2
    <3>3. QED
      BY <2>2, <3>1, <3>2 DEF HunkOf, Hunk
  <2> HIDE DEF hunk
  <2>4. Current \in PatchFile
    BY <2>1, LastFile DEF PatchInv, PatchTyped
  <2>5. Append(Current.hunks, hunk) \in Seq(Hunk) /\ Append(Current.hunks, hunk) # << >>
    BY <2>3, <2>4, AppendProperties DEF PatchFile
  <2>6. file \in PatchFile /\ file.hunks = Append(Current.hunks, hunk)
    BY <2>4, <2>5 DEF PatchFile
  <2> HIDE DEF file
  <2>7. diff' \in Seq(PatchFile) /\ diff' # << >> /\ Last(diff') = file
    BY <2>1, <2>6, LastFile DEF PatchInv, PatchTyped
  <2>8. InHunk'
    BY <2>5, <2>6, <2>7 DEF InHunk, Current
  <2>9. open' \in { NoHunk } \cup (Nat \X Nat) /\ next' \in Nat \X Nat /\ writing = "text"
    BY <2>1, <2>2 DEF HunkHeader, Writing
  <2>10. QED
    BY <2>1, <2>7, <2>8, <2>9, Continued
<1>4. QED
  BY <1>2, <1>3

LEMMA HunkLineKeeps ==
    ASSUME PatchInv, HunkLine
    PROVE  PatchInv'
<1> DEFINE Old(kind) == IF kind \in OldKind THEN 1 ELSE 0
           New(kind) == IF kind \in NewKind THEN 1 ELSE 0
           TheLine(kind, content) ==
               [ kind |-> kind, content |-> content, old |-> Old(kind) * next[1], new |-> New(kind) * next[2] ]
           h == Len(Current.hunks)
           With(line) == [Current EXCEPT !.hunks[h].lines = Append(@, line)]
<1>1. PICK kind \in { "context", "removed", "added" }, content \in Line :
           IF Old(kind) > open[1] \/ New(kind) > open[2] THEN Refuse
           ELSE /\ diff' = WithCurrent(With(TheLine(kind, content)))
                /\ open' = << open[1] - Old(kind), open[2] - New(kind) >>
                /\ next' = << next[1] + Old(kind), next[2] + New(kind) >> /\ Continue
  BY DEF HunkLine
<1>2. CASE Refuse
  BY <1>2, RefusedEnds
<1>3. CASE ~Refuse
  <2> DEFINE line == TheLine(kind, content)
             old == Old(kind)
             new == New(kind)
             lines == Append(Current.hunks[h].lines, line)
             hunk == [Current.hunks[h] EXCEPT !.lines = lines]
             file == With(line)
  <2>1. /\ ~(old > open[1]) /\ ~(new > open[2])
        /\ diff' = WithCurrent(file)
        /\ open' = << open[1] - old, open[2] - new >>
        /\ next' = << next[1] + old, next[2] + new >> /\ Continue
    BY <1>1, <1>3
  <2>2. /\ writing = "text" /\ open # NoHunk /\ open \in Nat \X Nat /\ next \in Nat \X Nat
        /\ diff \in Seq(PatchFile) /\ diff # << >> /\ Current.hunks # << >>
    BY DEF HunkLine, Writing, Outside, PatchInv, PatchTyped, InHunk
  <2>3. /\ open[1] \in Nat /\ open[2] \in Nat /\ next[1] \in Nat /\ next[2] \in Nat
        /\ old \in { 0, 1 } /\ new \in { 0, 1 }
    BY <2>2
  <2>4. line \in PatchLine
    <3>1. old * next[1] \in Nat /\ new * next[2] \in Nat
      <4>1. \A m \in { 0, 1 }, n \in Nat : m * n \in Nat
        OBVIOUS
      <4>2. QED
        BY <2>3, <4>1
    <3>2. QED
      BY <3>1 DEF PatchLine
  <2>5. /\ open[1] - old \in Nat /\ open[2] - new \in Nat
        /\ next[1] + old \in Nat /\ next[2] + new \in Nat
    BY SMTT(60), <2>1, <2>3
  <2> HIDE DEF line, old, new
  <2>6. Current \in PatchFile /\ Current.hunks \in Seq(Hunk)
    BY <2>2, LastFile DEF PatchFile
  <2>7. h \in 1..Len(Current.hunks) /\ Current.hunks[h] \in Hunk
    BY <2>2, <2>6, LenProperties, ElementOfSeq
  <2>8. lines \in Seq(PatchLine)
    BY <2>4, <2>7, AppendProperties DEF Hunk
  <2>9. hunk \in Hunk
    BY <2>7, <2>8 DEF Hunk
  <2> DEFINE hunks == [Current.hunks EXCEPT ![h] = hunk]
  <2>10. file = [Current EXCEPT !.hunks = hunks]
    BY Zenon
  <2> HIDE DEF hunk, file, h
  <2>11. hunks \in Seq(Hunk) /\ hunks # << >>
    <3>1. hunks \in Seq(Hunk) /\ Len(hunks) = Len(Current.hunks)
      BY <2>6, <2>7, <2>9, ExceptSeq
    <3>2. Len(Current.hunks) # 0 /\ Len(<< >>) = 0
      BY <2>7
    <3> HIDE DEF hunks
    <3>3. QED
      BY <3>1, <3>2
  <2> HIDE DEF hunks
  <2>12. file \in PatchFile /\ file.hunks = hunks
    BY <2>6, <2>10, <2>11 DEF PatchFile
  <2>13. diff' \in Seq(PatchFile) /\ diff' # << >> /\ Last(diff') = file
    BY <2>1, <2>2, <2>12, LastFile
  <2>14. InHunk'
    BY <2>11, <2>12, <2>13 DEF InHunk, Current
  <2>15. open' \in { NoHunk } \cup (Nat \X Nat) /\ next' \in Nat \X Nat
    BY <2>1, <2>5
  <2>16. QED
    BY <2>1, <2>2, <2>13, <2>14, <2>15, Continued
<1>4. QED
  BY <1>2, <1>3

LEMMA NoNewlineMarkerKeeps ==
    ASSUME PatchInv, NoNewlineMarker
    PROVE  PatchInv'
<1> DEFINE last == Last(LinesOf(Current))
           oldEnd == IF last.old # 0 THEN last.old ELSE Current.old_end
           newEnd == IF last.new # 0 THEN last.new ELSE Current.new_end
           file == [Current EXCEPT !.old_end = IF last.old # 0 THEN last.old ELSE @,
                                   !.new_end = IF last.new # 0 THEN last.new ELSE @]
<1>1. CASE Refuse
  BY <1>1, RefusedEnds
<1>2. CASE ~Refuse
  <2>1. /\ writing = "text" /\ open # NoHunk /\ LinesOf(Current) # << >>
        /\ diff' = WithCurrent(file) /\ open' = (IF Outside THEN NoHunk ELSE open)
        /\ UNCHANGED next /\ Continue
    BY <1>2 DEF NoNewlineMarker, Writing
  <2>2. /\ open \in Nat \X Nat /\ next \in Nat \X Nat
        /\ diff \in Seq(PatchFile) /\ diff # << >> /\ Current.hunks # << >>
    BY <2>1 DEF PatchInv, PatchTyped, InHunk
  <2>3. Current \in PatchFile
    BY <2>2, LastFile
  <2>4. last \in PatchLine
    <3>1. LinesOf(Current) \in Seq(PatchLine)
      BY <2>3, LinesAreLines
    <3>2. Len(LinesOf(Current)) \in 1..Len(LinesOf(Current))
      BY <2>1, <3>1, LenProperties
    <3>3. QED
      BY <3>1, <3>2, ElementOfSeq DEF Last
  <2>5. oldEnd \in Nat /\ newEnd \in Nat
    BY <2>3, <2>4 DEF PatchLine, PatchFile
  <2>6. file = [Current EXCEPT !.old_end = oldEnd, !.new_end = newEnd]
    BY <2>3 DEF PatchFile
  <2> HIDE DEF file, oldEnd, newEnd
  <2>7. file \in PatchFile /\ file.hunks = Current.hunks
    BY <2>3, <2>5, <2>6 DEF PatchFile
  <2>8. diff' \in Seq(PatchFile) /\ diff' # << >> /\ Last(diff') = file
    BY <2>1, <2>2, <2>7, LastFile
  <2>9. InHunk'
    BY <2>2, <2>7, <2>8 DEF InHunk, Current
  <2>10. open' \in { NoHunk } \cup (Nat \X Nat) /\ next' \in Nat \X Nat
    BY <2>1, <2>2
  <2>11. QED
    BY <2>1, <2>8, <2>9, <2>10, Continued
<1>3. QED
  BY <1>1, <1>2

LEMMA IgnoredLineKeeps ==
    ASSUME PatchInv, IgnoredLine
    PROVE  PatchInv'
<1>1. writing = "text" /\ open' = NoHunk /\ UNCHANGED << diff, next >> /\ Continue
  BY DEF IgnoredLine, Writing
<1>2. diff' \in Seq(PatchFile) /\ next' \in Nat \X Nat /\ InHunk'
  BY <1>1 DEF PatchInv, PatchTyped, InHunk
<1>3. QED
  BY <1>1, <1>2, Continued

LEMMA NamedPaths ==
    ASSUME diff \in Seq(PatchFile)
    PROVE  Named \in SUBSET Path /\ IsFiniteSet(Named)
<1> DEFINE n == Len(diff)
           f == [ i \in 1..n |-> diff[i].path ]
<1>1. n \in Nat /\ DOMAIN diff = 1..n /\ \A i \in 1..n : diff[i] \in PatchFile
  BY LenProperties, ElementOfSeq
<1>2. Named \in SUBSET Path
  BY <1>1 DEF Named, PatchFile
<1>3. f \in Surjection(1..n, Named)
  BY <1>1 DEF Named, Surjection
<1>4. IsFiniteSet(1..n)
  BY <1>1, FS_Interval
<1>5. IsFiniteSet(Named)
  BY <1>3, <1>4, FS_Surjection
<1>6. QED
  BY <1>2, <1>5

LEMMA TextEndsKeeps ==
    ASSUME PatchInv, TextEnds
    PROVE  PatchInv'
<1>1. UNCHANGED << tree, patched >> /\ plan' \in SUBSET Path
  BY PatchAssumption DEF TextEnds
<1>2. CASE End("invalid")
  BY <1>1, <1>2, Ended
<1>3. CASE ~End("invalid")
  <2>1. /\ plan' = Named /\ writing' = "policy" /\ UNCHANGED << length, diff, open, next, verdict >>
        /\ writing = "text"
    BY <1>3 DEF TextEnds
  <2>2. PatchTyped'
    BY <1>1, <2>1 DEF PatchInv, PatchTyped
  <2>3. Compared'
    BY <2>1 DEF Compared, Named
  <2>4. (InHunk /\ AllApproved /\ Carried /\ ChangesAreApproved)'
    BY <2>1 DEF InHunk, AllApproved, Carried, ChangesAreApproved
  <2>5. QED
    BY <2>2, <2>3, <2>4 DEF PatchInv
<1>4. QED
  BY <1>2, <1>3

\* What is no violation is within the limits.
LEMMA NoViolation ==
    ASSUME diff \in Seq(PatchFile), ~Violations
    PROVE  /\ Named \cap Protected = {} /\ Cardinality(Named) <= MaxFiles
           /\ \A i \in DOMAIN diff : Small(diff[i])
<1>1. MaxFiles \in Nat /\ MaxChanged \in Nat
  BY PatchAssumption
<1>2. Named \cap Protected = {} /\ ~(Cardinality(Named) > MaxFiles) /\ ~(ChangedLines > MaxChanged)
  BY DEF Violations
<1>3. Cardinality(Named) \in Nat
  BY NamedPaths, FS_CardinalityType
<1>4. ChangedLines \in Nat
  BY ChangedUpTo, LenProperties
<1>5. ASSUME NEW i \in DOMAIN diff
      PROVE  Small(diff[i])
  <2> DEFINE lines == LinesOf(diff[i])
  <2>1. diff[i] \in PatchFile /\ lines \in Seq(PatchLine)
    BY LenProperties, ElementOfSeq, LinesAreLines
  <2>2. ChangesOf(lines) = HowMany(ChangeLine, lines) /\ ChangesOf(lines) \in Nat /\ ChangesOf(lines) <= ChangedLines
    BY <2>1, ChangesAreMany, ChangedLinesBound
  <2>3. \A j \in DOMAIN lines : lines[j] \notin Refused
    BY DEF Violations, ToSet, Refused, Of
  <2>4. HowMany(Refused, lines) = 0
    BY <2>3, HowManyOfMissing
  <2> HIDE DEF lines
  <2>5. HowMany(ChangeLine, lines) <= MaxChanged
    BY <1>1, <1>2, <1>4, <2>2
  <2>6. QED
    BY <2>4, <2>5 DEF Small, lines
<1>6. QED
  BY <1>1, <1>2, <1>3, <1>5

LEMMA PolicyKeeps ==
    ASSUME PatchInv, Policy
    PROVE  PatchInv'
<1>1. writing = "policy" /\ UNCHANGED plan /\ plan' \in SUBSET Path /\ diff \in Seq(PatchFile)
  BY DEF Policy, PatchInv, PatchTyped
<1>2. CASE End("rejected") /\ UNCHANGED << tree, patched >>
  BY <1>1, <1>2, Ended
<1>3. CASE /\ ~Violations /\ writing' = "apply"
           /\ tree' \in Trees /\ patched' = tree'
           /\ UNCHANGED << length, diff, open, next, verdict >>
  <2>1. tree' \in [ Path -> FileText ]
    <3>1. tree' \in [ Path -> [ lines : Seq(Line), newline : BOOLEAN, there : BOOLEAN ] ]
      BY <1>3, PatchAssumption
    <3>2. \A p \in Path : tree'[p] = Missing \/ tree'[p].there
      BY <1>3, PatchAssumption
    <3>3. \A p \in Path : tree'[p] \in FileText
      BY <3>1, <3>2, Zenon DEF FileText
    <3>4. QED
      BY <3>1, <3>3
  <2>2. PatchTyped'
    BY <1>1, <1>3, <2>1 DEF PatchInv, PatchTyped
  <2>3. plan = Named
    BY <1>1 DEF PatchInv, Compared
  <2>4. AllApproved'
    <3>1. plan' \cap Protected = {} /\ Cardinality(plan') <= MaxFiles /\ \A i \in DOMAIN diff' : Small(diff'[i])
      BY <1>1, <1>3, <2>3, NoViolation
    <3>2. QED
      BY <3>1 DEF AllApproved
  <2>5. Carried'
    BY <1>3, <2>1, KeptSame DEF Carried
  <2>6. (InHunk /\ Compared /\ ChangesAreApproved)'
    BY <1>3 DEF InHunk, Compared, ChangesAreApproved
  <2>7. QED
    BY <2>2, <2>4, <2>5, <2>6 DEF PatchInv
<1>4. QED
  BY <1>2, <1>3 DEF Policy

LEMMA ApplyNextKeeps ==
    ASSUME PatchInv, ApplyNext
    PROVE  PatchInv'
<1> DEFINE file == Head(diff)
           applied == ApplyFile(file, tree[file.path])
<1>1. /\ writing = "apply" /\ diff # << >> /\ diff \in Seq(PatchFile)
      /\ tree \in [ Path -> FileText ] /\ patched \in [ Path -> FileText ] /\ plan \in SUBSET Path
  BY DEF ApplyNext, PatchInv, PatchTyped
<1>2. CASE applied.fits
  <2>1. /\ patched' = [patched EXCEPT ![file.path] = applied.file] /\ diff' = Tail(diff)
        /\ UNCHANGED << writing, plan, tree, length, open, next, verdict >>
    BY <1>2 DEF ApplyNext
  <2>2. file \in PatchFile /\ Tail(diff) \in Seq(PatchFile)
    BY <1>1, HeadTailProperties
  <2>3. Small(file) /\ \A i \in DOMAIN Tail(diff) : Small(Tail(diff)[i])
    <3>1. Len(diff) \in Nat \ { 0 } /\ DOMAIN diff = 1..Len(diff) /\ \A i \in DOMAIN diff : Small(diff[i])
      BY <1>1, LenProperties DEF PatchInv, AllApproved
    <3>2. Small(diff[1]) /\ file = diff[1]
      <4>1. 1 \in DOMAIN diff
        BY <3>1
      <4>2. QED
        BY <1>1, <3>1, <4>1
    <3>3. /\ Len(Tail(diff)) = Len(diff) - 1 /\ DOMAIN Tail(diff) = 1..Len(Tail(diff))
          /\ \A i \in 1..Len(Tail(diff)) : Tail(diff)[i] = diff[i + 1]
      BY <1>1, <2>2, HeadTailProperties, LenProperties
    <3>4. ASSUME NEW i \in DOMAIN Tail(diff)
          PROVE  Small(Tail(diff)[i])
      <4>1. i + 1 \in DOMAIN diff /\ Tail(diff)[i] = diff[i + 1]
        BY <3>1, <3>3
      <4>2. QED
        BY <3>1, <4>1
    <3>5. QED
      BY <3>2, <3>4
  <2>4. file.path \in Path /\ tree[file.path] \in FileText
    BY <1>1, <2>2 DEF PatchFile
  <2>5. applied.file \in FileText /\ Kept(tree[file.path], applied.file)
    BY <1>2, <2>2, <2>3, <2>4, FileIsKept
  <2> HIDE DEF applied, file
  <2>6. PatchTyped'
    BY <1>1, <2>1, <2>2, <2>5 DEF PatchInv, PatchTyped
  <2>7. AllApproved'
    <3>1. plan \cap Protected = {} /\ Cardinality(plan) <= MaxFiles
      BY <1>1 DEF PatchInv, AllApproved
    <3>2. QED
      BY <2>1, <2>3, <3>1 DEF AllApproved
  <2>8. Carried'
    <3>1. ASSUME NEW p \in Path
          PROVE  Kept(tree'[p], patched'[p])
      <4>1. CASE p = file.path
        <5>1. patched'[p] = applied.file /\ tree'[p] = tree[file.path]
          BY <1>1, <2>1, <4>1
        <5>2. QED
          BY <2>5, <5>1
      <4>2. CASE p # file.path
        <5>1. patched'[p] = patched[p] /\ tree'[p] = tree[p]
          BY <1>1, <2>1, <4>2
        <5>2. Kept(tree[p], patched[p])
          BY <1>1 DEF PatchInv, Carried
        <5>3. QED
          BY <5>1, <5>2
      <4>3. QED
        BY <4>1, <4>2
    <3>2. QED
      BY <3>1 DEF Carried
  <2>9. (InHunk /\ Compared /\ ChangesAreApproved)'
    BY <1>1, <2>1 DEF InHunk, Compared, ChangesAreApproved
  <2>10. QED
    BY <2>6, <2>7, <2>8, <2>9 DEF PatchInv
<1>3. CASE ~applied.fits
  <2>1. End("misfit") /\ UNCHANGED << plan, tree, patched >>
    BY <1>3 DEF ApplyNext
  <2>2. QED
    BY <1>1, <2>1, Ended
<1>4. QED
  BY <1>2, <1>3

LEMMA CompareKeeps ==
    ASSUME PatchInv, Compare
    PROVE  PatchInv'
<1> DEFINE how == IF { p \in Path : patched[p] # tree[p] } = plan THEN "fits" ELSE "unexpected"
<1>1. writing = "apply" /\ End(how) /\ UNCHANGED << plan, tree, patched >> /\ plan' \in SUBSET Path
  BY DEF Compare, PatchInv, PatchTyped
<1>2. ASSUME how = "fits"
      PROVE  ChangesAreApproved'
  <2>1. { p \in Path : patched[p] # tree[p] } = plan
    BY <1>2
  <2>2. plan \cap Protected = {} /\ Cardinality(plan) <= MaxFiles
    BY <1>1 DEF PatchInv, AllApproved
  <2>3. \A p \in Path : Kept(tree[p], patched[p])
    BY <1>1 DEF PatchInv, Carried
  <2>4. ASSUME NEW p \in Path, NEW a \in Assertions
        PROVE  Count(a, patched[p]) >= Count(a, tree[p])
    <3>1. \A f \in FileText : Count(a, f) = HowMany({ a }, f.lines) /\ Count(a, f) \in Nat
      <4>1. ASSUME NEW f \in FileText
            PROVE  Count(a, f) = HowMany({ a }, f.lines) /\ Count(a, f) \in Nat
        <5>1. Where({ a }, f.lines) = { i \in DOMAIN f.lines : f.lines[i] = a }
          BY DEF Where
        <5>2. HowMany({ a }, f.lines) \in Nat
          BY FileFacts, Indices
        <5>3. QED
          BY <5>1, <5>2 DEF Count, HowMany
      <4>2. QED
        BY <4>1
    <3>2. tree[p] \in FileText /\ patched[p] \in FileText
      BY DEF PatchInv, PatchTyped
    <3>3. HowMany({ a }, tree[p].lines) <= HowMany({ a }, patched[p].lines)
      BY <2>3 DEF Kept
    <3>4. /\ Count(a, patched[p]) = HowMany({ a }, patched[p].lines) /\ Count(a, patched[p]) \in Nat
          /\ Count(a, tree[p]) = HowMany({ a }, tree[p].lines) /\ Count(a, tree[p]) \in Nat
      BY <3>1, <3>2
    <3>5. QED
      BY <3>3, <3>4
  <2>5. \A p \in Path : /\ Len(patched[p].lines) <= Len(Decoded(tree[p]).lines) + MaxChanged
                        /\ Len(tree[p].lines) <= Len(patched[p].lines) + MaxChanged + 1
    BY <2>3 DEF Kept
  <2>6. tree' = tree /\ patched' = patched /\ plan' = plan
    BY <1>1
  <2>7. QED
    BY <2>1, <2>2, <2>4, <2>5, <2>6 DEF ChangesAreApproved
<1>3. QED
  BY <1>1, <1>2, Ended

LEMMA Step_Patch == PatchInv /\ [PatchNext]_patchVars => PatchInv'
<1> SUFFICES ASSUME PatchInv, [PatchNext]_patchVars
             PROVE  PatchInv'
  OBVIOUS
<1>1. CASE FileHeader
  BY <1>1, FileHeaderKeeps
<1>2. CASE HunkHeader
  BY <1>2, HunkHeaderKeeps
<1>3. CASE HunkLine
  BY <1>3, HunkLineKeeps
<1>4. CASE NoNewlineMarker
  BY <1>4, NoNewlineMarkerKeeps
<1>5. CASE IgnoredLine
  BY <1>5, IgnoredLineKeeps
<1>6. CASE Malformed
  BY <1>6, RefusedEnds DEF Malformed
<1>7. CASE TextEnds
  BY <1>7, TextEndsKeeps
<1>8. CASE Policy
  BY <1>8, PolicyKeeps
<1>9. CASE ApplyNext
  BY <1>9, ApplyNextKeeps
<1>10. CASE Compare
  BY <1>10, CompareKeeps
<1>11. CASE UNCHANGED patchVars
  <2>1. UNCHANGED << writing, plan, tree, length, diff, open, next, patched, verdict >>
    BY <1>11 DEF patchVars
  <2>2. PatchTyped' /\ InHunk' /\ Compared'
    BY <2>1 DEF PatchInv, PatchTyped, InHunk, Current, Compared, Named
  <2>3. AllApproved' /\ Carried' /\ ChangesAreApproved'
    BY <2>1 DEF PatchInv, AllApproved, Carried, ChangesAreApproved
  <2>4. QED
    BY <2>2, <2>3 DEF PatchInv
<1>12. QED
  BY <1>1, <1>2, <1>3, <1>4, <1>5, <1>6, <1>7, <1>8, <1>9, <1>10, <1>11 DEF PatchNext, Parse

\* The patch is well-formed at every point, and what the policy lets through stays
\* within the limits while it is applied.
THEOREM PatchInvariant == PatchSpec => []PatchInv
BY Init_Patch, Step_Patch, PTL DEF PatchSpec

\* A patch that becomes a candidate changes the planned files and no protected one, in
\* no more lines than the limit, and removes no assertion, for any text of the patch
\* and any files of the repository.
THEOREM ChangesAlwaysApproved == PatchSpec => []ChangesAreApproved
<1>1. PatchInv => ChangesAreApproved
  BY DEF PatchInv
<1>2. QED
  BY <1>1, PatchInvariant, PTL

(***************************************************************************)
(* What is applied is what is written: the loop over the hunks, from the    *)
(* first to the last, does what replacing them from the last to the first   *)
(* does.                                                                    *)
(***************************************************************************)
Replaced(h, ls) ==
    LET from == Index(h.old_start, h.old_count)
    IN  SubSeq(ls, 1, from) \o Side(h, NewKind) \o SubSeq(ls, from + h.old_count + 1, Len(ls))

LEMMA MinOf ==
    ASSUME NEW m \in Nat, NEW n \in Nat, NEW s \in SUBSET (m..n), m \in s
    PROVE  Min(s) = m
<1>1. m \in s /\ \A y \in s : m <= y
  OBVIOUS
<1>2. Min(s) \in s /\ \A y \in s : Min(s) <= y
  BY <1>1 DEF Min
<1>3. PICK x : x = Min(s)
  OBVIOUS
<1>4. x \in s /\ m <= x /\ x <= m
  BY <1>1, <1>2, <1>3, Zenon
<1>5. x = m
  BY <1>4
<1>6. QED
  BY <1>3, <1>5

LEMMA EditedFrom ==
    ASSUME NEW file \in PatchFile, NEW source
    PROVE  \E at : /\ at[Len(file.hunks) + 1] = source
                   /\ \A i \in 1..Len(file.hunks) : at[i] = Replaced(file.hunks[i], at[i + 1])
                   /\ Edited(file, source) = at[1]
<1> DEFINE n == Len(file.hunks)
           Turn(i, ls) == Replaced(file.hunks[i], ls)
           Folds(k, f) == f = [ s \in SUBSET (k..n) |->
                                  IF s = {} THEN source ELSE Turn(Min(s), f[s \ { Min(s) }]) ]
           iter == CHOOSE f : Folds(1, f)
           at == [ i \in 1..(n + 1) |-> iter[i..n] ]
           T == { m \in 0..n : \E f : Folds(n + 1 - m, f) }
<1>1. n \in Nat /\ DOMAIN file.hunks = 1..n
  BY LenProperties DEF PatchFile
<1> HIDE DEF n
<1>2. 0 \in T
  <2> DEFINE f == [ s \in SUBSET ((n + 1)..n) |-> source ]
  <2>1. (n + 1)..n = {}
    BY <1>1
  <2>2. \A s \in SUBSET ((n + 1)..n) : s = {}
    BY <2>1
  <2>3. Folds(n + 1, f)
    <3> HIDE DEF Turn
    <3> QED
      BY <2>2
  <2>4. n + 1 - 0 = n + 1 /\ 0 \in 0..n
    BY <1>1
  <2>5. \E g : Folds(n + 1 - 0, g)
    <3> HIDE DEF Folds, f
    <3> QED
      BY <2>3, <2>4
  <2> HIDE DEF Folds
  <2>6. QED
    BY <2>4, <2>5
<1>3. ASSUME NEW m \in 1..n, m - 1 \in T
      PROVE  m \in T
  <2> DEFINE k == n + 1 - m
  <2>1. k \in 1..n /\ n + 1 - (m - 1) = k + 1
    BY <1>1
  <2>2. PICK f : Folds(k + 1, f)
    <3>1. \E f : Folds(n + 1 - (m - 1), f)
      <4> HIDE DEF Folds
      <4> QED
        BY <1>3
    <3> HIDE DEF Folds, k
    <3>2. QED
      BY <2>1, <3>1
  <2> HIDE DEF k
  <2> DEFINE more == [ s \in SUBSET (k..n) |-> IF k \in s THEN Turn(k, f[s \ { k }]) ELSE f[s] ]
  <2>3. \A s \in SUBSET (k..n) : s \ { k } \in SUBSET ((k + 1)..n) /\ (k \notin s => s \in SUBSET ((k + 1)..n))
    BY <1>1, <2>1
  <2>4. ASSUME NEW s \in SUBSET (k..n), s # {}
        PROVE  more[s] = Turn(Min(s), more[s \ { Min(s) }])
    <3> HIDE DEF Turn
    <3>1. CASE k \in s
      <4>1. Min(s) = k
        <5>1. k \in Nat /\ n \in Nat
          BY <1>1, <2>1
        <5>2. QED
          BY <3>1, <5>1, MinOf
      <4>2. s \ { k } \in SUBSET (k..n) /\ k \notin s \ { k }
        OBVIOUS
      <4>3. more[s] = Turn(k, f[s \ { k }]) /\ more[s \ { k }] = f[s \ { k }]
        BY <3>1, <4>2
      <4>4. QED
        BY <4>1, <4>3
    <3>2. CASE k \notin s
      <4>1. s \in SUBSET ((k + 1)..n)
        BY <2>3, <3>2
      <4>2. s \ { Min(s) } \in SUBSET (k..n) /\ k \notin s \ { Min(s) }
        BY <3>2
      <4>3. more[s] = f[s] /\ more[s \ { Min(s) }] = f[s \ { Min(s) }]
        BY <3>2, <4>2
      <4>4. f[s] = IF s = {} THEN source ELSE Turn(Min(s), f[s \ { Min(s) }])
        BY <2>2, <4>1
      <4>5. QED
        BY <2>4, <4>3, <4>4
    <3>3. QED
      BY <3>1, <3>2
  <2>5. more[{}] = source
    <3>1. {} \in SUBSET (k..n) /\ k \notin {} /\ {} \in SUBSET ((k + 1)..n)
      OBVIOUS
    <3>2. f[{}] = source
      BY <2>2, <3>1
    <3>3. QED
      BY <3>1, <3>2
  <2>6. Folds(k, more)
    <3>1. more = [ s \in SUBSET (k..n) |-> more[s] ]
      OBVIOUS
    <3> HIDE DEF more, Turn
    <3>2. QED
      BY <2>4, <2>5, <3>1
  <2>7. \E g : Folds(k, g)
    <3> HIDE DEF Folds, more
    <3> QED
      BY <2>6
  <2>8. m \in 0..n
    BY <1>1
  <2> HIDE DEF Folds
  <2>9. QED
    BY <2>7, <2>8 DEF k
<1>4. Folds(1, iter)
  <2>1. \A m \in 0..n : m \in T
    <3> HIDE DEF T
    <3> QED
      BY <1>1, <1>2, <1>3, Reached
  <2>2. n \in 0..n /\ n + 1 - n = 1
    BY <1>1
  <2> HIDE DEF Folds
  <2>3. \E f : Folds(1, f)
    BY <2>1, <2>2
  <2>4. QED
    BY <2>3
<1>5. Edited(file, source) = iter[1..n]
  BY <1>1, Zenon DEF Edited, Replaced, FoldRight, MapThenFoldSet
<1> HIDE DEF iter
<1>6. iter[(n + 1)..n] = source
  <2>1. (n + 1)..n = {} /\ {} \in SUBSET (1..n)
    BY <1>1
  <2> HIDE DEF Turn
  <2>2. iter[{}] = source
    BY <1>4, <2>1
  <2>3. QED
    BY <2>1, <2>2
<1>7. ASSUME NEW i \in 1..n
      PROVE  iter[i..n] = Turn(i, iter[(i + 1)..n])
  <2>1. i..n \in SUBSET (1..n) /\ i \in i..n /\ i..n # {} /\ (i..n) \ { i } = (i + 1)..n
    BY <1>1
  <2>2. Min(i..n) = i
    <3>1. i \in Nat /\ n \in Nat /\ i..n \in SUBSET (i..n)
      BY <1>1
    <3>2. QED
      BY <2>1, <3>1, MinOf
  <2> HIDE DEF Turn
  <2>3. iter[i..n] = IF i..n = {} THEN source ELSE Turn(Min(i..n), iter[(i..n) \ { Min(i..n) }])
    BY <1>4, <2>1
  <2>4. QED
    BY <2>1, <2>2, <2>3
<1>8. /\ at[n + 1] = source /\ at[1] = iter[1..n]
      /\ \A i \in 1..n : at[i] = Turn(i, at[i + 1])
  <2> HIDE DEF Turn
  <2> QED
    BY <1>1, <1>6, <1>7
<1>9. QED
  BY <1>5, <1>8 DEF n

\* The parts of what is put together.
LEMMA Pieces ==
    ASSUME NEW S, NEW a \in Seq(S), NEW b \in Seq(S)
    PROVE  /\ a \o b \in Seq(S) /\ Len(a \o b) = Len(a) + Len(b) /\ Len(a) \in Nat /\ Len(b) \in Nat
           /\ SubSeq(a \o b, Len(a) + 1, Len(a) + Len(b)) = b
           /\ \A k \in 0..Len(a) : SubSeq(a \o b, 1, k) = SubSeq(a, 1, k)
<1>1. /\ Len(a) \in Nat /\ Len(b) \in Nat /\ DOMAIN a = 1..Len(a) /\ DOMAIN b = 1..Len(b)
      /\ \A i \in 1..Len(a) : a[i] \in S
      /\ \A i \in 1..Len(b) : b[i] \in S
  BY LenProperties, ElementOfSeq
<1>2. /\ a \o b \in Seq(S) /\ Len(a \o b) = Len(a) + Len(b)
      /\ \A i \in 1..(Len(a) + Len(b)) : (a \o b)[i] = IF i <= Len(a) THEN a[i] ELSE b[i - Len(a)]
  BY ConcatProperties
<1> DEFINE ab == a \o b
<1>3. \A i \in 1..(Len(a) + Len(b)) : ab[i] \in S
  BY <1>2, ElementOfSeq
<1> HIDE DEF ab
<1>4. SubSeq(ab, Len(a) + 1, Len(a) + Len(b)) = b
  <2> DEFINE part == SubSeq(ab, Len(a) + 1, Len(a) + Len(b))
  <2>1. /\ part \in Seq(S)
        /\ Len(part) = IF Len(a) + 1 <= Len(a) + Len(b) THEN (Len(a) + Len(b)) - (Len(a) + 1) + 1 ELSE 0
        /\ \A i \in 1..((Len(a) + Len(b)) - (Len(a) + 1) + 1) : part[i] = ab[(Len(a) + 1) + i - 1]
    <3>1. Len(a) + 1 \in Int /\ Len(a) + Len(b) \in Int /\ \A i \in (Len(a) + 1)..(Len(a) + Len(b)) : ab[i] \in S
      BY <1>1, <1>3
    <3>2. QED
      BY <3>1, SubSeqProperties
  <2> HIDE DEF part
  <2>2. Len(part) = Len(b)
    BY <1>1, <2>1
  <2>3. ASSUME NEW i \in 1..Len(part)
        PROVE  part[i] = b[i]
    <3>1. i \in 1..((Len(a) + Len(b)) - (Len(a) + 1) + 1) /\ (Len(a) + 1) + i - 1 = Len(a) + i
      BY <1>1, <2>2
    <3>2. part[i] = ab[Len(a) + i]
      BY <2>1, <3>1
    <3>3. Len(a) + i \in 1..(Len(a) + Len(b)) /\ ~(Len(a) + i <= Len(a)) /\ (Len(a) + i) - Len(a) = i
      BY <1>1, <2>2
    <3>4. ab[Len(a) + i] = b[i]
      BY <1>2, <3>3 DEF ab
    <3>5. QED
      BY <3>2, <3>4
  <2>4. part = b
    BY <2>1, <2>2, <2>3, SeqEqual
  <2>5. QED
    BY <2>4 DEF part
<1>5. ASSUME NEW k \in 0..Len(a)
      PROVE  SubSeq(ab, 1, k) = SubSeq(a, 1, k)
  <2> DEFINE x == SubSeq(ab, 1, k)
             y == SubSeq(a, 1, k)
  <2>1. /\ x \in Seq(S) /\ Len(x) = (IF 1 <= k THEN k - 1 + 1 ELSE 0)
        /\ \A i \in 1..(k - 1 + 1) : x[i] = ab[1 + i - 1]
    <3>1. 1 \in Int /\ k \in Int /\ \A i \in 1..k : ab[i] \in S
      BY <1>1, <1>3
    <3>2. QED
      BY <3>1, SubSeqProperties
  <2>2. /\ y \in Seq(S) /\ Len(y) = (IF 1 <= k THEN k - 1 + 1 ELSE 0)
        /\ \A i \in 1..(k - 1 + 1) : y[i] = a[1 + i - 1]
    <3>1. 1 \in Int /\ k \in Int /\ \A i \in 1..k : a[i] \in S
      BY <1>1
    <3>2. QED
      BY <3>1, SubSeqProperties
  <2> HIDE DEF x, y
  <2>3. Len(x) = k /\ Len(y) = k
    BY <1>1, <2>1, <2>2
  <2>4. ASSUME NEW i \in 1..Len(x)
        PROVE  x[i] = y[i]
    <3>1. i \in 1..(k - 1 + 1) /\ 1 + i - 1 = i /\ i \in 1..(Len(a) + Len(b)) /\ i <= Len(a)
      BY <1>1, <2>3
    <3>2. x[i] = ab[i] /\ y[i] = a[i]
      BY <2>1, <2>2, <3>1
    <3>3. ab[i] = a[i]
      BY <1>2, <3>1 DEF ab
    <3>4. QED
      BY <3>2, <3>3
  <2>5. x = y
    BY <2>1, <2>2, <2>3, <2>4, SeqEqual
  <2>6. QED
    BY <2>5 DEF x, y
<1>6. QED
  BY <1>1, <1>2, <1>4, <1>5 DEF ab

LEMMA Middle ==
    ASSUME NEW S, NEW a \in Seq(S), NEW b \in Seq(S), NEW c \in Seq(S)
    PROVE  SubSeq((a \o b) \o c, Len(a) + 1, Len(a) + Len(b)) = b
<1> DEFINE ab == a \o b
           k == Len(a)
           n == Len(a) + Len(b)
<1>1. ab \in Seq(S) /\ Len(ab) = n /\ k \in Nat /\ Len(b) \in Nat /\ n \in Nat /\ k <= n
      /\ SubSeq(ab, k + 1, n) = b
  BY Pieces
<1>2. ab \o c \in Seq(S) /\ Len(ab \o c) = n + Len(c) /\ Len(c) \in Nat
      /\ \A i \in 1..(n + Len(c)) : (ab \o c)[i] = IF i <= n THEN ab[i] ELSE c[i - n]
  BY <1>1, ConcatProperties, LenProperties
<1>3. \A i \in 1..n : ab[i] \in S
  BY <1>1, ElementOfSeq
<1> DEFINE abc == ab \o c
<1>4. \A i \in 1..n : abc[i] = ab[i]
  <2> HIDE DEF n, ab
  <2> QED
    BY <1>1, <1>2
<1> HIDE DEF abc, ab, n, k
<1> DEFINE x == SubSeq(abc, k + 1, n)
           y == SubSeq(ab, k + 1, n)
<1>5. \A i \in (k + 1)..n : abc[i] \in S /\ ab[i] \in S
  BY <1>1, <1>3, <1>4
<1>6. /\ x \in Seq(S) /\ Len(x) = (IF k + 1 <= n THEN n - (k + 1) + 1 ELSE 0)
      /\ \A i \in 1..(n - (k + 1) + 1) : x[i] = abc[(k + 1) + i - 1]
  <2>1. k + 1 \in Int /\ n \in Int
    BY <1>1
  <2>2. QED
    BY <1>5, <2>1, SubSeqProperties
<1>7. /\ y \in Seq(S) /\ Len(y) = (IF k + 1 <= n THEN n - (k + 1) + 1 ELSE 0)
      /\ \A i \in 1..(n - (k + 1) + 1) : y[i] = ab[(k + 1) + i - 1]
  <2>1. k + 1 \in Int /\ n \in Int
    BY <1>1
  <2>2. QED
    BY <1>5, <2>1, SubSeqProperties
<1> HIDE DEF x, y
<1>8. Len(x) = n - k /\ Len(y) = n - k
  BY <1>1, <1>6, <1>7
<1>9. ASSUME NEW i \in 1..Len(x)
      PROVE  x[i] = y[i]
  <2>1. i \in 1..(n - (k + 1) + 1) /\ (k + 1) + i - 1 \in 1..n
    BY <1>1, <1>8
  <2>2. QED
    BY <1>4, <1>6, <1>7, <2>1
<1>10. x = y
  BY <1>6, <1>7, <1>8, <1>9, SeqEqual
<1>11. QED
  BY <1>1, <1>10 DEF x, y, abc, ab, n, k

LEMMA Upto ==
    ASSUME NEW source \in Seq(Line), NEW k \in Nat, k <= Len(source)
    PROVE  SubSeq(source, 1, k) \in Seq(Line) /\ Len(SubSeq(source, 1, k)) = k
<1>1. Len(source) \in Nat /\ \A i \in 1..Len(source) : source[i] \in Line
  BY LenProperties, ElementOfSeq
<1>2. \A i \in 1..k : source[i] \in Line
  BY <1>1
<1> DEFINE head == SubSeq(source, 1, k)
<1>3. head \in Seq(Line) /\ Len(head) = IF 1 <= k THEN k - 1 + 1 ELSE 0
  BY <1>2, SubSeqProperties
<1> HIDE DEF head
<1>4. head \in Seq(Line) /\ Len(head) = k
  BY <1>3
<1>5. QED
  BY <1>4 DEF head

\* The sides of a hunk are as long as its header says.
ExactHunk(h) == Len(Side(h, OldKind)) = h.old_count /\ Len(Side(h, NewKind)) = h.new_count

LEMMA Joins ==
    ASSUME NEW a \in Seq(Line), NEW b \in Seq(Line), NEW c \in Seq(Line)
    PROVE  a \o b \in Seq(Line) /\ (a \o b) \o c = a \o (b \o c)
<1>1. a \o b \in Seq(Line)
  BY ConcatProperties
<1>2. (a \o b) \o c = a \o (b \o c)
  BY ConcatAssociative
<1>3. QED
  BY <1>1, <1>2

LEMMA Behind ==
    ASSUME NEW whole, NEW a \in Seq(Line), NEW b \in Seq(Line), whole = a \o b, NEW n, n = Len(a)
    PROVE  /\ Len(whole) = n + Len(b) /\ SubSeq(whole, n + 1, n + Len(b)) = b
           /\ \A k \in 0..n : SubSeq(whole, 1, k) = SubSeq(a, 1, k)
BY Pieces

\* Three parts, and four, one behind the other.
Three(a, b, c) == (a \o b) \o c
Written(a, gap, new, rest) == ((a \o gap) \o new) \o rest

\* The new side in the place of the lines behind from, up to to.
Around(new, edited, from, to) == SubSeq(edited, 1, from) \o new \o SubSeq(edited, to + 1, Len(edited))

LEMMA Together ==
    ASSUME NEW a \in Seq(Line), NEW gap \in Seq(Line), NEW new \in Seq(Line), NEW rest \in Seq(Line)
    PROVE  Three(gap, new, rest) \in Seq(Line) /\ Written(a, gap, new, rest) = a \o Three(gap, new, rest)
<1>1. PICK m : m = gap \o new
  OBVIOUS
<1>2. m \in Seq(Line) /\ a \o gap \in Seq(Line) /\ (a \o gap) \o new = a \o m
  BY ZenonT(60), <1>1, Joins
<1>3. (a \o m) \o rest = a \o (m \o rest) /\ m \o rest \in Seq(Line)
  BY SMTT(60), <1>2, Joins
<1>4. QED
  BY <1>1, <1>2, <1>3 DEF Three, Written

\* What the hunks behind it made of the file is the part that the loop has read when it
\* gets there, and some rest; what the loop writes in the end is what it has written by
\* then, and the same rest.
Alike(read, written, edited, output) ==
    \E more \in Seq(Line) : edited = read \o more /\ output = written \o more

\* It is so before a hunk when it is so behind it.
LEMMA SameRest ==
    ASSUME NEW source \in Seq(Line), NEW hunk \in Hunk, ExactHunk(hunk), NEW acc \in HunkState,
           ApplyHunk(source, hunk, acc).fits,
           NEW edited, NEW output,
           Alike(SubSeq(source, 1, ApplyHunk(source, hunk, acc).cursor),
                 ApplyHunk(source, hunk, acc).output, edited, output)
    PROVE  Alike(SubSeq(source, 1, acc.cursor), acc.output, Replaced(hunk, edited), output)
<1> DEFINE from == Index(hunk.old_start, hunk.old_count)
           old == Side(hunk, OldKind)
           new == Side(hunk, NewKind)
           end == ApplyHunk(source, hunk, acc)
<1>1. /\ from \in Nat /\ acc.cursor <= from /\ from + Len(old) <= Len(source)
      /\ end.cursor = from + Len(old)
      /\ end.output = acc.output \o SubSeq(source, acc.cursor + 1, from) \o new
  <2> DEFINE whole == [ fits |-> TRUE, cursor |-> from + Len(old),
                        output |-> acc.output \o SubSeq(source, acc.cursor + 1, from) \o new ]
  <2>1. from \in Nat /\ acc.cursor <= from /\ from + Len(old) <= Len(source) /\ end = whole
    BY HunkFits, Zenon
  <2>2. whole.cursor = from + Len(old) /\ whole.output = acc.output \o SubSeq(source, acc.cursor + 1, from) \o new
    <3> HIDE DEF from, old, new
    <3> QED
      OBVIOUS
  <2> HIDE DEF whole, end, from, old, new
  <2>3. QED
    BY <2>1, <2>2
<1>2. old \in Seq(Line) /\ new \in Seq(Line)
  BY HunkSides, Zenon
<1>3. /\ acc.output \in Seq(Line) /\ acc.cursor \in Nat /\ Len(source) \in Nat
      /\ Len(old) \in Nat /\ Len(old) = hunk.old_count
  <2>1. acc.output \in Seq(Line) /\ acc.cursor \in Nat
    BY DEF HunkState
  <2>2. Len(old) = hunk.old_count
    BY DEF ExactHunk
  <2>3. Len(source) \in Nat /\ Len(old) \in Nat
    BY <1>2, LenProperties
  <2>4. QED
    BY <2>1, <2>2, <2>3
<1>4. Replaced(hunk, edited) =
          SubSeq(edited, 1, from) \o new \o SubSeq(edited, from + Len(old) + 1, Len(edited))
  BY <1>3, Zenon DEF Replaced
<1>5. PICK rest \in Seq(Line) : edited = SubSeq(source, 1, end.cursor) \o rest /\ output = end.output \o rest
  BY Zenon DEF Alike
<1> HIDE DEF from, old, new, end
<1>6. PICK to \in Nat : to = from + Len(old) /\ from <= to /\ from <= Len(source) /\ to <= Len(source)
  BY <1>1, <1>3
<1> DEFINE gap == SubSeq(source, acc.cursor + 1, from)
           read == SubSeq(source, 1, acc.cursor)
           head == SubSeq(source, 1, from)
           before == SubSeq(source, 1, to)
           cut == SubSeq(source, from + 1, to)
           more == Three(gap, new, rest)
<1>7. gap \in Seq(Line) /\ read \in Seq(Line) /\ head = read \o gap
  BY <1>1, <1>3, <1>6, Between
<1>8. before \in Seq(Line) /\ Len(before) = to /\ head \in Seq(Line) /\ Len(head) = from
  BY <1>1, <1>3, <1>6, Upto
<1>9. cut \in Seq(Line) /\ before = head \o cut
  BY ZenonT(60), <1>1, <1>3, <1>6, Between
<1>10. edited = before \o rest
  BY <1>1, <1>5, <1>6
<1>11. output = Written(acc.output, gap, new, rest)
  BY <1>1, <1>5 DEF Written
<1> HIDE DEF gap, read, head, before, cut
<1>12. new \in Seq(Line) /\ rest \in Seq(Line) /\ acc.output \in Seq(Line)
  BY <1>2, <1>3
<1>13. Replaced(hunk, edited) = Around(new, edited, from, to)
  BY <1>4, <1>6 DEF Around
<1>14. /\ Len(edited) = to + Len(rest) /\ SubSeq(edited, to + 1, to + Len(rest)) = rest
       /\ \A k \in 0..to : SubSeq(edited, 1, k) = SubSeq(before, 1, k)
  <2>1. before \in Seq(Line)
    BY <1>8
  <2>2. rest \in Seq(Line) /\ Len(before) = to /\ edited = before \o rest
    BY <1>8, <1>10, <1>12
  <2>3. Len(edited) = to + Len(rest)
    <3>1. Len(before \o rest) = Len(before) + Len(rest)
      BY ONLY <2>1, <2>2, ConcatProperties
    <3>2. QED
      BY ONLY <2>2, <3>1
  <2>4. SubSeq(edited, to + 1, to + Len(rest)) = rest
    BY ONLY <2>1, <2>2, Behind
  <2>5. \A k \in 0..to : SubSeq(edited, 1, k) = SubSeq(before, 1, k)
    BY ONLY <2>1, <2>2, Behind
  <2>6. QED
    BY ONLY <2>3, <2>4, <2>5
<1>15. \A k \in 0..from : SubSeq(before, 1, k) = SubSeq(head, 1, k)
  BY ONLY <1>8, <1>9, Behind
<1>16. SubSeq(head, 1, from) = head
  BY <1>8, SubSeqFull
<1>17. from \in 0..from /\ from \in 0..to
  BY <1>1, <1>6
<1>18. SubSeq(edited, 1, from) = head /\ SubSeq(edited, to + 1, Len(edited)) = rest
  BY <1>14, <1>15, <1>16, <1>17, Zenon
<1>19. Around(new, edited, from, to) = Written(read, gap, new, rest)
  BY ONLY <1>7, <1>18 DEF Written, Around
<1>20. ASSUME NEW a \in Seq(Line)
       PROVE  Three(gap, new, rest) \in Seq(Line) /\ Written(a, gap, new, rest) = a \o Three(gap, new, rest)
  BY ONLY SMTT(60), <1>7, <1>12, <1>20, Together
<1>21. /\ Three(gap, new, rest) \in Seq(Line)
       /\ Replaced(hunk, edited) = read \o Three(gap, new, rest)
       /\ output = acc.output \o Three(gap, new, rest)
  BY ONLY <1>7, <1>11, <1>12, <1>13, <1>19, <1>20
<1>22. QED
  BY <1>21, Zenon DEF read, Alike

(***************************************************************************)
(* The states of the loop when every hunk fits.                             *)
(***************************************************************************)
Runs(file, source, at) ==
    /\ at[0] = Unread
    /\ \A i \in 1..Len(file.hunks) : at[i] = ApplyHunk(source, file.hunks[i], at[i - 1])
    /\ \A i \in 0..Len(file.hunks) : at[i] \in HunkState
    /\ at[Len(file.hunks)].fits

LEMMA HunksOfFile ==
    ASSUME NEW file \in PatchFile
    PROVE  /\ Len(file.hunks) \in Nat /\ DOMAIN file.hunks = 1..Len(file.hunks)
           /\ \A i \in 1..Len(file.hunks) : file.hunks[i] \in Hunk
BY LenProperties, ElementOfSeq DEF PatchFile

LEMMA AllFit ==
    ASSUME NEW file \in PatchFile, NEW source \in Seq(Line), NEW at, Runs(file, source, at)
    PROVE  \A i \in 0..Len(file.hunks) : at[i].fits
<1> DEFINE n == Len(file.hunks)
           T == { j \in 0..n : at[n - j].fits }
<1>1. n \in Nat /\ \A i \in 1..n : file.hunks[i] \in Hunk
  BY HunksOfFile
<1>2. /\ at[n].fits /\ \A i \in 0..n : at[i] \in HunkState
      /\ \A i \in 1..n : at[i] = ApplyHunk(source, file.hunks[i], at[i - 1])
  BY DEF Runs
<1>3. ASSUME NEW i \in 1..n, at[i].fits
      PROVE  at[i - 1].fits
  <2>1. at[i - 1] \in HunkState /\ file.hunks[i] \in Hunk /\ ApplyHunk(source, file.hunks[i], at[i - 1]).fits
    BY <1>1, <1>2, <1>3
  <2>2. QED
    BY <2>1, HunkFits
<1> HIDE DEF n
<1>4. 0 \in T
  BY <1>1, <1>2
<1>5. \A j \in 1..n : j - 1 \in T => j \in T
  <2> SUFFICES ASSUME NEW j \in 1..n, j - 1 \in T
               PROVE  j \in T
    OBVIOUS
  <2>1. n - (j - 1) \in 1..n /\ (n - (j - 1)) - 1 = n - j /\ j \in 0..n
    BY <1>1
  <2>2. at[n - (j - 1)].fits
    OBVIOUS
  <2>3. at[(n - (j - 1)) - 1].fits
    BY <1>3, <2>1, <2>2
  <2>4. QED
    BY <2>1, <2>3
<1>6. \A j \in 0..n : j \in T
  <2> HIDE DEF T
  <2> QED
    BY <1>1, <1>4, <1>5, Reached
<1>7. ASSUME NEW i \in 0..n
      PROVE  at[i].fits
  <2>1. n - i \in 0..n /\ n - (n - i) = i
    BY <1>1
  <2>2. n - i \in T
    BY <1>6, <2>1
  <2>3. QED
    BY <2>1, <2>2
<1>8. QED
  BY <1>7 DEF n

LEMMA EachTurn ==
    ASSUME NEW file \in PatchFile, NEW source \in Seq(Line), NEW at, Runs(file, source, at),
           NEW i \in 1..Len(file.hunks)
    PROVE  LET hunk == file.hunks[i]
               from == Index(hunk.old_start, hunk.old_count)
               old == Side(hunk, OldKind)
           IN  /\ at[i - 1] \in HunkState /\ at[i] \in HunkState /\ hunk \in Hunk
               /\ from \in Nat /\ at[i - 1].cursor <= from /\ from + Len(old) <= Len(source)
               /\ SubSeq(source, from + 1, from + Len(old)) = old
               /\ Len(at[i - 1].output) + (from - at[i - 1].cursor) = Index(hunk.new_start, hunk.new_count)
               /\ at[i].cursor = from + Len(old)
               /\ at[i].output =
                      Three(at[i - 1].output, SubSeq(source, at[i - 1].cursor + 1, from), Side(hunk, NewKind))
               /\ at[i] = ApplyHunk(source, hunk, at[i - 1]) /\ at[i].fits
<1> DEFINE n == Len(file.hunks)
           hunk == file.hunks[i]
           from == Index(hunk.old_start, hunk.old_count)
           old == Side(hunk, OldKind)
           new == Side(hunk, NewKind)
           acc == at[i - 1]
           whole == [ fits |-> TRUE, cursor |-> from + Len(old),
                      output |-> acc.output \o SubSeq(source, acc.cursor + 1, from) \o new ]
<1>1. n \in Nat /\ hunk \in Hunk
  BY HunksOfFile
<1>2. i \in 0..n /\ i - 1 \in 0..n
  BY <1>1
<1>3. acc \in HunkState /\ at[i] \in HunkState /\ at[i] = ApplyHunk(source, hunk, acc)
  BY <1>2 DEF Runs
<1>4. at[i].fits
  BY <1>2, AllFit
<1>5. ApplyHunk(source, hunk, acc).fits
  BY <1>3, <1>4
<1> HIDE DEF hunk, acc
<1>6. /\ from \in Nat /\ acc.cursor <= from /\ from + Len(old) <= Len(source)
      /\ SubSeq(source, from + 1, from + Len(old)) = old
      /\ Len(acc.output) + (from - acc.cursor) = Index(hunk.new_start, hunk.new_count)
      /\ ApplyHunk(source, hunk, acc) = whole
  BY <1>1, <1>3, <1>5, HunkFits, Zenon
<1>7. whole.cursor = from + Len(old) /\ whole.output = acc.output \o SubSeq(source, acc.cursor + 1, from) \o new
  <2> HIDE DEF from, old, new
  <2> QED
    OBVIOUS
<1> HIDE DEF whole, from, old, new
<1>8. at[i].cursor = from + Len(old)
  BY <1>3, <1>6, <1>7
<1>9. at[i].output = acc.output \o SubSeq(source, acc.cursor + 1, from) \o new
  BY <1>3, <1>6, <1>7
<1>10. at[i].output = Three(acc.output, SubSeq(source, acc.cursor + 1, from), new)
  BY <1>9 DEF Three
<1>11. QED
  BY <1>1, <1>3, <1>4, <1>6, <1>8, <1>10, Zenon DEF hunk, acc, from, old, new

LEMMA AppliedTurn ==
    ASSUME NEW file \in PatchFile, NEW source \in Seq(Line), NEW at, Runs(file, source, at),
           NEW i \in 1..Len(file.hunks)
    PROVE  /\ at[i] = ApplyHunk(source, file.hunks[i], at[i - 1]) /\ at[i - 1] \in HunkState
           /\ file.hunks[i] \in Hunk /\ at[i].fits
  BY EachTurn

LEMMA TurnWrites ==
    ASSUME NEW file \in PatchFile, NEW source \in Seq(Line), NEW at, Runs(file, source, at),
           NEW i \in 1..Len(file.hunks), NEW h, h = file.hunks[i], NEW acc, acc = at[i - 1],
           NEW from, from = Index(h.old_start, h.old_count)
    PROVE  at[i].output = Three(acc.output, SubSeq(source, acc.cursor + 1, from), Side(h, NewKind))
BY EachTurn

Exact(file) == \A i \in DOMAIN file.hunks : ExactHunk(file.hunks[i])

\* The cursor never goes back, nor behind the end.
LEMMA Cursors ==
    ASSUME NEW file \in PatchFile, NEW source \in Seq(Line), NEW at, Runs(file, source, at)
    PROVE  /\ \A i \in 0..Len(file.hunks) : at[i].cursor \in Nat /\ at[i].cursor <= Len(source)
           /\ \A i, j \in 0..Len(file.hunks) : i <= j => at[i].cursor <= at[j].cursor
<1> DEFINE n == Len(file.hunks)
           c == [ i \in 0..n |-> at[i].cursor ]
<1>1. n \in Nat /\ Len(source) \in Nat
  BY HunksOfFile, LenProperties
<1>2. \A i \in 0..n : c[i] \in Nat
  BY DEF Runs, HunkState
<1>3. ASSUME NEW i \in 1..n
      PROVE  c[i - 1] <= c[i] /\ c[i] <= Len(source)
  <2> DEFINE from == Index(file.hunks[i].old_start, file.hunks[i].old_count)
             long == Len(Side(file.hunks[i], OldKind))
  <2>1. /\ from \in Nat /\ at[i - 1].cursor <= from /\ from + long <= Len(source)
        /\ at[i].cursor = from + long /\ file.hunks[i] \in Hunk
    BY EachTurn
  <2>2. Side(file.hunks[i], OldKind) \in Seq(Line)
    BY <2>1, HunkSides, Zenon
  <2>3. long \in Nat
    BY <2>2, LenProperties
  <2>4. i \in 0..n /\ i - 1 \in 0..n
    BY <1>1
  <2>5. c[i] = at[i].cursor /\ c[i - 1] = at[i - 1].cursor /\ c[i - 1] \in Nat
    BY <1>2, <2>4
  <2> HIDE DEF from, long, c
  <2>6. PICK a \in Nat : a = c[i - 1]
    BY <2>5
  <2>7. a <= from /\ c[i] = from + long /\ from \in Nat /\ from + long <= Len(source)
    BY <2>1, <2>5, <2>6
  <2>8. a <= from + long
    BY <2>3, <2>7
  <2>9. QED
    BY <2>6, <2>7, <2>8
<1>4. c[0] = 0
  BY <1>1 DEF Runs, Unread
<1> HIDE DEF c, n
<1>5. \A i \in 0..n : c[i] <= Len(source)
  BY <1>1, <1>3, <1>4
<1>6. ASSUME NEW i \in 0..n, NEW j \in 0..n, i <= j
      PROVE  c[i] <= c[j]
  <2> DEFINE T == { k \in 0..(j - i) : c[i] <= c[i + k] }
  <2>1. 0 \in T
    BY <1>1, <1>2, <1>6
  <2>2. \A k \in 1..(j - i) : k - 1 \in T => k \in T
    <3> SUFFICES ASSUME NEW k \in 1..(j - i), k - 1 \in T
                 PROVE  k \in T
      OBVIOUS
    <3>1. i + k \in 1..n /\ (i + k) - 1 = i + (k - 1) /\ k \in 0..(j - i) /\ i + k \in 0..n /\ i + (k - 1) \in 0..n
      BY <1>1, <1>6
    <3>2. c[i] <= c[i + (k - 1)]
      OBVIOUS
    <3>3. c[i + (k - 1)] <= c[i + k]
      BY <1>3, <3>1
    <3>4. c[i] \in Nat /\ c[i + (k - 1)] \in Nat /\ c[i + k] \in Nat
      BY <1>2, <1>6, <3>1
    <3>5. c[i] <= c[i + k]
      BY <3>2, <3>3, <3>4
    <3>6. QED
      BY <3>1, <3>5
  <2>3. j - i \in Nat
    BY <1>1, <1>6
  <2>4. \A k \in 0..(j - i) : k \in T
    <3> HIDE DEF T
    <3> QED
      BY <2>1, <2>2, <2>3, Reached
  <2>5. c[i] <= c[i + (j - i)] /\ i + (j - i) = j
    BY <1>1, <1>6, <2>3, <2>4
  <2>6. QED
    BY <2>5
<1>7. \A i \in 0..n : c[i] = at[i].cursor
  BY DEF c
<1>8. QED
  BY <1>2, <1>5, <1>6, <1>7 DEF n

LEMMA HunksApart ==
    ASSUME NEW file \in PatchFile, Exact(file), NEW source \in Seq(Line), NEW at, Runs(file, source, at)
    PROVE  Apart(file.hunks)
<1> DEFINE n == Len(file.hunks)
           from(i) == Index(file.hunks[i].old_start, file.hunks[i].old_count)
<1>1. n \in Nat /\ DOMAIN file.hunks = 1..n
  BY HunksOfFile
<1>2. ASSUME NEW i \in 1..n, NEW j \in 1..n, i < j
      PROVE  from(i) + file.hunks[i].old_count <= from(j)
  <2>1. at[i].cursor = from(i) + Len(Side(file.hunks[i], OldKind))
    BY EachTurn
  <2>2. Len(Side(file.hunks[i], OldKind)) = file.hunks[i].old_count
    BY <1>1 DEF Exact, ExactHunk
  <2>3. at[j - 1].cursor <= from(j) /\ from(j) \in Nat
    BY EachTurn, Zenon
  <2>4. i \in 0..n /\ j - 1 \in 0..n /\ i <= j - 1
    BY <1>1, <1>2
  <2>5. at[i].cursor <= at[j - 1].cursor /\ at[i].cursor \in Nat /\ at[j - 1].cursor \in Nat
    BY <2>4, Cursors
  <2> HIDE DEF from
  <2>6. at[i].cursor <= from(j)
    BY <2>3, <2>5
  <2>7. QED
    BY <2>1, <2>2, <2>6, Zenon
<1>3. QED
  BY <1>1, <1>2 DEF Apart

\* Up to the i-th hunk, the loop and the replacement have the same ahead of them.
AlikeAhead(source, at, edited, output, i) ==
    Alike(SubSeq(source, 1, at[i].cursor), at[i].output, edited[i + 1], output)

\* Counting down from n.
LEMMA CountsDown ==
    ASSUME NEW n \in Nat
    PROVE  /\ n \in 0..n /\ 0 \in 0..n /\ n - 0 = n
           /\ \A i \in 1..n : i \in 0..n /\ i - 1 \in 0..n /\ (i - 1) + 1 = i
           /\ \A j \in 1..n : /\ j \in 0..n /\ n - (j - 1) \in 1..n
                              /\ (n - (j - 1)) - 1 = n - j
           /\ \A i \in 0..n : n - i \in 0..n /\ n - (n - i) = i
  OBVIOUS

LEMMA SameAhead ==
    ASSUME NEW file \in PatchFile, Exact(file), NEW source \in Seq(Line), NEW at, Runs(file, source, at),
           NEW edited, edited[Len(file.hunks) + 1] = source,
           \A i \in 1..Len(file.hunks) : edited[i] = Replaced(file.hunks[i], edited[i + 1]),
           NEW output,
           output = at[Len(file.hunks)].output
                        \o SubSeq(source, at[Len(file.hunks)].cursor + 1, Len(source))
    PROVE  \A i \in 0..Len(file.hunks) : AlikeAhead(source, at, edited, output, i)
<1> DEFINE n == Len(file.hunks)
           T == { j \in 0..n : AlikeAhead(source, at, edited, output, n - j) }
<1>1. /\ n \in Nat /\ DOMAIN file.hunks = 1..n /\ edited[n + 1] = source
      /\ output = at[n].output \o SubSeq(source, at[n].cursor + 1, Len(source))
      /\ \A i \in 1..n : edited[i] = Replaced(file.hunks[i], edited[i + 1])
  BY HunksOfFile
<1>0. n \in Nat
  BY HunksOfFile
<1>a. /\ n \in 0..n /\ 0 \in 0..n /\ n - 0 = n
      /\ \A i \in 1..n : i \in 0..n /\ i - 1 \in 0..n /\ (i - 1) + 1 = i
      /\ \A j \in 1..n : /\ j \in 0..n /\ n - (j - 1) \in 1..n
                         /\ (n - (j - 1)) - 1 = n - j
      /\ \A i \in 0..n : n - i \in 0..n /\ n - (n - i) = i
  <2> HIDE DEF n
  <2> QED
    BY <1>0, CountsDown, Zenon
<1>2. Len(source) \in Nat /\ SubSeq(source, 1, Len(source)) = source
  BY LenProperties, SubSeqFull
<1>3. ASSUME NEW i \in 1..n, AlikeAhead(source, at, edited, output, i)
      PROVE  AlikeAhead(source, at, edited, output, i - 1)
  <2> DEFINE hunk == file.hunks[i]
             acc == at[i - 1]
  <2>1. /\ at[i] = ApplyHunk(source, hunk, acc) /\ acc \in HunkState /\ hunk \in Hunk /\ at[i].fits
    BY AppliedTurn, Zenon
  <2>2. ExactHunk(hunk) /\ edited[i] = Replaced(hunk, edited[i + 1]) /\ (i - 1) + 1 = i
    <3>1. (i - 1) + 1 = i
      BY <1>a, Zenon
    <3>2. ExactHunk(hunk) /\ edited[i] = Replaced(hunk, edited[i + 1])
      BY <1>1, Zenon DEF Exact
    <3>3. QED
      BY <3>1, <3>2, Zenon
  <2>3. PICK now : now = edited[i + 1]
    OBVIOUS
  <2> HIDE DEF hunk, acc
  <2>4. /\ ApplyHunk(source, hunk, acc).fits
        /\ Alike(SubSeq(source, 1, ApplyHunk(source, hunk, acc).cursor),
                 ApplyHunk(source, hunk, acc).output, now, output)
    BY <1>3, <2>1, <2>3 DEF AlikeAhead
  <2>5. Alike(SubSeq(source, 1, acc.cursor), acc.output, Replaced(hunk, now), output)
    BY <2>1, <2>2, <2>4, SameRest
  <2>6. edited[(i - 1) + 1] = Replaced(hunk, now)
    BY <2>2, <2>3
  <2>7. QED
    BY <2>5, <2>6, Zenon DEF AlikeAhead, acc
<1> HIDE DEF n
<1>4. 0 \in T
  <2>1. at[n].cursor \in Nat /\ at[n].cursor <= Len(source)
    BY <1>0, <1>a, Cursors DEF n
  <2> DEFINE read == SubSeq(source, 1, at[n].cursor)
             more == SubSeq(source, at[n].cursor + 1, Len(source))
  <2>2. more \in Seq(Line) /\ SubSeq(source, 1, Len(source)) = read \o more
    <3>1. ASSUME NEW c \in Nat, NEW k \in Nat, c <= k, k <= Len(source)
          PROVE  /\ SubSeq(source, c + 1, k) \in Seq(Line)
                 /\ SubSeq(source, 1, k) = SubSeq(source, 1, c) \o SubSeq(source, c + 1, k)
      BY <3>1, Between
    <3>2. Len(source) <= Len(source)
      BY SMTT(60), <1>2
    <3>3. QED
      BY ONLY <1>2, <2>1, <3>1, <3>2
  <2>3. output = at[n].output \o more
    BY <1>1
  <2> HIDE DEF more, read
  <2>4. edited[n + 1] = read \o more
    BY <1>1, <1>2, <2>2
  <2>5. AlikeAhead(source, at, edited, output, n)
    BY <2>2, <2>3, <2>4, Zenon DEF AlikeAhead, Alike, read
  <2>6. 0 \in 0..n /\ n - 0 = n
    BY <1>a, Zenon
  <2>7. QED
    BY <2>5, <2>6
<1>5. \A j \in 1..n : j - 1 \in T => j \in T
  <2> SUFFICES ASSUME NEW j \in 1..n, j - 1 \in T
               PROVE  j \in T
    OBVIOUS
  <2>1. n - (j - 1) \in 1..n /\ (n - (j - 1)) - 1 = n - j /\ j \in 0..n
    BY <1>a, Zenon
  <2>2. AlikeAhead(source, at, edited, output, n - (j - 1))
    OBVIOUS
  <2>3. AlikeAhead(source, at, edited, output, (n - (j - 1)) - 1)
    BY <1>3, <2>1, <2>2
  <2>4. QED
    BY <2>1, <2>3
<1>6. \A j \in 0..n : j \in T
  <2> HIDE DEF T
  <2> QED
    BY <1>1, <1>4, <1>5, Reached
<1>7. ASSUME NEW i \in 0..n
      PROVE  AlikeAhead(source, at, edited, output, i)
  <2>1. n - i \in 0..n /\ n - (n - i) = i
    BY <1>a, Zenon
  <2>2. n - i \in T
    BY <1>6, <2>1
  <2>3. QED
    BY <2>1, <2>2
<1>8. QED
  BY <1>7 DEF n

\* What the loop writes is what the replacements make of the file, and each hunk
\* stands in both where its header says.
LEMMA HunksAsWritten ==
    ASSUME NEW file \in PatchFile, Exact(file), NEW source \in Seq(Line), Hunks(file, source).fits
    PROVE  /\ Hunks(file, source).output = Edited(file, source)
           /\ Apart(file.hunks)
           /\ \A i \in DOMAIN file.hunks :
                  LET h == file.hunks[i]
                  IN  /\ Stands(Side(h, OldKind), h.old_start, h.old_count, source)
                      /\ Stands(Side(h, NewKind), h.new_start, h.new_count, Edited(file, source))
<1> DEFINE n == Len(file.hunks)
           output == Hunks(file, source).output
<1>0. file \in PatchFile /\ source \in Seq(Line)
  OBVIOUS
<1>1. n \in Nat /\ DOMAIN file.hunks = 1..n
  BY HunksOfFile
<1>2. PICK at : /\ at[0] = Unread
                /\ \A i \in 1..n : at[i] = ApplyHunk(source, file.hunks[i], at[i - 1])
                /\ \A i \in 0..n : at[i] \in HunkState
                /\ Hunks(file, source) =
                     LET end == at[n]
                     IN  [ fits |-> end.fits,
                           output |-> end.output \o SubSeq(source, end.cursor + 1, Len(source)) ]
  BY HunksUpTo
<1>3. at[n].fits /\ output = at[n].output \o SubSeq(source, at[n].cursor + 1, Len(source))
  <2> DEFINE whole == at[n].output \o SubSeq(source, at[n].cursor + 1, Len(source))
  <2>1. Hunks(file, source) = [ fits |-> at[n].fits, output |-> whole ]
    BY <1>2, Zenon
  <2>2. /\ [ fits |-> at[n].fits, output |-> whole ].fits = at[n].fits
        /\ [ fits |-> at[n].fits, output |-> whole ].output = whole
    <3> HIDE DEF whole
    <3> QED
      OBVIOUS
  <2>3. QED
    BY <2>1, <2>2, Zenon
<1>4. Runs(file, source, at)
  BY <1>2, <1>3 DEF Runs
<1>5. PICK edited : /\ edited[n + 1] = source
                    /\ \A i \in 1..n : edited[i] = Replaced(file.hunks[i], edited[i + 1])
                    /\ Edited(file, source) = edited[1]
  BY EditedFrom
<1>6. \A i \in 0..n : AlikeAhead(source, at, edited, output, i)
  <2> HIDE DEF output
  <2> QED
    BY <1>3, <1>4, <1>5, SameAhead, Zenon
<1> HIDE DEF output
<1>7. output = Edited(file, source)
  <2>1. 0 \in 0..n /\ 0 + 1 = 1
    BY <1>1
  <2>2. AlikeAhead(source, at, edited, output, 0)
    BY <1>6, <2>1
  <2>3. PICK more \in Seq(Line) : edited[1] = SubSeq(source, 1, at[0].cursor) \o more /\ output = at[0].output \o more
    BY <2>1, <2>2, Zenon DEF AlikeAhead, Alike
  <2>4. at[0].cursor = 0 /\ at[0].output = << >>
    BY <1>2 DEF Unread
  <2>5. SubSeq(source, 1, 0) = << >>
    BY SubSeqEmpty
  <2>6. edited[1] = << >> \o more /\ output = << >> \o more
    BY <2>3, <2>4, <2>5
  <2>7. QED
    BY <1>5, <2>6
<1>8. Apart(file.hunks)
  BY <1>4, HunksApart
<1>9. ASSUME NEW i \in 1..n
      PROVE  LET h == file.hunks[i]
             IN  /\ Stands(Side(h, OldKind), h.old_start, h.old_count, source)
                 /\ Stands(Side(h, NewKind), h.new_start, h.new_count, output)
  <2> DEFINE h == file.hunks[i]
             from == Index(h.old_start, h.old_count)
             old == Side(h, OldKind)
             new == Side(h, NewKind)
             acc == at[i - 1]
             gap == SubSeq(source, acc.cursor + 1, from)
             a == acc.output \o gap
  <2>1. /\ acc \in HunkState /\ h \in Hunk /\ from \in Nat /\ acc.cursor <= from
        /\ from + Len(old) <= Len(source)
    BY ONLY <1>4, <1>0, <1>9, EachTurn
  <2>16. SubSeq(source, from + 1, from + Len(old)) = old
    BY ONLY <1>4, <1>0, <1>9, EachTurn
  <2>17. Len(acc.output) + (from - acc.cursor) = Index(h.new_start, h.new_count)
    BY ONLY <1>4, <1>0, <1>9, EachTurn
  <2>0. at[i].output = a \o new
    <3>3. at[i].output = Three(acc.output, gap, new)
      BY <1>4, TurnWrites
    <3>2. QED
      BY <3>3 DEF Three
  <2>2. Len(old) = h.old_count /\ Len(new) = h.new_count
    BY <1>1 DEF Exact, ExactHunk
  <2>3. old \in Seq(Line) /\ new \in Seq(Line)
    BY <2>1, HunkSides, Zenon
  <2>4. Stands(old, h.old_start, h.old_count, source)
    BY <2>1, <2>2, <2>16 DEF Stands
  <2>5. PICK more \in Seq(Line) : output = at[i].output \o more
    <3>1. i \in 0..n
      BY <1>1
    <3>2. QED
      BY <1>6, <3>1, Zenon DEF AlikeAhead, Alike
  <2>6. acc.output \in Seq(Line) /\ acc.cursor \in Nat /\ Len(source) \in Nat /\ Len(old) \in Nat
        /\ Len(acc.output) \in Nat /\ Len(new) \in Nat
    BY <2>1, <2>3, LenProperties DEF HunkState
  <2> HIDE DEF h, from, old, new, acc
  <2>7. from <= Len(source)
    BY <2>1, <2>6
  <2>8. gap \in Seq(Line) /\ Len(gap) = from - acc.cursor
    BY <2>1, <2>6, <2>7, Between
  <2> HIDE DEF gap
  <2>9. a \in Seq(Line) /\ Len(a) = Len(acc.output) + Len(gap)
    BY <2>6, <2>8, Pieces
  <2> HIDE DEF a
  <2>10. Len(a) = Index(h.new_start, h.new_count)
    BY <2>1, <2>8, <2>9, <2>17
  <2>11. output = (a \o new) \o more
    BY <2>0, <2>5
  <2>12. SubSeq(output, Len(a) + 1, Len(a) + Len(new)) = new
    BY <2>3, <2>9, <2>11, Middle
  <2>13. Len(a) + Len(new) <= Len(output)
    <3>1. a \o new \in Seq(Line) /\ Len(a \o new) = Len(a) + Len(new) /\ Len(a) \in Nat
      BY ZenonT(60), <2>3, <2>9, Pieces
    <3>2. PICK b \in Seq(Line) : b = a \o new
      BY <3>1
    <3>3. Len(b \o more) = Len(b) + Len(more) /\ Len(more) \in Nat /\ output = b \o more
      BY <2>11, <3>2, Pieces
    <3>4. Len(b) = Len(a) + Len(new) /\ Len(b) \in Nat
      BY <2>6, <3>1, <3>2
    <3>5. QED
      BY <3>3, <3>4
  <2>14. Stands(new, h.new_start, h.new_count, output)
    BY <2>2, <2>10, <2>12, <2>13 DEF Stands
  <2>15. QED
    BY <2>4, <2>14 DEF h, old, new
<1>10. QED
  BY <1>1, <1>7, <1>8, <1>9 DEF output

(***************************************************************************)
(* The hunks are exact: a closed one has the lines that its header counts,  *)
(* an open one lacks those that open counts.                                *)
(***************************************************************************)
Lacks(h, o) == Len(Side(h, OldKind)) + o[1] = h.old_count /\ Len(Side(h, NewKind)) + o[2] = h.new_count

Lacking(file, o) ==
    LET n == Len(file.hunks)
    IN  /\ \A j \in 1..(n - 1) : ExactHunk(file.hunks[j])
        /\ Lacks(file.hunks[n], o)

Counted ==
    /\ \A i \in DOMAIN diff : i < Len(diff) \/ Outside \/ writing # "text" => Exact(diff[i])
    /\ writing = "text" /\ ~Outside => Lacking(Current, open)

LEMMA SideLengths ==
    ASSUME NEW hunk, hunk.lines \in Seq(PatchLine), NEW kinds
    PROVE  /\ Len(Side(hunk, kinds)) = HowMany(Of(kinds, Line), hunk.lines)
           /\ Len(Side(hunk, kinds)) \in Nat
<1>1. Side(hunk, kinds) \in Seq(Line) /\ HowMany(Line, Side(hunk, kinds)) = HowMany(Of(kinds, Line), hunk.lines)
  BY SideIs
<1>2. HowMany(Line, Side(hunk, kinds)) = Len(Side(hunk, kinds)) /\ Len(Side(hunk, kinds)) \in Nat
  BY <1>1, HowManyOfAll, LenProperties
<1>3. QED
  BY <1>1, <1>2

LEMMA SideLonger ==
    ASSUME NEW hunk, hunk.lines \in Seq(PatchLine), NEW line \in PatchLine, NEW kinds,
           NEW longer, longer.lines = Append(hunk.lines, line)
    PROVE  Len(Side(longer, kinds)) = Len(Side(hunk, kinds)) + (IF line.kind \in kinds THEN 1 ELSE 0)
<1>1. longer.lines \in Seq(PatchLine)
  BY AppendProperties
<1>2. /\ Len(Side(longer, kinds)) = HowMany(Of(kinds, Line), longer.lines)
      /\ Len(Side(hunk, kinds)) = HowMany(Of(kinds, Line), hunk.lines)
  BY <1>1, SideLengths
<1>3. HowMany(Of(kinds, Line), Append(hunk.lines, line)) =
          HowMany(Of(kinds, Line), hunk.lines) + (IF line \in Of(kinds, Line) THEN 1 ELSE 0)
  BY HowManyAppended
<1>4. line \in Of(kinds, Line) <=> line.kind \in kinds
  BY DEF Of, PatchLine
<1>5. QED
  BY <1>2, <1>3, <1>4

LEMMA LacksNothing ==
    ASSUME NEW file \in PatchFile, Lacking(file, << 0, 0 >>)
    PROVE  Exact(file)
<1> DEFINE n == Len(file.hunks)
<1>1. n \in Nat /\ DOMAIN file.hunks = 1..n /\ \A i \in 1..n : file.hunks[i] \in Hunk
  BY HunksOfFile
<1>2. ASSUME NEW i \in 1..n
      PROVE  ExactHunk(file.hunks[i])
  <2>1. CASE i \in 1..(n - 1)
    BY <2>1 DEF Lacking
  <2>2. CASE i = n
    <3>1. Lacks(file.hunks[n], << 0, 0 >>) /\ file.hunks[n] \in Hunk
      BY <1>1, <2>2 DEF Lacking
    <3>2. file.hunks[n].lines \in Seq(PatchLine)
      BY <3>1 DEF Hunk
    <3>3. Len(Side(file.hunks[n], OldKind)) \in Nat /\ Len(Side(file.hunks[n], NewKind)) \in Nat
      BY <3>2, SideLengths, Zenon
    <3>4. QED
      BY <2>2, <3>1, <3>3 DEF Lacks, ExactHunk
  <2>3. QED
    BY <1>1, <2>1, <2>2
<1>3. QED
  BY <1>1, <1>2 DEF Exact

\* The same patch with another last file.
LEMMA CountedLine ==
    ASSUME PatchInv, Counted, writing = "text", Continue, diff # << >>, NEW file \in PatchFile, diff' = WithCurrent(file),
           Outside' => Exact(file), ~Outside' => Lacking(file, open')
    PROVE  Counted'
<1> DEFINE n == Len(diff)
<1>1. diff \in Seq(PatchFile)
  BY DEF PatchInv, PatchTyped
<1>2. n \in Nat \ { 0 } /\ DOMAIN diff = 1..n
  BY <1>1, LenProperties
<1>3. /\ diff' \in Seq(PatchFile) /\ Len(diff') = n /\ diff'[n] = file
      /\ \A i \in 1..n : i # n => diff'[i] = diff[i]
  <2>1. n \in 1..Len(diff)
    BY <1>2
  <2>2. QED
    BY <1>1, <2>1, ExceptSeq DEF WithCurrent
<1>4. DOMAIN diff' = 1..n
  BY <1>3, LenProperties
<1>5. Current' = file
  BY <1>3 DEF Current, Last
<1>6. ASSUME NEW i \in DOMAIN diff', i < Len(diff') \/ Outside' \/ writing' # "text"
      PROVE  Exact(diff'[i])
  <2>1. CASE i = n
    <3>0. ~(i < Len(diff'))
      <4>1. i = n /\ Len(diff') = n /\ n \in Nat
        BY <1>2, <1>3, <2>1
      <4> HIDE DEF n
      <4>2. ~(n < n)
        BY <4>1
      <4>3. QED
        BY <4>1, <4>2, Zenon
    <3>1. Outside' \/ writing' # "text"
      BY <1>6, <3>0, Zenon
    <3>2. writing' = writing
      BY DEF Continue
    <3>3. CASE Outside'
      BY <1>3, <2>1, <3>3
    <3>4. CASE ~Outside'
      <4>1. writing # "text"
        BY <3>1, <3>2, <3>4
      <4>2. QED
        BY <4>1
    <3>5. QED
      BY <3>3, <3>4
  <2>2. CASE i # n
    <3>1. i \in 1..n
      BY <1>4, <1>6
    <3>2. i \in DOMAIN diff /\ i < Len(diff)
      BY <1>2, <2>2, <3>1
    <3>3. diff'[i] = diff[i]
      BY <1>3, <2>2, <3>1
    <3>4. Exact(diff[i])
      BY <3>2 DEF Counted
    <3>5. QED
      BY <3>3, <3>4
  <2>3. QED
    BY <2>1, <2>2
<1>7. QED
  BY <1>5, <1>6 DEF Counted

LEMMA CountedEnd ==
    ASSUME NEW how, End(how)
    PROVE  Counted'
<1>1. diff' = << >> /\ writing' = "done" /\ DOMAIN << >> = {}
  BY DEF End
<1>2. QED
  BY <1>1 DEF Counted

LEMMA FileHeaderCounts ==
    ASSUME PatchInv, Counted, FileHeader
    PROVE  Counted'
<1>1. PICK path \in Path, sides \in Sides :
           IF path \in Named \/ (diff # << >> /\ Current.hunks = << >>) THEN Refuse
           ELSE /\ diff' = Append(diff, FileOf(path, sides[1], sides[2]))
                /\ open' = NoHunk /\ UNCHANGED next /\ Continue
  BY DEF FileHeader
<1>2. CASE Refuse
  BY <1>2, CountedEnd DEF Refuse
<1>3. CASE ~Refuse
  <2> DEFINE file == FileOf(path, sides[1], sides[2])
             n == Len(diff)
  <2>1. diff' = Append(diff, file) /\ open' = NoHunk /\ Outside
    BY <1>1, <1>3 DEF FileHeader
  <2>2. diff \in Seq(PatchFile) /\ n \in Nat /\ DOMAIN diff = 1..n
    BY LenProperties DEF PatchInv, PatchTyped
  <2>3. Outside'
    BY <2>1 DEF Outside
  <2>4. Exact(file)
    BY DEF FileOf, Exact
  <2> HIDE DEF file
  <2>5. DOMAIN diff' = 1..(n + 1) /\ diff'[n + 1] = file /\ \A i \in 1..n : diff'[i] = diff[i]
    <3>1. diff \in Seq(PatchFile \cup { file }) /\ file \in PatchFile \cup { file }
      <4>1. \A i \in 1..n : diff[i] \in PatchFile
        BY <2>2, ElementOfSeq
      <4>2. QED
        BY <2>2, <4>1
    <3>2. /\ Append(diff, file) \in Seq(PatchFile \cup { file }) /\ Len(Append(diff, file)) = n + 1
          /\ Append(diff, file)[n + 1] = file /\ \A i \in 1..n : Append(diff, file)[i] = diff[i]
      BY <3>1, AppendProperties
    <3>3. DOMAIN Append(diff, file) = 1..(n + 1)
      BY <3>2, LenProperties
    <3>4. QED
      BY <2>1, <3>2, <3>3
  <2>6. ASSUME NEW i \in DOMAIN diff'
        PROVE  Exact(diff'[i])
    <3>1. CASE i = n + 1
      BY <2>4, <2>5, <3>1
    <3>2. CASE i # n + 1
      <4>1. i \in 1..n
        BY <2>2, <2>5, <3>2
      <4>2. Exact(diff[i])
        BY <2>1, <2>2, <4>1 DEF Counted
      <4>3. QED
        BY <2>5, <4>1, <4>2
    <3>3. QED
      BY <3>1, <3>2
  <2>7. QED
    BY <2>3, <2>6 DEF Counted
<1>4. QED
  BY <1>2, <1>3

LEMMA HunkHeaderCounts ==
    ASSUME PatchInv, Counted, HunkHeader
    PROVE  Counted'
<1>1. PICK h \in Headers :
           IF diff = << >> \/ (h[2] > 0 /\ h[1] = 0) \/ (h[4] > 0 /\ h[3] = 0) THEN Refuse
           ELSE /\ diff' = WithCurrent([Current EXCEPT !.hunks = Append(@, HunkOf(h[1], h[2], h[3], h[4]))])
                /\ open' = << h[2], h[4] >> /\ next' = << h[1], h[3] >> /\ Continue
  BY DEF HunkHeader
<1>2. CASE Refuse
  BY <1>2, CountedEnd DEF Refuse
<1>3. CASE ~Refuse
  <2> DEFINE hunk == HunkOf(h[1], h[2], h[3], h[4])
             file == [Current EXCEPT !.hunks = Append(@, hunk)]
             n == Len(Current.hunks)
  <2>1. /\ diff # << >> /\ ~(h[2] > 0 /\ h[1] = 0) /\ ~(h[4] > 0 /\ h[3] = 0)
        /\ diff' = WithCurrent(file)
        /\ open' = << h[2], h[4] >> /\ Continue /\ writing = "text" /\ Outside
    BY <1>1, <1>3 DEF HunkHeader, Writing
  <2>2. h[1] \in Nat /\ h[2] \in Nat /\ h[3] \in Nat /\ h[4] \in Nat
    BY PatchAssumption
  <2>3. << >> \in Seq(PatchLine)
    BY EmptySeq
  <2>4. hunk \in Hunk
    <3>1. (h[2] > 0 => h[1] > 0) /\ (h[4] > 0 => h[3] > 0)
      BY <2>1, <2>2
    <3>2. QED
      BY <2>2, <2>3, <3>1 DEF HunkOf, Hunk
  <2>5. Lacks(hunk, open')
    <3>1. hunk.lines = << >> /\ hunk.old_count = h[2] /\ hunk.new_count = h[4]
      BY DEF HunkOf
    <3> HIDE DEF hunk
    <3>2. hunk.lines \in Seq(PatchLine)
      BY <2>3, <3>1
    <3>3. \A kinds : Len(Side(hunk, kinds)) = HowMany(Of(kinds, Line), hunk.lines)
      BY <3>2, SideLengths
    <3>4. \A kinds : Len(Side(hunk, kinds)) = 0
      BY <3>1, <3>3, HowManyOfNone
    <3>5. 0 + h[2] = h[2] /\ 0 + h[4] = h[4]
      BY <2>2
    <3>6. open'[1] = h[2] /\ open'[2] = h[4]
      BY <2>1
    <3>7. QED
      BY <3>1, <3>4, <3>5, <3>6 DEF Lacks
  <2> HIDE DEF hunk
  <2>6. Current \in PatchFile
    BY <2>1, LastFile DEF PatchInv, PatchTyped
  <2>7. Current.hunks \in Seq(Hunk) /\ n \in Nat /\ DOMAIN Current.hunks = 1..n
    BY <2>6, HunksOfFile DEF PatchFile
  <2>8. /\ Append(Current.hunks, hunk) \in Seq(Hunk) /\ Len(Append(Current.hunks, hunk)) = n + 1
        /\ Append(Current.hunks, hunk)[n + 1] = hunk
        /\ \A i \in 1..n : Append(Current.hunks, hunk)[i] = Current.hunks[i]
    BY <2>4, <2>7, AppendProperties
  <2>9. file \in PatchFile /\ file.hunks = Append(Current.hunks, hunk)
    BY <2>6, <2>8 DEF PatchFile
  <2> HIDE DEF file
  <2>10. Exact(Current)
    <3>1. diff \in Seq(PatchFile)
      BY DEF PatchInv, PatchTyped
    <3>2. Len(diff) \in DOMAIN diff
      BY <2>1, <3>1, LenProperties
    <3>3. Exact(diff[Len(diff)])
      BY <2>1, <3>2 DEF Counted
    <3>4. QED
      BY <3>3 DEF Current, Last
  <2>11. Lacking(file, open')
    <3>1. Len(file.hunks) = n + 1 /\ file.hunks[n + 1] = hunk /\ (n + 1) - 1 = n
      BY <2>7, <2>8, <2>9
    <3>2. \A j \in 1..n : ExactHunk(file.hunks[j])
      BY <2>7, <2>8, <2>9, <2>10 DEF Exact
    <3> HIDE DEF n
    <3>3. QED
      BY <2>5, <3>1, <3>2 DEF Lacking
  <2>12. Outside' => Exact(file)
    <3> SUFFICES ASSUME Outside'
                 PROVE  Exact(file)
      OBVIOUS
    <3>1. open' # NoHunk
      BY <2>1, <2>2, NoHunkIsNone
    <3>2. open' = << 0, 0 >>
      BY <3>1 DEF Outside
    <3>3. QED
      BY <2>9, <2>11, <3>2, LacksNothing
  <2>13. QED
    BY <2>1, <2>9, <2>11, <2>12, CountedLine
<1>4. QED
  BY <1>2, <1>3

\* A line of the open hunk is one that it lacked.
LEMMA HunkLineCounts ==
    ASSUME PatchInv, Counted, HunkLine
    PROVE  Counted'
<1> DEFINE Old(kind) == IF kind \in OldKind THEN 1 ELSE 0
           New(kind) == IF kind \in NewKind THEN 1 ELSE 0
           TheLine(kind, content) ==
               [ kind |-> kind, content |-> content, old |-> Old(kind) * next[1], new |-> New(kind) * next[2] ]
           h == Len(Current.hunks)
           With(line) == [Current EXCEPT !.hunks[h].lines = Append(@, line)]
<1>1. PICK kind \in { "context", "removed", "added" }, content \in Line :
           IF Old(kind) > open[1] \/ New(kind) > open[2] THEN Refuse
           ELSE /\ diff' = WithCurrent(With(TheLine(kind, content)))
                /\ open' = << open[1] - Old(kind), open[2] - New(kind) >>
                /\ next' = << next[1] + Old(kind), next[2] + New(kind) >> /\ Continue
  BY DEF HunkLine
<1>2. CASE Refuse
  BY <1>2, CountedEnd DEF Refuse
<1>3. CASE ~Refuse
  <2> DEFINE line == TheLine(kind, content)
             old == Old(kind)
             new == New(kind)
             before == Current.hunks[h]
             lines == Append(Current.hunks[h].lines, line)
             hunk == [Current.hunks[h] EXCEPT !.lines = lines]
             file == With(line)
  <2>1. /\ ~(old > open[1]) /\ ~(new > open[2])
        /\ diff' = WithCurrent(file)
        /\ open' = << open[1] - old, open[2] - new >> /\ Continue
    BY <1>1, <1>3
  <2>2. /\ writing = "text" /\ ~Outside /\ open # NoHunk /\ open \in Nat \X Nat /\ next \in Nat \X Nat
        /\ diff \in Seq(PatchFile) /\ diff # << >> /\ Current.hunks # << >>
    BY DEF HunkLine, Writing, Outside, PatchInv, PatchTyped, InHunk
  <2>3. /\ open[1] \in Nat /\ open[2] \in Nat /\ next[1] \in Nat /\ next[2] \in Nat
        /\ old \in { 0, 1 } /\ new \in { 0, 1 }
    BY <2>2
  <2>4. line \in PatchLine /\ line.kind = kind
    <3>1. old * next[1] \in Nat /\ new * next[2] \in Nat
      <4>1. \A m \in { 0, 1 }, n \in Nat : m * n \in Nat
        OBVIOUS
      <4>2. QED
        BY <2>3, <4>1
    <3>2. QED
      BY <3>1 DEF PatchLine
  <2>5. old = (IF line.kind \in OldKind THEN 1 ELSE 0) /\ new = (IF line.kind \in NewKind THEN 1 ELSE 0)
    BY <2>4
  <2> HIDE DEF line, old, new
  <2>6. Current \in PatchFile /\ Current.hunks \in Seq(Hunk)
    BY <2>2, LastFile DEF PatchFile
  <2>7. h \in Nat /\ h \in 1..Len(Current.hunks) /\ before \in Hunk
    BY <2>2, <2>6, LenProperties, ElementOfSeq
  <2>8. lines \in Seq(PatchLine) /\ before.lines \in Seq(PatchLine)
    BY <2>4, <2>7, AppendProperties DEF Hunk
  <2>9. /\ hunk \in Hunk /\ hunk.lines = Append(before.lines, line)
        /\ hunk.old_count = before.old_count /\ hunk.new_count = before.new_count
    BY <2>7, <2>8 DEF Hunk
  <2>10. Lacks(before, open)
    BY <2>2 DEF Counted, Lacking
  <2> DEFINE hunks == [Current.hunks EXCEPT ![h] = hunk]
  <2>11. file = [Current EXCEPT !.hunks = hunks]
    BY Zenon
  <2> HIDE DEF hunk, file, before
  <2>12. Lacks(hunk, open')
    <3>1. /\ Len(Side(hunk, OldKind)) = Len(Side(before, OldKind)) + old
          /\ Len(Side(hunk, NewKind)) = Len(Side(before, NewKind)) + new
      BY <2>4, <2>5, <2>8, <2>9, SideLonger
    <3>2. Len(Side(before, OldKind)) \in Nat /\ Len(Side(before, NewKind)) \in Nat
      BY <2>8, SideLengths
    <3>3. open'[1] = open[1] - old /\ open'[2] = open[2] - new
      BY <2>1
    <3>4. \A l, o \in Nat, m \in { 0, 1 } : (l + m) + (o - m) = l + o
      OBVIOUS
    <3>5. (Len(Side(before, OldKind)) + old) + (open[1] - old) = Len(Side(before, OldKind)) + open[1]
      BY <2>3, <3>2, <3>4, Zenon
    <3>6. (Len(Side(before, NewKind)) + new) + (open[2] - new) = Len(Side(before, NewKind)) + open[2]
      BY <2>3, <3>2, <3>4, Zenon
    <3>7. /\ Len(Side(hunk, OldKind)) + open'[1] = Len(Side(before, OldKind)) + open[1]
          /\ Len(Side(hunk, NewKind)) + open'[2] = Len(Side(before, NewKind)) + open[2]
      BY <3>1, <3>3, <3>5, <3>6, Zenon
    <3>8. QED
      BY <2>9, <2>10, <3>7 DEF Lacks
  <2>13. /\ hunks \in Seq(Hunk) /\ Len(hunks) = h /\ hunks[h] = hunk
         /\ \A j \in 1..(h - 1) : hunks[j] = Current.hunks[j]
    <3>1. hunks \in Seq(Hunk) /\ Len(hunks) = Len(Current.hunks) /\ hunks[h] = hunk
          /\ \A j \in 1..Len(Current.hunks) : j # h => hunks[j] = Current.hunks[j]
      BY <2>6, <2>7, <2>9, ExceptSeq
    <3>2. \A j \in 1..(h - 1) : j \in 1..Len(Current.hunks) /\ j # h
      BY <2>7
    <3> HIDE DEF hunks
    <3>3. QED
      BY <3>1, <3>2
  <2>14. \A j \in 1..(h - 1) : ExactHunk(Current.hunks[j])
    BY <2>2 DEF Counted, Lacking
  <2> HIDE DEF hunks, h
  <2>15. file \in PatchFile /\ file.hunks = hunks
    BY <2>6, <2>11, <2>13 DEF PatchFile
  <2>16. Lacking(file, open')
    BY <2>12, <2>13, <2>14, <2>15 DEF Lacking
  <2>17. Outside' => Exact(file)
    <3> SUFFICES ASSUME Outside'
                 PROVE  Exact(file)
      OBVIOUS
    <3>1. open[1] - old \in Nat /\ open[2] - new \in Nat
      BY <2>1, <2>3
    <3>2. open' # NoHunk
      BY <2>1, <3>1, NoHunkIsNone
    <3>3. open' = << 0, 0 >>
      BY <3>2 DEF Outside
    <3>4. QED
      BY <2>15, <2>16, <3>3, LacksNothing
  <2>18. QED
    BY <2>1, <2>2, <2>15, <2>16, <2>17, CountedLine
<1>4. QED
  BY <1>2, <1>3

LEMMA NoNewlineMarkerCounts ==
    ASSUME PatchInv, Counted, NoNewlineMarker
    PROVE  Counted'
<1> DEFINE last == Last(LinesOf(Current))
           oldEnd == IF last.old # 0 THEN last.old ELSE Current.old_end
           newEnd == IF last.new # 0 THEN last.new ELSE Current.new_end
           file == [Current EXCEPT !.old_end = IF last.old # 0 THEN last.old ELSE @,
                                   !.new_end = IF last.new # 0 THEN last.new ELSE @]
<1>1. CASE Refuse
  BY <1>1, CountedEnd DEF Refuse
<1>2. CASE ~Refuse
  <2>1. /\ writing = "text" /\ open # NoHunk /\ LinesOf(Current) # << >>
        /\ diff' = WithCurrent(file) /\ open' = (IF Outside THEN NoHunk ELSE open)
        /\ UNCHANGED next /\ Continue
    BY <1>2 DEF NoNewlineMarker, Writing
  <2>2. diff \in Seq(PatchFile) /\ diff # << >> /\ Current.hunks # << >>
    BY <2>1 DEF PatchInv, PatchTyped, InHunk
  <2>3. Current \in PatchFile
    BY <2>2, LastFile
  <2>4. last \in PatchLine
    <3>1. LinesOf(Current) \in Seq(PatchLine)
      BY <2>3, LinesAreLines
    <3>2. Len(LinesOf(Current)) \in 1..Len(LinesOf(Current))
      BY <2>1, <3>1, LenProperties
    <3>3. QED
      BY <3>1, <3>2, ElementOfSeq DEF Last
  <2>5. oldEnd \in Nat /\ newEnd \in Nat
    BY <2>3, <2>4 DEF PatchLine, PatchFile
  <2>6. file = [Current EXCEPT !.old_end = oldEnd, !.new_end = newEnd]
    BY <2>3 DEF PatchFile
  <2> HIDE DEF file, oldEnd, newEnd
  <2>7. file \in PatchFile /\ file.hunks = Current.hunks
    BY <2>3, <2>5, <2>6 DEF PatchFile
  <2>8. CASE Outside
    <3>1. Len(diff) \in DOMAIN diff
      BY <2>2, LenProperties
    <3>2. Exact(diff[Len(diff)])
      BY <2>8, <3>1 DEF Counted
    <3>3. Exact(file)
      BY <2>7, <3>2 DEF Exact, Current, Last
    <3>4. Outside'
      BY <2>1, <2>8 DEF Outside
    <3>5. QED
      BY <2>1, <2>2, <2>7, <3>3, <3>4, CountedLine
  <2>9. CASE ~Outside
    <3>1. open' = open /\ Lacking(Current, open)
      BY <2>1, <2>9 DEF Counted
    <3>2. Lacking(file, open')
      BY <2>7, <3>1 DEF Lacking
    <3>3. ~Outside'
      BY <2>9, <3>1 DEF Outside
    <3>4. QED
      BY <2>1, <2>2, <2>7, <3>2, <3>3, CountedLine
  <2>10. QED
    BY <2>8, <2>9
<1>3. QED
  BY <1>1, <1>2

\* What the end of the text lets through is exact, and so is what is left of it.
LEMMA OthersCount ==
    ASSUME PatchInv, Counted, IgnoredLine \/ TextEnds \/ Policy \/ ApplyNext
    PROVE  Counted'
<1>1. CASE IgnoredLine
  <2>1. diff' = diff /\ Outside /\ Outside'
    BY <1>1 DEF IgnoredLine, Outside
  <2>2. QED
    BY <2>1 DEF Counted
<1>2. CASE TextEnds
  <2>1. CASE End("invalid")
    BY <2>1, CountedEnd
  <2>2. CASE ~End("invalid")
    <3>1. diff' = diff /\ writing' = "policy" /\ Outside
      BY <1>2, <2>2 DEF TextEnds, Complete
    <3>2. QED
      BY <3>1 DEF Counted
  <2>3. QED
    BY <2>1, <2>2
<1>3. CASE Policy
  <2>1. CASE End("rejected")
    BY <2>1, CountedEnd
  <2>2. CASE ~End("rejected")
    <3>1. diff' = diff /\ writing = "policy" /\ writing' = "apply"
      BY <1>3, <2>2 DEF Policy
    <3>2. QED
      BY <3>1 DEF Counted
  <2>3. QED
    BY <2>1, <2>2
<1>4. CASE ApplyNext
  <2>1. CASE End("misfit")
    BY <2>1, CountedEnd
  <2>2. CASE ~End("misfit")
    <3>1. diff' = Tail(diff) /\ diff # << >> /\ writing = "apply" /\ writing' = "apply"
      BY <1>4, <2>2 DEF ApplyNext
    <3>2. diff \in Seq(PatchFile)
      BY DEF PatchInv, PatchTyped
    <3>3. /\ Len(diff) \in Nat \ { 0 } /\ DOMAIN diff = 1..Len(diff)
          /\ Tail(diff) \in Seq(PatchFile) /\ Len(Tail(diff)) = Len(diff) - 1
          /\ \A i \in 1..Len(Tail(diff)) : Tail(diff)[i] = diff[i + 1]
      BY <3>1, <3>2, HeadTailProperties, LenProperties
    <3>4. DOMAIN Tail(diff) = 1..Len(Tail(diff))
      BY <3>3, LenProperties
    <3>5. ASSUME NEW i \in DOMAIN Tail(diff)
          PROVE  Exact(Tail(diff)[i])
      <4>1. i + 1 \in DOMAIN diff /\ Tail(diff)[i] = diff[i + 1]
        BY <3>3, <3>4
      <4>2. QED
        BY <3>1, <4>1 DEF Counted
    <3>6. QED
      BY <3>1, <3>5 DEF Counted
  <2>3. QED
    BY <2>1, <2>2
<1>5. QED
  BY <1>1, <1>2, <1>3, <1>4

LEMMA Step_Counted == PatchInv /\ Counted /\ [PatchNext]_patchVars => Counted'
<1> SUFFICES ASSUME PatchInv, Counted, [PatchNext]_patchVars
             PROVE  Counted'
  OBVIOUS
<1>1. CASE FileHeader
  BY <1>1, FileHeaderCounts
<1>2. CASE HunkHeader
  BY <1>2, HunkHeaderCounts
<1>3. CASE HunkLine
  BY <1>3, HunkLineCounts
<1>4. CASE NoNewlineMarker
  BY <1>4, NoNewlineMarkerCounts
<1>5. CASE IgnoredLine \/ TextEnds \/ Policy \/ ApplyNext
  BY <1>5, OthersCount
<1>6. CASE Malformed
  BY <1>6, CountedEnd DEF Malformed, Refuse
<1>7. CASE Compare
  BY <1>7, CountedEnd DEF Compare
<1>8. CASE UNCHANGED patchVars
  <2>1. diff' = diff /\ open' = open /\ writing' = writing
    BY <1>8 DEF patchVars
  <2>2. QED
    BY <2>1 DEF Counted, Outside, Current
<1>9. QED
  BY <1>1, <1>2, <1>3, <1>4, <1>5, <1>6, <1>7, <1>8 DEF PatchNext, Parse

LEMMA Init_Counted == PatchInit => Counted
<1>1. DOMAIN << >> = {}
  OBVIOUS
<1>2. QED
  BY <1>1 DEF PatchInit, Counted, Outside

\* While the text is read, the sides of every hunk that is complete are as long as
\* its header says, and the open hunk lacks what open says: no hunk with other
\* counts is ever applied.
THEOREM HunksAlwaysCounted == PatchSpec => []Counted
BY Init_Patch, Step_Patch, Init_Counted, Step_Counted, PTL DEF PatchSpec

\* A step that takes a file off the patch and leaves the rest to apply has applied it.
LEMMA OnlyApplied ==
    ASSUME PatchInv, [PatchNext]_patchVars, diff # << >>, diff' = Tail(diff), writing' = "apply"
    PROVE  LET file == Head(diff)
               applied == ApplyFile(file, tree[file.path])
           IN  /\ writing = "apply" /\ file \in PatchFile /\ applied.fits
               /\ patched' = [patched EXCEPT ![file.path] = applied.file]
<1>1. diff \in Seq(PatchFile)
  BY DEF PatchInv, PatchTyped
<1>2. Head(diff) \in PatchFile /\ Len(Tail(diff)) = Len(diff) - 1 /\ Len(diff) \in Nat
  BY <1>1, HeadTailProperties, LenProperties
<1>3. diff' # diff
  <2>1. \A n \in Nat : n - 1 # n
    OBVIOUS
  <2>2. Len(Tail(diff)) # Len(diff)
    BY <1>2, <2>1, Zenon
  <2>3. QED
    BY <2>2, Zenon
<1>4. ~End("invalid") /\ ~End("rejected") /\ ~End("misfit")
  BY DEF End
<1>5. ~Refuse
  BY <1>4 DEF Refuse
<1>6. CASE Parse
  <2>1. writing = "text"
    BY <1>6 DEF Parse, FileHeader, HunkHeader, HunkLine, NoNewlineMarker, IgnoredLine, Malformed, Writing
  <2>2. ~Continue
    BY <2>1 DEF Continue
  <2>3. FALSE
    <3>1. ~FileHeader
      BY <1>5, <2>2 DEF FileHeader
    <3>2. ~HunkHeader
      BY <1>5, <2>2 DEF HunkHeader
    <3>3. ~HunkLine
      BY <1>5, <2>2 DEF HunkLine
    <3>4. ~NoNewlineMarker
      BY <1>5, <2>2 DEF NoNewlineMarker
    <3>5. QED
      BY <1>5, <1>6, <2>2, <3>1, <3>2, <3>3, <3>4 DEF Parse, IgnoredLine, Malformed
  <2>4. QED
    BY <2>3
<1>7. CASE TextEnds
  BY <1>4, <1>7 DEF TextEnds
<1>8. CASE Policy
  BY <1>3, <1>4, <1>8 DEF Policy
<1>9. CASE ApplyNext
  BY <1>2, <1>4, <1>9 DEF ApplyNext
<1>10. CASE Compare
  BY <1>10 DEF Compare
<1>11. CASE UNCHANGED patchVars
  BY <1>3, <1>11 DEF patchVars
<1>12. QED
  BY <1>6, <1>7, <1>8, <1>9, <1>10, <1>11 DEF PatchNext

\* What _apply_file_patch makes of a file that the patch fits.
LEMMA FileAsWritten ==
    ASSUME NEW file \in PatchFile, Exact(file), NEW before \in FileText, ApplyFile(file, before).fits
    PROVE  LET lines == IF file.old THEN Decoded(before).lines ELSE << >>
               after == Edited(file, lines)
           IN  /\ Apart(file.hunks)
               /\ \A i \in DOMAIN file.hunks :
                     LET h == file.hunks[i]
                     IN  /\ Stands(Side(h, OldKind), h.old_start, h.old_count, lines)
                         /\ Stands(Side(h, NewKind), h.new_start, h.new_count, after)
               /\ ApplyFile(file, before).file =
                     IF ~file.new THEN Missing
                     ELSE Encoded(after, file.new_end = 0 /\ (file.old => before.newline))
<1> DEFINE lines == IF file.old THEN Decoded(before).lines ELSE << >>
           source == IF file.old THEN Decoded(before) ELSE Text(<< >>, file.new_end = 0)
           newline == source.newline /\ file.new_end = 0
<1>1. /\ Hunks(file, source.lines).fits
      /\ ApplyFile(file, before).file =
            IF file.new THEN Encoded(Hunks(file, source.lines).output, newline) ELSE Missing
  BY DEF ApplyFile, Misfit
<1>2. source.lines = lines
  BY DEF Text
<1>3. lines \in Seq(Line)
  <2>1. Decoded(before).lines \in Seq(Line) /\ << >> \in Seq(Line)
    BY DecodedText, EmptySeq
  <2>2. QED
    BY <2>1
<1>4. before.newline \in BOOLEAN /\ Decoded(before).newline = before.newline
  BY FileFacts DEF Decoded, FileText
<1>5. newline = (file.new_end = 0 /\ (file.old => before.newline))
  <2>1. CASE file.old
    <3>1. newline = (before.newline /\ file.new_end = 0)
      BY <1>4, <2>1
    <3>2. QED
      BY <1>4, <2>1, <3>1
  <2>2. CASE ~file.old
    <3>1. source.newline = (file.new_end = 0)
      BY <2>2 DEF Text
    <3>2. QED
      BY <2>2, <3>1
  <2>3. QED
    BY <2>1, <2>2
<1> HIDE DEF source, newline, lines
<1>6. Hunks(file, lines).fits
  BY <1>1, <1>2
<1>7. /\ Hunks(file, lines).output = Edited(file, lines)
      /\ Apart(file.hunks)
      /\ \A i \in DOMAIN file.hunks :
             LET h == file.hunks[i]
             IN  /\ Stands(Side(h, OldKind), h.old_start, h.old_count, lines)
                 /\ Stands(Side(h, NewKind), h.new_start, h.new_count, Edited(file, lines))
  BY <1>3, <1>6, HunksAsWritten
<1>8. ApplyFile(file, before).file =
        IF ~file.new THEN Missing
        ELSE Encoded(Edited(file, lines), file.new_end = 0 /\ (file.old => before.newline))
  BY <1>1, <1>2, <1>5, <1>7, Zenon
<1>9. QED
  BY <1>7, <1>8, Zenon DEF lines

\* What AppliedAsWritten says of a step.
FileWritten ==
    LET file == Head(diff)
        before == IF file.old THEN Decoded(tree[file.path]).lines ELSE << >>
        after == Edited(file, before)
    IN  /\ Apart(file.hunks)
        /\ \A i \in DOMAIN file.hunks :
              LET h == file.hunks[i]
              IN  /\ Stands(Side(h, OldKind), h.old_start, h.old_count, before)
                  /\ Stands(Side(h, NewKind), h.new_start, h.new_count, after)
        /\ \A p \in Path \ { file.path } : patched'[p] = patched[p]
        /\ patched'[file.path] =
              IF ~file.new THEN Missing
              ELSE Encoded(after, file.new_end = 0 /\ (file.old => tree[file.path].newline))

LEMMA TakenOffIsWritten ==
    ASSUME PatchInv, Counted, [PatchNext]_patchVars, diff # << >>, diff' = Tail(diff), writing' = "apply"
    PROVE  FileWritten
<1> DEFINE file == Head(diff)
           old == tree[file.path]
           applied == ApplyFile(file, old)
<1>1. /\ writing = "apply" /\ file \in PatchFile /\ applied.fits
      /\ patched' = [patched EXCEPT ![file.path] = applied.file]
  BY OnlyApplied, Zenon
<1>2. diff \in Seq(PatchFile) /\ tree \in [ Path -> FileText ] /\ patched \in [ Path -> FileText ]
  BY DEF PatchInv, PatchTyped
<1>3. file.path \in Path
  BY <1>1 DEF PatchFile
<1>4. old \in FileText
  BY <1>2, <1>3
<1>5. Exact(file)
  <2>1. 1 \in DOMAIN diff /\ file = diff[1]
    BY <1>2, LenProperties
  <2>2. writing # "text"
    BY <1>1
  <2>3. QED
    BY <2>1, <2>2, Zenon DEF Counted
<1>6. /\ \A p \in Path \ { file.path } : patched'[p] = patched[p]
      /\ patched'[file.path] = applied.file
  <2> HIDE DEF file, applied
  <2> QED
    BY <1>1, <1>2, <1>3
<1> HIDE DEF file, old
<1>7. LET lines == IF file.old THEN Decoded(old).lines ELSE << >>
          after == Edited(file, lines)
      IN  /\ Apart(file.hunks)
          /\ \A i \in DOMAIN file.hunks :
                LET h == file.hunks[i]
                IN  /\ Stands(Side(h, OldKind), h.old_start, h.old_count, lines)
                    /\ Stands(Side(h, NewKind), h.new_start, h.new_count, after)
          /\ applied.file =
                IF ~file.new THEN Missing
                ELSE Encoded(after, file.new_end = 0 /\ (file.old => old.newline))
  BY <1>1, <1>4, <1>5, FileAsWritten, Zenon
<1>8. QED
  BY <1>6, <1>7, Zenon DEF file, old, FileWritten

\* A file is taken off the patch only when it has become, in the copy, what the patch
\* says: every hunk's old side, found at its place, replaced by its new side, and
\* nothing else, for any hunks and any file.
THEOREM AppliedAlwaysAsWritten == PatchSpec => AppliedAsWritten
<1>1. PatchInv /\ Counted /\ [PatchNext]_patchVars =>
          [diff # << >> /\ diff' = Tail(diff) /\ writing' = "apply" => FileWritten]_patchVars
  BY TakenOffIsWritten
<1>2. QED
  BY <1>1, PatchInvariant, HunksAlwaysCounted, PTL DEF PatchSpec, AppliedAsWritten, FileWritten
=============================================================================
