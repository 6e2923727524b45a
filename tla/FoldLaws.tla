------------------------------ MODULE FoldLaws ------------------------------
(***************************************************************************)
(* The laws of FoldLeft, for any operator Op: a module that folds takes    *)
(* them with INSTANCE.  The recursive function inside FoldLeft exists and  *)
(* is unique on the initial segments of a sequence; both are shown by the  *)
(* least counterexample.                                                   *)
(***************************************************************************)
EXTENDS Integers, Sequences, SequencesExt, SequenceTheorems, Induction

CONSTANT Op(_, _)

Fold(base, q) == FoldLeft(Op, base, q)

\* The equation of the function that FoldLeft(Op, base, h) applies to DOMAIN h.
Folds(base, h, D, f) ==
  f = [s \in SUBSET D |-> IF s = {} THEN base ELSE Op(f[s \ {Max(s)}], h[Max(s)])]

\* The greatest number of an initial segment.
LEMMA MaxSegment ==
  ASSUME NEW k \in Nat, k # 0
  PROVE  Max(1..k) = k /\ (1..k) \ {k} = 1..(k - 1) /\ 1..k # {}
<1>1. k \in 1..k /\ 1..k # {}
  OBVIOUS
<1>2. Max(1..k) \in 1..k /\ \A y \in 1..k : y <= Max(1..k)
  BY <1>1, MaxPosition
<1> HIDE DEF Max
<1>3. Max(1..k) \in 1..k /\ k <= Max(1..k)
  BY <1>1, <1>2
<1>4. Max(1..k) = k
  BY <1>3
<1> QED BY <1>1, <1>4

\* A set whose elements go up to k + 1 has it as its maximum or does not have it.
LEMMA MaxOfSegmentSet ==
  ASSUME NEW k \in Nat, NEW s, s \subseteq 1..(k + 1), s # {}
  PROVE  /\ Max(s) \in s
         /\ k + 1 \in s => Max(s) = k + 1
         /\ s \ {Max(s)} \subseteq 1..k
<1>0. k + 1 \in Nat
  OBVIOUS
<1>1. Max(s) \in s /\ \A y \in s : y <= Max(s)
  BY <1>0, MaxPosition
<1>2. \A y \in s : y \in 1..(k + 1)
  OBVIOUS
<1> DEFINE m == Max(s)
<1> HIDE DEF m
<1>3. m \in s /\ \A y \in s : y <= m
  BY <1>1 DEF m
<1>4. \A y \in s : y # m => y \in 1..k
  BY <1>2, <1>3
<1>5. k + 1 \in s => m = k + 1
  BY <1>2, <1>3
<1> QED BY <1>3, <1>4, <1>5 DEF m

\* The function exists.
LEMMA FoldsExists ==
  ASSUME NEW base, NEW h, NEW n \in Nat
  PROVE  \E f : Folds(base, h, 1..n, f)
<1> DEFINE Bad == {k \in Nat : ~ \E f : Folds(base, h, 1..k, f)}
<1> SUFFICES ASSUME Bad # {} PROVE FALSE
  OBVIOUS
<1>1. PICK k \in Bad : \A j \in Bad : k <= j
  BY LeastNatural
<1>2. CASE k = 0
  <2> DEFINE f == [s \in SUBSET (1..0) |-> base]
  <2>1. \A s \in SUBSET (1..0) : s = {}
    OBVIOUS
  <2>2. Folds(base, h, 1..0, f)
    BY <2>1 DEF Folds
  <2> QED BY <1>2, <2>2
<1>3. CASE k # 0
  <2>1. PICK m \in Nat : k = m + 1
    BY <1>3
  <2>2. m \notin Bad
    BY <1>1, <2>1
  <2>3. PICK f : Folds(base, h, 1..m, f)
    BY <2>2
  <2> DEFINE V(s) == IF s = {} THEN base ELSE Op(f[s \ {Max(s)}], h[Max(s)])
             g == [s \in SUBSET (1..k) |-> V(s)]
  <2>4. \A s \in SUBSET (1..k) : s # {} => s \ {Max(s)} \in SUBSET (1..m)
    BY <2>1, MaxOfSegmentSet
  <2>5. \A s \in SUBSET (1..m) : s \in SUBSET (1..k)
    BY <2>1
  <2>6. \A s \in SUBSET (1..m) : f[s] = V(s)
    BY <2>3 DEF Folds
  <2> HIDE DEF V
  <2>7. \A s \in SUBSET (1..m) : g[s] = f[s]
    BY <2>5, <2>6
  <2>8. \A s \in SUBSET (1..k) :
          V(s) = IF s = {} THEN base ELSE Op(g[s \ {Max(s)}], h[Max(s)])
    BY <2>4, <2>7 DEF V
  <2>9. g = [s \in SUBSET (1..k) |-> IF s = {} THEN base ELSE Op(g[s \ {Max(s)}], h[Max(s)])]
    BY <2>8
  <2>10. Folds(base, h, 1..k, g)
    BY <2>9 DEF Folds
  <2> QED BY <2>10
<1> QED BY <1>2, <1>3

\* On initial segments the function is determined by the part of h it has seen.
LEMMA FoldsUnique ==
  ASSUME NEW base, NEW g, NEW h, NEW m \in Nat, NEW n \in Nat, NEW f1, NEW f2,
         Folds(base, g, 1..m, f1), Folds(base, h, 1..n, f2),
         NEW k \in Nat, k <= m, k <= n, \A i \in 1..k : g[i] = h[i]
  PROVE  f1[1..k] = f2[1..k]
<1> DEFINE Bad == {j \in 0..k : f1[1..j] # f2[1..j]}
<1> SUFFICES ASSUME Bad # {} PROVE FALSE
  BY k \in 0..k
<1>1. PICK j \in Bad : \A i \in Bad : j <= i
  <2>1. Bad \subseteq Nat
    OBVIOUS
  <2> QED BY <2>1, LeastNatural
<1>2. 1..j \in SUBSET (1..m) /\ 1..j \in SUBSET (1..n) /\ j \in Nat
  OBVIOUS
<1>3. /\ f1[1..j] = IF 1..j = {} THEN base ELSE Op(f1[(1..j) \ {Max(1..j)}], g[Max(1..j)])
      /\ f2[1..j] = IF 1..j = {} THEN base ELSE Op(f2[(1..j) \ {Max(1..j)}], h[Max(1..j)])
  BY <1>2 DEF Folds
<1>4. CASE j = 0
  BY <1>3, <1>4
<1>5. CASE j # 0
  <2>1. Max(1..j) = j /\ (1..j) \ {j} = 1..(j - 1) /\ 1..j # {}
    BY <1>2, <1>5, MaxSegment
  <2>2. j - 1 \in 0..k /\ j - 1 < j /\ j - 1 \notin Bad
    BY <1>1, <1>2, <1>5
  <2>3. f1[1..(j - 1)] = f2[1..(j - 1)]
    BY <2>2
  <2>4. g[j] = h[j]
    BY <1>2, <1>5
  <2> QED BY <1>3, <2>1, <2>3, <2>4
<1> QED BY <1>4, <1>5

\* FoldLeft is that function at the whole domain.
LEMMA FoldIs ==
  ASSUME NEW base, NEW h, NEW n \in Nat, DOMAIN h = 1..n
  PROVE  \E f : Folds(base, h, 1..n, f) /\ Fold(base, h) = f[1..n]
<1> DEFINE F == CHOOSE f : Folds(base, h, 1..n, f)
<1>1. Folds(base, h, 1..n, F)
  BY FoldsExists
<1>2. Fold(base, h) = F[1..n]
  BY DEF Fold, FoldLeft, MapThenFoldSet, Folds
<1> HIDE DEF F
<1> QED BY <1>1, <1>2

\* Folding nothing.
THEOREM FoldEmpty == ASSUME NEW base PROVE Fold(base, <<>>) = base
<1>1. DOMAIN <<>> = 1..0
  OBVIOUS
<1>2. PICK f : Folds(base, <<>>, 1..0, f) /\ Fold(base, <<>>) = f[1..0]
  BY <1>1, FoldIs
<1>3. 1..0 = {}
  OBVIOUS
<1> QED BY <1>2, <1>3 DEF Folds

\* Folding one element more applies Op to it last.
THEOREM FoldAppend ==
  ASSUME NEW S, NEW q \in Seq(S), NEW x \in S, NEW base
  PROVE  Fold(base, Append(q, x)) = Op(Fold(base, q), x)
<1> DEFINE n == Len(q)
           p == Append(q, x)
<1>1. /\ n \in Nat /\ DOMAIN q = 1..n
      /\ n + 1 \in Nat /\ DOMAIN p = 1..(n + 1)
      /\ \A i \in 1..n : q[i] = p[i]
      /\ p[n + 1] = x
  BY AppendProperties, LenProperties
<1> HIDE DEF n, p
<1>2. PICK f : Folds(base, q, 1..n, f) /\ Fold(base, q) = f[1..n]
  BY <1>1, FoldIs
<1> DEFINE m == n + 1
<1>3. PICK g : Folds(base, p, 1..m, g) /\ Fold(base, p) = g[1..m]
  BY <1>1, FoldIs
<1>4. g[1..n] = f[1..n]
  <2>1. m \in Nat /\ n \in Nat /\ n <= n /\ n <= m /\ \A i \in 1..n : q[i] = p[i]
    BY <1>1
  <2> HIDE DEF m
  <2>2. f[1..n] = g[1..n]
    BY <1>2, <1>3, <2>1, FoldsUnique
  <2> QED BY <2>2
<1>5. g[1..(n + 1)] = Op(g[1..n], x)
  <2>1. /\ Max(1..(n + 1)) = n + 1 /\ (1..(n + 1)) \ {n + 1} = 1..n
        /\ 1..(n + 1) # {}
    <3>1. n + 1 # 0 /\ (n + 1) - 1 = n
      BY <1>1
    <3> QED BY <1>1, <3>1, MaxSegment
  <2>2. g[1..(n + 1)] = Op(g[(1..(n + 1)) \ {Max(1..(n + 1))}], p[Max(1..(n + 1))])
    BY <1>3, <2>1 DEF Folds
  <2> QED BY <1>1, <2>1, <2>2
<1> QED BY <1>2, <1>3, <1>4, <1>5 DEF p

\* What every application of Op keeps, folding keeps.
THEOREM FoldKeeps ==
  ASSUME NEW S, NEW A, \A a \in A, x \in S : Op(a, x) \in A,
         NEW base \in A, NEW q \in Seq(S)
  PROVE  Fold(base, q) \in A
<1> DEFINE I == {s \in Seq(S) : Fold(base, s) \in A}
<1>1. <<>> \in I
  BY FoldEmpty, EmptySeq
<1>2. ASSUME NEW s \in Seq(S), NEW x \in S, s \in I PROVE Append(s, x) \in I
  BY <1>2, FoldAppend, AppendProperties
<1> HIDE DEF I
<1>3. Seq(S) \subseteq I
  BY <1>1, <1>2, SequenceInduction
<1> QED BY <1>3 DEF I

\* Folding one sequence and then another is folding both.
THEOREM FoldConcat ==
  ASSUME NEW S, NEW base, NEW p \in Seq(S), NEW q \in Seq(S)
  PROVE  Fold(base, p \o q) = Fold(Fold(base, p), q)
<1> DEFINE I == {s \in Seq(S) : Fold(base, p \o s) = Fold(Fold(base, p), s)}
<1>1. <<>> \in I
  <2>1. p \o <<>> = p /\ <<>> \in Seq(S)
    BY ConcatEmptySeq, EmptySeq
  <2> QED BY <2>1, FoldEmpty
<1>2. ASSUME NEW s \in Seq(S), NEW x \in S, s \in I PROVE Append(s, x) \in I
  <2>1. p \o Append(s, x) = Append(p \o s, x)
    <3>1. /\ Append(s, x) = s \o <<x>> /\ <<x>> \in Seq(S) /\ p \o s \in Seq(S)
          /\ Append(p \o s, x) = (p \o s) \o <<x>>
      BY AppendIsConcat, ConcatProperties
    <3> QED BY <3>1, ConcatAssociative
  <2>2. p \o s \in Seq(S) /\ Append(s, x) \in Seq(S)
    BY ConcatProperties, AppendProperties
  <2>3. Fold(base, Append(p \o s, x)) = Op(Fold(base, p \o s), x)
    BY <2>2, FoldAppend
  <2>4. Fold(Fold(base, p), Append(s, x)) = Op(Fold(Fold(base, p), s), x)
    BY FoldAppend
  <2> QED BY <1>2, <2>1, <2>2, <2>3, <2>4
<1> HIDE DEF I
<1>3. Seq(S) \subseteq I
  BY <1>1, <1>2, SequenceInduction
<1> QED BY <1>3 DEF I

=============================================================================
