------------------------------ MODULE FoldProofs ------------------------------
(***************************************************************************)
(* Facts about the folds and conversions of the community modules.  The    *)
(* loops of the program over lists and sets are folds in the models, and a *)
(* fold is a recursive function: that it has a value at all, and what the  *)
(* value keeps, needs induction over the set.  The induction is brought    *)
(* down to "a nonempty set of natural numbers has a least element", so     *)
(* that every fact below is about sets and functions.                      *)
(***************************************************************************)
EXTENDS Integers, SequencesExt, FiniteSetsExt, FiniteSetTheorems, WellFoundedInduction, TLAPS

CONSTANT op(_, _, _)   \* the step of the loops in the second half

\* A nonempty set of natural numbers has a least element.
LEMMA LeastNat ==
  ASSUME NEW T \in SUBSET Nat, T # {}
  PROVE  \E m \in T : \A k \in T : m <= k
<1>1. PICK R : IsWellFoundedOn(R, Nat) /\ \A x, y \in Nat : <<y, x>> \in R <=> y < x
  <2>1. \A x, y \in Nat : <<y, x>> \in OpToRel(<, Nat) <=> y < x
    BY DEF OpToRel
  <2>. QED  BY <2>1, NatLessThanWellFounded
<1>2. \E x \in T : \A y \in T : ~ (<<y, x>> \in R)
  BY <1>1, WFMin
<1>3. \A x, y \in T : ~ (<<y, x>> \in R) => x <= y
  BY <1>1
<1>. QED  BY <1>2, <1>3

\* Induction over the natural numbers, for a set of them.
LEMMA NatInduct ==
  ASSUME NEW G, 0 \in G, \A n \in Nat : n \in G => n + 1 \in G
  PROVE  \A n \in Nat : n \in G
<1>. DEFINE T == { n \in Nat : n \notin G }
<1>1. SUFFICES ASSUME T # {} PROVE FALSE
  OBVIOUS
<1>2. PICK m \in T : \A k \in T : m <= k
  BY <1>1, LeastNat
<1>3. m # 0 /\ m - 1 \in Nat /\ m - 1 \notin T
  BY <1>2
<1>. QED  BY <1>2, <1>3

\* Induction over the subsets of a finite set, for a set of them.
LEMMA SubsetInduct ==
  ASSUME NEW S, IsFiniteSet(S), NEW G, {} \in G,
         \A s \in SUBSET S : s # {} => \E x \in s : s \ {x} \in G => s \in G
  PROVE  \A s \in SUBSET S : s \in G
<1>. DEFINE B == { s \in SUBSET S : s \notin G }
            T == { Cardinality(s) : s \in B }
<1>0. \A s \in SUBSET S : IsFiniteSet(s) /\ Cardinality(s) \in Nat
  BY FS_Subset, FS_CardinalityType
<1>1. SUFFICES ASSUME B # {} PROVE FALSE
  OBVIOUS
<1>2. T \in SUBSET Nat /\ T # {}
  BY <1>0, <1>1
<1>3. PICK m \in T : \A k \in T : m <= k
  <2>. HIDE DEF T
  <2>. QED  BY <1>2, LeastNat
<1>4. PICK s \in B : m = Cardinality(s)
  BY <1>3
<1>5. PICK x \in s : s \ {x} \in G => s \in G
  BY <1>4
<1>6. Cardinality(s \ {x}) = m - 1 /\ s \ {x} \in SUBSET S
  BY <1>0, <1>4, FS_RemoveElement
<1>7. s \ {x} \in B
  BY <1>4, <1>5, <1>6
<1>8. m - 1 \in T /\ m \in Nat
  BY <1>2, <1>3, <1>6, <1>7
<1>. QED  BY <1>3, <1>8

\* Induction over the sequences, element by element, for a set of them.
LEMMA SeqInduct ==
  ASSUME NEW E, NEW G, <<>> \in G,
         \A s \in Seq(E) : \A x \in E : s \in G => Append(s, x) \in G
  PROVE  \A s \in Seq(E) : s \in G
<1>. DEFINE N == { n \in Nat : \A s \in Seq(E) : Len(s) = n => s \in G }
<1>1. 0 \in N
  <2>1. \A s \in Seq(E) : Len(s) = 0 => s = <<>>
    OBVIOUS
  <2>. QED  BY <2>1
<1>2. ASSUME NEW n \in Nat, n \in N PROVE n + 1 \in N
  <2>1. SUFFICES ASSUME NEW s \in Seq(E), Len(s) = n + 1 PROVE s \in G
    OBVIOUS
  <2>2. PICK t : t = SubSeq(s, 1, n)
    OBVIOUS
  <2>3. t \in Seq(E) /\ Len(t) = n /\ s[n + 1] \in E /\ \A i \in 1..n : t[i] = s[i]
    BY <2>1, <2>2
  <2>4. s = Append(t, s[n + 1])
    BY <2>1, <2>3
  <2>. QED  BY <1>2, <2>3, <2>4
<1>3. \A n \in Nat : n \in N
  <2>. HIDE DEF N
  <2>. QED  BY <1>1, <1>2, NatInduct
<1>. QED  BY <1>3

\* Pick takes an element of every nonempty subset of S.
Picks(Pick, S) == \A s \in SUBSET S : s # {} => Pick[s] \in s

\* it[s] is the fold of F over the elements of s, taken as Pick says.
FoldsOver(it, S, base, Pick, F) ==
  \A s \in SUBSET S :
    it[s] = IF s = {} THEN base ELSE F[<<Pick[s], it[s \ {Pick[s]}]>>]

\* A function on the subsets of a finite set may be defined by what it is on the
\* empty set, and on any other from its value without a picked element: the
\* equation has a solution.
LEMMA FoldExists ==
  ASSUME NEW S, IsFiniteSet(S), NEW D, NEW base, base \in D,
         NEW Pick, Picks(Pick, S), NEW F, F \in [S \X D -> D]
  PROVE  \E it \in [SUBSET S -> D] : FoldsOver(it, S, base, Pick, F)
<1>. USE DEF Picks, FoldsOver
<1>. DEFINE L(n) == { s \in SUBSET S : Cardinality(s) <= n }
            Sol(it, n) == \A s \in L(n) :
              it[s] = IF s = {} THEN base ELSE F[<<Pick[s], it[s \ {Pick[s]}]>>]
            G == { n \in Nat : \E it \in [L(n) -> D] : Sol(it, n) }
<1>0. \A s \in SUBSET S : IsFiniteSet(s) /\ Cardinality(s) \in Nat
  BY FS_Subset, FS_CardinalityType
<1>1. 0 \in G
  <2>1. \A s \in L(0) : s = {}
    BY <1>0, FS_EmptySet
  <2>2. [s \in L(0) |-> base] \in [L(0) -> D] /\ Sol([s \in L(0) |-> base], 0)
    BY <2>1
  <2>. QED  BY <2>2
<1>2. ASSUME NEW n \in Nat, n \in G PROVE n + 1 \in G
  <2>1. PICK it \in [L(n) -> D] : Sol(it, n)
    BY <1>2
  <2>. DEFINE val(s) == IF s = {} THEN base ELSE F[<<Pick[s], it[s \ {Pick[s]}]>>]
              new == [s \in L(n + 1) |-> IF s \in L(n) THEN it[s] ELSE val(s)]
  <2>2. ASSUME NEW s \in L(n + 1), s # {}
        PROVE  Pick[s] \in S /\ s \ {Pick[s]} \in L(n) /\ s \ {Pick[s]} \in L(n + 1)
    <3>1. s \in SUBSET S /\ IsFiniteSet(s) /\ Cardinality(s) \in Nat /\ Cardinality(s) <= n + 1
      BY <1>0
    <3>2. PICK x \in s : x = Pick[s]
      BY <2>2, <3>1
    <3>3. Cardinality(s \ {x}) = Cardinality(s) - 1
      BY <3>1, FS_RemoveElement
    <3>. QED  BY <3>1, <3>2, <3>3
  <2>3. \A s \in L(n) : s \in L(n + 1) /\ it[s] = val(s)
    <3>1. \A s \in L(n) : s \in L(n + 1)
      BY <1>0
    <3>. HIDE DEF L
    <3>. QED  BY <2>1, <3>1
  <2>4. new \in [L(n + 1) -> D]
    <3>. HIDE DEF L
    <3>. QED  BY <2>2
  <2>5. Sol(new, n + 1)
    <3>1. SUFFICES ASSUME NEW s \in L(n + 1)
                   PROVE  new[s] = IF s = {} THEN base ELSE F[<<Pick[s], new[s \ {Pick[s]}]>>]
      OBVIOUS
    <3>2. new[s] = val(s)
      <4>. HIDE DEF L, val
      <4>. QED  BY <2>3
    <3>3. s # {} => new[s \ {Pick[s]}] = it[s \ {Pick[s]}]
      <4>. HIDE DEF L, val
      <4>. QED  BY <2>2
    <3>. HIDE DEF L, new
    <3>. QED  BY <3>2, <3>3
  <2>. QED
    <3>. HIDE DEF L, Sol, new
    <3>. QED  BY <2>4, <2>5
<1>3. Cardinality(S) \in G
  <2>. HIDE DEF G
  <2>. QED  BY <1>0, <1>1, <1>2, NatInduct
<1>4. L(Cardinality(S)) = SUBSET S
  BY <1>0, FS_Subset
<1>. QED  BY <1>3, <1>4

\* A finite set as a sequence: as long as the set is large, and of its elements.
LEMMA SetToSeqOK ==
  ASSUME NEW S, IsFiniteSet(S)
  PROVE  /\ SetToSeq(S) \in [1..Cardinality(S) -> S]
         /\ SetToSeq(S) \in Seq(S)
         /\ Len(SetToSeq(S)) = Cardinality(S)
<1>1. Cardinality(S) \in Nat /\ ExistsBijection(1..Cardinality(S), S)
  BY FS_NatBijection, FS_CardinalityType, FS_CountingElements
<1>2. \E f \in [1..Cardinality(S) -> S] : IsInjective(f)
  BY <1>1 DEF ExistsBijection, Bijection, Injection
<1>3. SetToSeq(S) \in [1..Cardinality(S) -> S]
  BY <1>2 DEF SetToSeq
<1>. QED  BY <1>1, <1>3

\* The sequences of the empty set and of a set of one element.
LEMMA SetToSeqSmall ==
  /\ SetToSeq({}) = <<>>
  /\ \A m : SetToSeq({m}) = <<m>>
<1>1. SetToSeq({}) = <<>>
  BY SetToSeqOK, FS_EmptySet
<1>2. ASSUME NEW m PROVE SetToSeq({m}) = <<m>>
  <2>1. IsFiniteSet({m}) /\ Cardinality({m}) = 1
    BY FS_Singleton
  <2>2. SetToSeq({m}) \in [1..1 -> {m}] /\ SetToSeq({m}) \in Seq({m}) /\ Len(SetToSeq({m})) = 1
    BY <2>1, SetToSeqOK
  <2>. QED  BY <2>2
<1>. QED  BY <1>1, <1>2

\* The elements of a sequence, of what is left of it, and of two in a row.
LEMMA ToSetFacts ==
  ASSUME NEW S, NEW s \in Seq(S), NEW t \in Seq(S)
  PROVE  /\ ToSet(s) \subseteq S
         /\ s \o t \in Seq(S) /\ ToSet(s \o t) = ToSet(s) \cup ToSet(t)
         /\ s # <<>> => /\ Head(s) \in ToSet(s) /\ Tail(s) \in Seq(S)
                        /\ ToSet(s) = {Head(s)} \cup ToSet(Tail(s))
                        /\ s \o t # <<>>
<1>1. ToSet(s) \subseteq S
  BY DEF ToSet
<1>2. s \o t \in Seq(S) /\ ToSet(s \o t) = ToSet(s) \cup ToSet(t)
  <2>1. s \o t \in Seq(S)
    OBVIOUS
  <2>2. ASSUME NEW x \in ToSet(s \o t) PROVE x \in ToSet(s) \cup ToSet(t)
    <3>1. PICK i \in DOMAIN (s \o t) : x = (s \o t)[i]
      BY DEF ToSet
    <3>2. CASE i <= Len(s)
      BY <3>1, <3>2 DEF ToSet
    <3>3. CASE i > Len(s)
      <4>1. x = t[i - Len(s)] /\ i - Len(s) \in DOMAIN t
        BY <3>1, <3>3
      <4>. QED  BY <4>1 DEF ToSet
    <3>. QED  BY <3>1, <3>2, <3>3
  <2>3. ASSUME NEW x \in ToSet(s) PROVE x \in ToSet(s \o t)
    <3>1. PICK i \in DOMAIN s : x = s[i]
      BY DEF ToSet
    <3>2. i \in DOMAIN (s \o t) /\ (s \o t)[i] = x
      BY <3>1
    <3>. QED  BY <3>2 DEF ToSet
  <2>4. ASSUME NEW x \in ToSet(t) PROVE x \in ToSet(s \o t)
    <3>1. PICK i \in DOMAIN t : x = t[i]
      BY DEF ToSet
    <3>2. i + Len(s) \in DOMAIN (s \o t) /\ (s \o t)[i + Len(s)] = x
      BY <3>1
    <3>. QED  BY <3>2 DEF ToSet
  <2>. QED  BY <2>1, <2>2, <2>3, <2>4
<1>3. ASSUME s # <<>>
      PROVE  /\ Head(s) \in ToSet(s) /\ Tail(s) \in Seq(S)
             /\ ToSet(s) = {Head(s)} \cup ToSet(Tail(s))
             /\ s \o t # <<>>
  <2>1. Len(s) >= 1 /\ Len(s) \in Nat /\ Head(s) = s[1] /\ Tail(s) \in Seq(S)
        /\ Len(Tail(s)) = Len(s) - 1
    BY <1>3
  <2>2. Head(s) \in ToSet(s)
    BY <2>1 DEF ToSet
  <2>3. ASSUME NEW x \in ToSet(Tail(s)) PROVE x \in ToSet(s)
    <3>1. PICK i \in DOMAIN Tail(s) : x = Tail(s)[i]
      BY DEF ToSet
    <3>2. i + 1 \in DOMAIN s /\ s[i + 1] = x
      BY <2>1, <3>1
    <3>. QED  BY <3>2 DEF ToSet
  <2>4. ASSUME NEW x \in ToSet(s), x # Head(s) PROVE x \in ToSet(Tail(s))
    <3>1. PICK i \in DOMAIN s : x = s[i]
      BY DEF ToSet
    <3>2. i # 1
      BY <2>1, <2>4, <3>1
    <3>3. i - 1 \in DOMAIN Tail(s) /\ Tail(s)[i - 1] = x
      BY <2>1, <3>1, <3>2
    <3>. QED  BY <3>3 DEF ToSet
  <2>5. Len(s \o t) >= 1
    BY <2>1
  <2>. QED  BY <2>1, <2>2, <2>3, <2>4, <2>5
<1>. QED  BY <1>1, <1>2, <1>3

\* The elements of a sequence of none and of one.
LEMMA ToSetSmall == ToSet(<<>>) = {} /\ \A m : ToSet(<<m>>) = {m}
<1>1. ToSet(<<>>) = {}
  BY DEF ToSet
<1>2. ASSUME NEW m PROVE ToSet(<<m>>) = {m}
  <2>1. DOMAIN <<m>> = {1} /\ <<m>>[1] = m
    OBVIOUS
  <2>. QED  BY <2>1 DEF ToSet
<1>. QED  BY <1>1, <1>2

-----------------------------------------------------------------------------
(***************************************************************************)
(* Folding op over a sequence from the left, as the loops over             *)
(* transactions and blocks do.  An INSTANCE of this module gives the facts *)
(* below for any operator that keeps to a set D on elements of E; its      *)
(* first argument is what the loop does not change.                        *)
(***************************************************************************)

Fold(c, base, s) == FoldLeft(LAMBDA r, x : op(c, r, x), base, s)

Closed(c, D, E) == \A r \in D : \A x \in E : op(c, r, x) \in D

\* it[t] is the fold over the elements of s whose indices are in t.
IsFold(it, c, base, s) ==
  it = [t \in SUBSET (1..Len(s)) |->
          IF t = {} THEN base ELSE op(c, it[t \ {Max(t)}], s[Max(t)])]

\* A nonempty set of indices has a largest one.
LEMMA MaxIndex ==
  ASSUME NEW n \in Nat, NEW t \in SUBSET (1..n), t # {}
  PROVE  Max(t) \in t /\ \A k \in t : k <= Max(t)
<1>. DEFINE U == { n - k : k \in t }
<1>0. \A k \in t : k \in Nat /\ n - k \in Nat
  OBVIOUS
<1>1. U \in SUBSET Nat /\ U # {}
  BY <1>0
<1>2. PICK u \in U : \A k \in U : u <= k
  BY <1>1, LeastNat
<1>3. PICK m \in t : u = n - m
  BY <1>2
<1>4. \A k \in t : m >= k
  <2>1. \A k \in t : n - m <= n - k
    BY <1>2, <1>3
  <2>. QED  BY <1>0, <2>1
<1>5. Max(t) \in t /\ \A k \in t : Max(t) >= k
  <2>. HIDE DEF U
  <2>. QED  BY <1>4 DEF Max
<1>. QED  BY <1>0, <1>5

\* The recursive function in the definition of FoldLeft exists.
LEMMA FoldIs ==
  ASSUME NEW c, NEW D, NEW E, Closed(c, D, E), NEW base \in D, NEW s \in Seq(E)
  PROVE  \E it : IsFold(it, c, base, s) /\ Fold(c, base, s) = it[1..Len(s)]
<1>. DEFINE S == 1..Len(s)
            Pick == [t \in SUBSET S |-> Max(t)]
            F == [x \in S \X D |-> op(c, x[2], s[x[1]])]
<1>0. Len(s) \in Nat /\ IsFiniteSet(S) /\ DOMAIN s = S /\ \A i \in S : s[i] \in E
  BY FS_Interval
<1>1. \A t \in SUBSET S : t # {} => Max(t) \in t
  BY <1>0, MaxIndex
<1>2. Picks(Pick, S)
  BY <1>1 DEF Picks
<1>3. F \in [S \X D -> D]
  BY <1>0 DEF Closed
<1>4. \A i \in S, r \in D : F[<<i, r>>] = op(c, r, s[i])
  OBVIOUS
<1>5. PICK it \in [SUBSET S -> D] : FoldsOver(it, S, base, Pick, F)
  <2>. HIDE DEF S, Pick, F
  <2>. QED  BY <1>0, <1>2, <1>3, FoldExists
<1>6. \A t \in SUBSET S : it[t] = IF t = {} THEN base ELSE op(c, it[t \ {Max(t)}], s[Max(t)])
  <2>1. SUFFICES ASSUME NEW t \in SUBSET S
                 PROVE  it[t] = IF t = {} THEN base ELSE op(c, it[t \ {Max(t)}], s[Max(t)])
    OBVIOUS
  <2>2. it[t] = IF t = {} THEN base ELSE F[<<Max(t), it[t \ {Max(t)}]>>]
    <3>. HIDE DEF F
    <3>. QED  BY <1>5 DEF FoldsOver
  <2>3. t # {} => Max(t) \in S /\ it[t \ {Max(t)}] \in D
    BY <1>1, <1>5
  <2>. HIDE DEF F
  <2>. QED  BY <1>4, <2>2, <2>3
<1>7. IsFold(it, c, base, s)
  BY <1>5, <1>6 DEF IsFold
<1>8. Fold(c, base, s) = (CHOOSE f : IsFold(f, c, base, s))[S]
  BY <1>0 DEF Fold, FoldLeft, MapThenFoldSet, IsFold
<1>. QED  BY <1>7, <1>8

\* A fold keeps to D; the fold of the empty sequence is the base, and that of a
\* sequence with one more element is one step further.
LEMMA FoldStep ==
  ASSUME NEW c, NEW D, NEW E, Closed(c, D, E), NEW base \in D
  PROVE  /\ Fold(c, base, <<>>) = base
         /\ \A s \in Seq(E) :
              /\ Fold(c, base, s) \in D
              /\ \A x \in E : Fold(c, base, Append(s, x)) = op(c, Fold(c, base, s), x)
<1>1. Fold(c, base, <<>>) = base
  <2>1. \A s \in Seq(E) : \E it : IsFold(it, c, base, s) /\ Fold(c, base, s) = it[1..Len(s)]
    BY FoldIs
  <2>2. <<>> \in Seq(E) /\ 1..Len(<<>>) = {}
    OBVIOUS
  <2>3. PICK it : IsFold(it, c, base, <<>>) /\ Fold(c, base, <<>>) = it[1..Len(<<>>)]
    BY ONLY <2>1, <2>2
  <2>4. it[{}] = base
    BY <2>3 DEF IsFold
  <2>. QED  BY <2>2, <2>3, <2>4
<1>2. ASSUME NEW s \in Seq(E) PROVE Fold(c, base, s) \in D
  <2>1. PICK it : IsFold(it, c, base, s) /\ Fold(c, base, s) = it[1..Len(s)]
    BY <1>2, FoldIs
  <2>. DEFINE S == 1..Len(s)
              G == { t \in SUBSET S : it[t] \in D }
  <2>2. Len(s) \in Nat /\ IsFiniteSet(S) /\ \A i \in S : s[i] \in E
    BY FS_Interval
  <2>3. \A t \in SUBSET S : it[t] = IF t = {} THEN base ELSE op(c, it[t \ {Max(t)}], s[Max(t)])
    BY <2>1 DEF IsFold
  <2>4. \A t \in SUBSET S : t # {} => Max(t) \in t
    BY <2>2, MaxIndex
  <2>5. {} \in G
    BY <2>3
  <2>6. ASSUME NEW t \in SUBSET S, t # {}, t \ {Max(t)} \in G PROVE t \in G
    <3>1. it[t \ {Max(t)}] \in D /\ s[Max(t)] \in E
      BY <2>2, <2>4, <2>6
    <3>2. it[t] = op(c, it[t \ {Max(t)}], s[Max(t)])
      BY <2>3, <2>6
    <3>3. it[t] \in D
      BY <3>1, <3>2 DEF Closed
    <3>. QED  BY <3>3
  <2>7. \A t \in SUBSET S : t # {} => \E i \in t : t \ {i} \in G => t \in G
    <3>. HIDE DEF G, S
    <3>. QED  BY <2>4, <2>6
  <2>8. S \in G
    <3>. HIDE DEF G, S
    <3>. QED  BY <2>2, <2>5, <2>7, SubsetInduct
  <2>. QED  BY <2>1, <2>8
<1>3. ASSUME NEW s \in Seq(E), NEW x \in E
      PROVE  Fold(c, base, Append(s, x)) = op(c, Fold(c, base, s), x)
  <2>. DEFINE n == Len(s)
              S == 1..n
              T == 1..(n + 1)
  <2>0. PICK r : r = Append(s, x)
    OBVIOUS
  <2>1. /\ n \in Nat /\ r \in Seq(E) /\ Len(r) = n + 1 /\ r[n + 1] = x
        /\ \A i \in S : r[i] = s[i]
        /\ S \subseteq T /\ n + 1 \in T /\ T \ {n + 1} = S /\ IsFiniteSet(S)
    <3>1. n \in Nat /\ IsFiniteSet(S)
      BY FS_Interval
    <3>2. r \in Seq(E) /\ Len(r) = n + 1 /\ r[n + 1] = x /\ \A i \in S : r[i] = s[i]
      BY <2>0
    <3>. QED  BY <3>1, <3>2
  <2>2. PICK it : IsFold(it, c, base, s) /\ Fold(c, base, s) = it[S]
    BY <1>3, FoldIs
  <2>3. PICK jt : IsFold(jt, c, base, r) /\ Fold(c, base, r) = jt[T]
    BY <2>1, FoldIs
  <2>4. \A t \in SUBSET S : it[t] = IF t = {} THEN base ELSE op(c, it[t \ {Max(t)}], s[Max(t)])
    BY <2>2 DEF IsFold
  <2>5. \A t \in SUBSET T : jt[t] = IF t = {} THEN base ELSE op(c, jt[t \ {Max(t)}], r[Max(t)])
    BY <2>1, <2>3 DEF IsFold
  <2>6. \A t \in SUBSET S : t # {} => Max(t) \in t
    BY <2>1, MaxIndex
  <2>. DEFINE G == { t \in SUBSET S : jt[t] = it[t] }
  <2>7. {} \in G
    BY <2>1, <2>4, <2>5
  <2>8. ASSUME NEW t \in SUBSET S, t # {}, t \ {Max(t)} \in G PROVE t \in G
    BY <2>1, <2>4, <2>5, <2>6, <2>8
  <2>9. S \in G
    <3>1. \A t \in SUBSET S : t # {} => \E i \in t : t \ {i} \in G => t \in G
      <4>. HIDE DEF G, S, T
      <4>. QED  BY <2>6, <2>8
    <3>2. IsFiniteSet(S)
      BY <2>1
    <3>. HIDE DEF G, S, T, n
    <3>3. \A t \in SUBSET S : t \in G
      BY ONLY <2>7, <3>1, <3>2, SubsetInduct
    <3>. QED  BY <3>3
  <2>10. T # {} /\ Max(T) = n + 1
    <3>1. Max(T) \in T /\ \A k \in T : k <= Max(T)
      <4>1. n + 1 \in Nat /\ T \in SUBSET (1..(n + 1)) /\ T # {}
        BY <2>1
      <4>. QED  BY <4>1, MaxIndex
    <3>. QED  BY <2>1, <3>1
  <2>11. jt[T] = op(c, jt[S], x)
    <3>. HIDE DEF S, T
    <3>. QED  BY <2>1, <2>5, <2>10
  <2>. QED  BY <2>0, <2>2, <2>3, <2>9, <2>11
<1>. QED  BY <1>1, <1>2, <1>3

\* The same over a finite set, whose elements are taken in an order of its own.
SetFold(c, base, S) == FoldSet(LAMBDA x, r : op(c, r, x), base, S)

\* A fold over a set keeps to D.
LEMMA SetFoldIn ==
  ASSUME NEW c, NEW D, NEW S, IsFiniteSet(S), Closed(c, D, S), NEW base \in D
  PROVE  SetFold(c, base, S) \in D
<1>. DEFINE Pick == [t \in SUBSET S |-> CHOOSE x \in t : TRUE]
            F == [x \in S \X D |-> op(c, x[2], x[1])]
            Eq(it) == it = [t \in SUBSET S |->
                              IF t = {} THEN base
                              ELSE op(c, it[t \ {CHOOSE x \in t : TRUE}], CHOOSE x \in t : TRUE)]
<1>1. \A t \in SUBSET S : t # {} => (CHOOSE x \in t : TRUE) \in t
  OBVIOUS
<1>2. Picks(Pick, S)
  BY <1>1 DEF Picks
<1>3. F \in [S \X D -> D]
  BY DEF Closed
<1>4. \A i \in S, r \in D : F[<<i, r>>] = op(c, r, i)
  OBVIOUS
<1>5. PICK jt \in [SUBSET S -> D] : FoldsOver(jt, S, base, Pick, F)
  <2>. HIDE DEF Pick, F
  <2>. QED  BY <1>2, <1>3, FoldExists
<1>6. ASSUME NEW t \in SUBSET S
      PROVE  jt[t] = IF t = {} THEN base
                     ELSE op(c, jt[t \ {CHOOSE x \in t : TRUE}], CHOOSE x \in t : TRUE)
  <2>1. jt[t] = IF t = {} THEN base ELSE F[<<Pick[t], jt[t \ {Pick[t]}]>>]
    <3>. HIDE DEF F, Pick
    <3>. QED  BY <1>5 DEF FoldsOver
  <2>2. t # {} => Pick[t] \in S /\ jt[t \ {Pick[t]}] \in D
    BY <1>1, <1>5
  <2>3. Pick[t] = CHOOSE x \in t : TRUE
    OBVIOUS
  <2>. HIDE DEF F, Pick
  <2>. QED  BY <1>4, <2>1, <2>2, <2>3
<1>7. Eq(jt)
  BY <1>5, <1>6
<1>8. SetFold(c, base, S) = (CHOOSE it : Eq(it))[S]
  BY DEF SetFold, FoldSet, MapThenFoldSet
<1>9. PICK it : Eq(it) /\ SetFold(c, base, S) = it[S]
  <2>. HIDE DEF Eq
  <2>. QED  BY <1>7, <1>8
<1>10. \A t \in SUBSET S : it[t] = IF t = {} THEN base
                     ELSE op(c, it[t \ {CHOOSE x \in t : TRUE}], CHOOSE x \in t : TRUE)
  BY <1>9
<1>. DEFINE G == { t \in SUBSET S : it[t] \in D }
<1>11. {} \in G
  BY <1>10
<1>12. ASSUME NEW t \in SUBSET S, t # {} PROVE \E x \in t : t \ {x} \in G => t \in G
  <2>1. PICK x : x = CHOOSE y \in t : TRUE
    OBVIOUS
  <2>2. x \in t /\ x \in S
    BY <1>1, <1>12, <2>1
  <2>3. it[t] = op(c, it[t \ {x}], x)
    BY <1>10, <1>12, <2>1
  <2>4. it[t \ {x}] \in D => it[t] \in D
    BY <2>2, <2>3 DEF Closed
  <2>. QED  BY <2>2, <2>4
<1>13. S \in G
  <2>1. \A t \in SUBSET S : t # {} => \E x \in t : t \ {x} \in G => t \in G
    BY <1>12
  <2>. HIDE DEF G
  <2>. QED  BY <1>11, <2>1, SubsetInduct
<1>. QED  BY <1>9, <1>13

\* Q[t] is what the elements of t may give, and one more element leads on.
LeadsUp(c, Q, S) ==
  \A t \in SUBSET S : \A x \in S \ t : \A r \in Q[t] : op(c, r, x) \in Q[t \cup {x}]

\* A fold over a set whose value depends on what has been taken.
LEMMA SetFoldTo ==
  ASSUME NEW c, NEW S, IsFiniteSet(S), NEW Q, NEW base, base \in Q[{}], LeadsUp(c, Q, S)
  PROVE  SetFold(c, base, S) \in Q[S]
<1>. DEFINE D == UNION {Q[t] : t \in SUBSET S}
            Pick == [t \in SUBSET S |-> CHOOSE x \in t : TRUE]
            F == [x \in S \X D |-> IF op(c, x[2], x[1]) \in D THEN op(c, x[2], x[1]) ELSE base]
            Eq(it) == it = [t \in SUBSET S |->
                              IF t = {} THEN base
                              ELSE op(c, it[t \ {CHOOSE x \in t : TRUE}], CHOOSE x \in t : TRUE)]
<1>0. \A t \in SUBSET S : Q[t] \subseteq D
  OBVIOUS
<1>1. \A t \in SUBSET S : t # {} => (CHOOSE x \in t : TRUE) \in t
  OBVIOUS
<1>2. Picks(Pick, S)
  BY <1>1 DEF Picks
<1>3. base \in D /\ F \in [S \X D -> D]
  <2>1. base \in D
    BY <1>0
  <2>. HIDE DEF D
  <2>. QED  BY <2>1
<1>4. \A i \in S, r \in D : op(c, r, i) \in D => F[<<i, r>>] = op(c, r, i)
  <2>. HIDE DEF D
  <2>. QED  OBVIOUS
<1>5. PICK jt \in [SUBSET S -> D] : FoldsOver(jt, S, base, Pick, F)
  <2>. HIDE DEF Pick, F, D
  <2>. QED  BY <1>2, <1>3, FoldExists
<1>6. \A t \in SUBSET S : jt[t] = IF t = {} THEN base ELSE F[<<Pick[t], jt[t \ {Pick[t]}]>>]
  <2>. HIDE DEF F, Pick, D
  <2>. QED  BY <1>5 DEF FoldsOver
<1>7. \A t \in SUBSET S : t # {} => LET x == CHOOSE y \in t : TRUE
                                  IN  Pick[t] = x /\ x \in t /\ x \in S /\ x \notin t \ {x}
                                      /\ t \ {x} \in SUBSET S /\ (t \ {x}) \cup {x} = t
  BY <1>1
<1>8. ASSUME NEW t \in SUBSET S, NEW x \in S, x \notin t, NEW r \in Q[t]
      PROVE  op(c, r, x) \in Q[t \cup {x}] /\ F[<<x, r>>] = op(c, r, x)
  <2>1. op(c, r, x) \in Q[t \cup {x}]
    BY <1>8 DEF LeadsUp
  <2>2. r \in D /\ op(c, r, x) \in D
    <3>1. t \cup {x} \in SUBSET S
      OBVIOUS
    <3>. QED  BY <1>0, <2>1, <3>1
  <2>. HIDE DEF F, D
  <2>. QED  BY <1>4, <2>1, <2>2
<1>. DEFINE G == { t \in SUBSET S : jt[t] \in Q[t] }
<1>9. {} \in G
  BY <1>6
<1>10. ASSUME NEW t \in SUBSET S, t # {} PROVE \E x \in t : t \ {x} \in G => t \in G
  <2>1. PICK x : x = CHOOSE y \in t : TRUE
    OBVIOUS
  <2>2. /\ Pick[t] = x /\ x \in t /\ x \in S /\ x \notin t \ {x}
        /\ t \ {x} \in SUBSET S /\ (t \ {x}) \cup {x} = t
    BY <1>7, <1>10, <2>1
  <2>. HIDE DEF F, D, Pick
  <2>3. jt[t] = F[<<x, jt[t \ {x}]>>]
    BY <1>6, <1>10, <2>2
  <2>4. jt[t \ {x}] \in Q[t \ {x}] => jt[t] \in Q[t]
    <3>1. PICK u, r : u = t \ {x} /\ r = jt[t \ {x}]
      OBVIOUS
    <3>2. r \in Q[u] => op(c, r, x) \in Q[u \cup {x}] /\ F[<<x, r>>] = op(c, r, x)
      BY <1>8, <2>2, <3>1
    <3>. QED  BY <2>2, <2>3, <3>1, <3>2
  <2>. QED  BY <2>2, <2>4
<1>11. \A t \in SUBSET S : jt[t] \in Q[t]
  <2>1. \A t \in SUBSET S : t # {} => \E x \in t : t \ {x} \in G => t \in G
    BY <1>10
  <2>2. \A t \in SUBSET S : t \in G
    <3>. HIDE DEF G, F, D, Pick
    <3>. QED  BY ONLY <1>9, <2>1, SubsetInduct, IsFiniteSet(S)
  <2>. QED  BY <2>2
<1>12. ASSUME NEW t \in SUBSET S
       PROVE  jt[t] = IF t = {} THEN base
                      ELSE op(c, jt[t \ {CHOOSE x \in t : TRUE}], CHOOSE x \in t : TRUE)
  <2>1. CASE t = {}
    BY <1>6, <2>1
  <2>2. CASE t # {}
    <3>1. PICK x : x = CHOOSE y \in t : TRUE
      OBVIOUS
    <3>2. /\ Pick[t] = x /\ x \in t /\ x \in S /\ x \notin t \ {x}
          /\ t \ {x} \in SUBSET S /\ (t \ {x}) \cup {x} = t
      BY <1>7, <2>2, <3>1
    <3>3. jt[t] = F[<<x, jt[t \ {x}]>>]
      <4>. HIDE DEF F, D, Pick
      <4>. QED  BY <1>6, <2>2, <3>2
    <3>4. jt[t] = op(c, jt[t \ {x}], x)
      <4>1. PICK u, r : u = t \ {x} /\ r = jt[t \ {x}]
        OBVIOUS
      <4>. HIDE DEF F, D, Pick
      <4>2. r \in Q[u]
        BY <1>11, <3>2, <4>1
      <4>3. F[<<x, r>>] = op(c, r, x)
        BY <1>8, <3>2, <4>1, <4>2
      <4>. QED  BY <3>3, <4>1, <4>3
    <3>. QED  BY <2>2, <3>1, <3>4
  <2>. QED  BY <2>1, <2>2
<1>13. Eq(jt)
  BY <1>5, <1>12
<1>14. SetFold(c, base, S) = (CHOOSE it : Eq(it))[S]
  BY DEF SetFold, FoldSet, MapThenFoldSet
<1>15. PICK it : Eq(it) /\ SetFold(c, base, S) = it[S]
  <2>. HIDE DEF Eq
  <2>. QED  BY <1>13, <1>14
<1>16. \A t \in SUBSET S : it[t] = IF t = {} THEN base
                      ELSE op(c, it[t \ {CHOOSE x \in t : TRUE}], CHOOSE x \in t : TRUE)
  BY <1>15
<1>. DEFINE H == { t \in SUBSET S : it[t] \in Q[t] }
<1>17. {} \in H
  BY <1>16
<1>18. ASSUME NEW t \in SUBSET S, t # {} PROVE \E x \in t : t \ {x} \in H => t \in H
  <2>1. PICK x : x = CHOOSE y \in t : TRUE
    OBVIOUS
  <2>2. /\ x \in t /\ x \in S /\ x \notin t \ {x}
        /\ t \ {x} \in SUBSET S /\ (t \ {x}) \cup {x} = t
    BY <1>7, <1>18, <2>1
  <2>3. it[t] = op(c, it[t \ {x}], x)
    BY <1>16, <1>18, <2>1
  <2>4. it[t \ {x}] \in Q[t \ {x}] => it[t] \in Q[t]
    <3>1. PICK u, r : u = t \ {x} /\ r = it[t \ {x}]
      OBVIOUS
    <3>. HIDE DEF F, D, Pick
    <3>2. r \in Q[u] => op(c, r, x) \in Q[u \cup {x}]
      BY <1>8, <2>2, <3>1
    <3>. QED  BY <2>2, <2>3, <3>1, <3>2
  <2>. QED  BY <2>2, <2>4
<1>19. \A t \in SUBSET S : t \in H
  <2>1. \A t \in SUBSET S : t # {} => \E x \in t : t \ {x} \in H => t \in H
    BY <1>18
  <2>. HIDE DEF H, F, D, Pick
  <2>. QED  BY ONLY <1>17, <2>1, SubsetInduct, IsFiniteSet(S)
<1>. QED  BY <1>15, <1>19

\* Folding from the right, as a journal is undone.
RFold(c, base, s) == FoldRight(LAMBDA x, r : op(c, r, x), s, base)

\* Q[k] is what there may be when the first k elements are still to come.
LeadsDown(c, Q, s) ==
  \A k \in 1..Len(s) : \A r \in Q[k] : op(c, r, s[k]) \in Q[k - 1]

\* A fold from the right whose value depends on what is still to come.
LEMMA RFoldTo ==
  ASSUME NEW c, NEW D, NEW E, Closed(c, D, E), NEW base \in D, NEW s \in Seq(E), NEW Q,
         base \in Q[Len(s)], LeadsDown(c, Q, s)
  PROVE  RFold(c, base, s) \in Q[0]
<1>. DEFINE n == Len(s)
            S == 1..n
            Pick == [t \in SUBSET S |-> Min(t)]
            F == [x \in S \X D |-> op(c, x[2], s[x[1]])]
            Eq(it) == it = [t \in SUBSET S |->
                              IF t = {} THEN base ELSE op(c, it[t \ {Min(t)}], s[Min(t)])]
<1>0. n \in Nat /\ IsFiniteSet(S) /\ DOMAIN s = S /\ \A i \in S : s[i] \in E
  BY FS_Interval
<1>1. ASSUME NEW t \in SUBSET S, t # {} PROVE Min(t) \in t /\ \A k \in t : Min(t) <= k
  <2>1. t \in SUBSET Nat
    BY <1>0
  <2>2. PICK m \in t : \A k \in t : m <= k
    BY <1>1, <2>1, LeastNat
  <2>. QED  BY <2>2 DEF Min
<1>2. Picks(Pick, S)
  BY <1>1 DEF Picks
<1>3. F \in [S \X D -> D]
  BY <1>0 DEF Closed
<1>4. \A i \in S, r \in D : F[<<i, r>>] = op(c, r, s[i])
  OBVIOUS
<1>5. PICK jt \in [SUBSET S -> D] : FoldsOver(jt, S, base, Pick, F)
  <2>. HIDE DEF S, Pick, F
  <2>. QED  BY <1>0, <1>2, <1>3, FoldExists
<1>6. ASSUME NEW t \in SUBSET S
      PROVE  jt[t] = IF t = {} THEN base ELSE op(c, jt[t \ {Min(t)}], s[Min(t)])
  <2>1. jt[t] = IF t = {} THEN base ELSE F[<<Min(t), jt[t \ {Min(t)}]>>]
    <3>. HIDE DEF F
    <3>. QED  BY <1>5 DEF FoldsOver
  <2>2. t # {} => Min(t) \in S /\ jt[t \ {Min(t)}] \in D
    BY <1>1, <1>5
  <2>. HIDE DEF F
  <2>. QED  BY <1>4, <2>1, <2>2
<1>7. Eq(jt)
  BY <1>5, <1>6
<1>8. RFold(c, base, s) = (CHOOSE it : Eq(it))[S]
  BY <1>0 DEF RFold, FoldRight, MapThenFoldSet
<1>9. PICK it : Eq(it) /\ RFold(c, base, s) = it[S]
  <2>. HIDE DEF Eq
  <2>. QED  BY <1>7, <1>8
<1>10. \A t \in SUBSET S : it[t] = IF t = {} THEN base ELSE op(c, it[t \ {Min(t)}], s[Min(t)])
  BY <1>9
<1>. DEFINE T(k) == (k + 1)..n
            G == { m \in Nat : m <= n => it[T(n - m)] \in Q[n - m] }
<1>11. 0 \in G
  <2>1. T(n) = {} /\ n - 0 = n
    BY <1>0
  <2>2. it[{}] = base
    BY <1>10
  <2>. QED  BY <1>0, <2>1, <2>2
<1>12. ASSUME NEW m \in Nat, m \in G PROVE m + 1 \in G
  <2>1. SUFFICES ASSUME m + 1 <= n PROVE it[T(n - (m + 1))] \in Q[n - (m + 1)]
    OBVIOUS
  <2>2. PICK k : k = n - m
    OBVIOUS
  <2>3. k \in 1..n /\ k - 1 = n - (m + 1) /\ it[T(k)] \in Q[k]
    BY <1>0, <1>12, <2>1, <2>2
  <2>4. T(k - 1) = k..n /\ T(k - 1) \in SUBSET S /\ T(k - 1) # {}
        /\ T(k - 1) \ {k} = T(k) /\ \A i \in T(k - 1) : k <= i
    BY <1>0, <2>3
  <2>5. Min(T(k - 1)) = k
    <3>1. Min(T(k - 1)) \in T(k - 1) /\ \A i \in T(k - 1) : Min(T(k - 1)) <= i
      <4>. HIDE DEF T, S
      <4>. QED  BY <1>1, <2>4
    <3>. QED  BY <1>0, <2>3, <2>4, <3>1
  <2>6. it[T(k - 1)] = op(c, it[T(k)], s[k])
    <3>. HIDE DEF T, S
    <3>. QED  BY <1>10, <2>4, <2>5
  <2>7. op(c, it[T(k)], s[k]) \in Q[k - 1]
    <3>. HIDE DEF T, S
    <3>. QED  BY <2>3 DEF LeadsDown
  <2>. QED  BY <2>3, <2>6, <2>7
<1>13. n \in G
  <2>1. \A m \in Nat : m \in G
    <3>. HIDE DEF G
    <3>. QED  BY <1>11, <1>12, NatInduct
  <2>. QED  BY <1>0, <2>1
<1>14. T(0) = S /\ n - n = 0 /\ n <= n
  BY <1>0
<1>15. it[T(n - n)] \in Q[n - n]
  <2>. HIDE DEF T, n
  <2>. QED  BY <1>13, <1>14
<1>. QED  BY <1>9, <1>14, <1>15
=============================================================================
