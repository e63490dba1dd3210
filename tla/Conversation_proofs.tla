------------------------ MODULE Conversation_proofs ------------------------
(***************************************************************************)
(* Proofs about Conversation, for every set of names, any number of turns  *)
(* and texts of any length: of a pattern that does not match its own       *)
(* placeholder, in a world that brings no name after the model made one up.*)
(***************************************************************************)
EXTENDS Conversation, FiniteSetTheorems, SequenceTheorems, WellFoundedInduction, TLAPS

-----------------------------------------------------------------------------
(* Numbers and first appearances, of any text.                             *)

\* A set of numbers has a least one.
LEMMA Least ==
  ASSUME NEW S \in SUBSET Nat, S # {}
  PROVE  \E x \in S : \A y \in S : x <= y
<1>1. IsWellFoundedOn(OpToRel(<, Nat), Nat)
  BY NatLessThanWellFounded
<1>2. PICK x \in S : \A y \in S : ~(<<y, x>> \in OpToRel(<, Nat))
  BY <1>1, WFMin
<1>3. ASSUME NEW y \in S, y < x PROVE FALSE
  <2>1. <<y, x>> \in Nat \X Nat /\ <<y, x>>[1] < <<y, x>>[2]
    BY <1>3
  <2>2. QED
    BY <1>2, <2>1, Zenon DEF OpToRel
<1>4. \A y \in S : x \in Nat /\ y \in Nat /\ ~(y < x)
  BY <1>3
<1>5. QED
  BY <1>4

\* What matches in a text appears there for the first time.
LEMMA FirstAppearance ==
  ASSUME NEW n \in Nat, NEW s, DOMAIN s = 1 .. n, NEW i \in 1 .. n, Matched(s[i])
  PROVE  \E f \in FirstAt(s) : f <= i /\ s[f] = s[i]
<1>. DEFINE S == {j \in 1 .. n : s[j] = s[i]}
<1>1. PICK f \in S : \A j \in S : f <= j
  <2>1. S \in SUBSET Nat /\ i \in S
    OBVIOUS
  <2>. HIDE DEF S
  <2>2. QED
    BY <2>1, Least
<1>2. f \in 1 .. n /\ s[f] = s[i] /\ f <= i /\ i \in S
  BY <1>1
<1>3. ASSUME NEW j \in 1 .. (f - 1) PROVE s[j] # s[f]
  BY <1>1, <1>2, <1>3
<1>4. QED
  BY <1>2, <1>3 DEF FirstAt

\* The first appearances are finitely many, no two of one token.
LEMMA Firsts ==
  ASSUME NEW n \in Nat, NEW s, DOMAIN s = 1 .. n
  PROVE  /\ FirstAt(s) \subseteq 1 .. n
         /\ IsFiniteSet(FirstAt(s)) /\ Cardinality(FirstAt(s)) \in Nat
         /\ \A f \in FirstAt(s) : Matched(s[f])
         /\ \A f, g \in FirstAt(s) : s[f] = s[g] => f = g
<1>1. FirstAt(s) \subseteq 1 .. n
  BY DEF FirstAt
<1>2. IsFiniteSet(FirstAt(s)) /\ Cardinality(FirstAt(s)) \in Nat
  <2>1. IsFiniteSet(1 .. n)
    BY FS_Interval
  <2>2. FirstAt(s) \in SUBSET (1 .. n)
    BY <1>1
  <2>3. QED
    BY <2>1, <2>2, FS_Subset, FS_CardinalityType
<1>3. ASSUME NEW f \in FirstAt(s), NEW g \in FirstAt(s), s[f] = s[g], f < g
      PROVE  FALSE
  BY <1>1, <1>3 DEF FirstAt
<1>4. \A f, g \in FirstAt(s) : f \in Nat /\ g \in Nat
  BY <1>1
<1>5. ASSUME NEW f \in FirstAt(s), NEW g \in FirstAt(s), s[f] = s[g] PROVE f = g
  BY <1>3, <1>4, <1>5
<1>6. QED
  BY <1>1, <1>2, <1>5 DEF FirstAt

\* The rank of a first appearance grows with it, from 1 to the number of them.
LEMMA Ranks ==
  ASSUME NEW n \in Nat, NEW s, DOMAIN s = 1 .. n
  PROVE  /\ \A f \in FirstAt(s) : Rank(s, f) \in 1 .. Cardinality(FirstAt(s))
         /\ \A f, g \in FirstAt(s) : f < g => Rank(s, f) < Rank(s, g)
         /\ \A f, g \in FirstAt(s) : Rank(s, f) = Rank(s, g) => f = g
<1>. DEFINE F == FirstAt(s)
            Upto(f) == {j \in F : j <= f}
<1>1. F \in SUBSET (1 .. n) /\ IsFiniteSet(F) /\ Cardinality(F) \in Nat
  BY Firsts
<1>2. \A f : Rank(s, f) = Cardinality(Upto(f))
  BY DEF Rank
<1>3. \A f : Upto(f) \in SUBSET F /\ \A j \in F : j \in Upto(f) <=> j <= f
  OBVIOUS
<1>4. \A f \in F : f \in Nat /\ f <= f
  BY <1>1
<1>. HIDE DEF Upto, F
<1>5. ASSUME NEW f PROVE IsFiniteSet(Upto(f)) /\ Cardinality(Upto(f)) \in Nat
                           /\ Cardinality(Upto(f)) <= Cardinality(F)
  BY <1>1, <1>3, FS_Subset, FS_CardinalityType
<1>6. ASSUME NEW f \in F PROVE Cardinality(Upto(f)) # 0
  <2>1. f \in Upto(f)
    BY <1>3, <1>4
  <2>2. QED
    BY <1>5, <2>1, FS_EmptySet
<1>7. ASSUME NEW f \in F, NEW g \in F, f < g
      PROVE  Cardinality(Upto(f)) < Cardinality(Upto(g))
  <2>1. Upto(f) \in SUBSET Upto(g) /\ g \in Upto(g) /\ g \notin Upto(f)
    <3>1. \A j \in F : j <= f => j <= g
      BY <1>4, <1>7
    <3>2. ~(g <= f)
      BY <1>4, <1>7
    <3>3. QED
      BY <1>3, <1>4, <3>1, <3>2
  <2>2. Cardinality(Upto(f)) <= Cardinality(Upto(g)) /\ Cardinality(Upto(f)) # Cardinality(Upto(g))
    BY <1>5, <2>1, FS_Subset
  <2>3. QED
    BY <1>5, <2>2
<1>8. ASSUME NEW f \in F, NEW g \in F, Cardinality(Upto(f)) = Cardinality(Upto(g))
      PROVE  f = g
  <2>1. Cardinality(Upto(f)) \in Nat /\ Cardinality(Upto(g)) \in Nat
    BY <1>5
  <2>2. ~(f < g) /\ ~(g < f)
    BY <1>7, <1>8, <2>1
  <2>3. QED
    BY <1>4, <2>2
<1>9. ASSUME NEW f \in F PROVE Cardinality(Upto(f)) \in 1 .. Cardinality(F)
  BY <1>1, <1>5, <1>6
<1>10. QED
  BY <1>2, <1>7, <1>8, <1>9 DEF F

\* Each number up to that of the first appearances is the rank of one.
LEMMA RankReached ==
  ASSUME NEW n \in Nat, NEW s, DOMAIN s = 1 .. n
  PROVE  \A k \in 1 .. Cardinality(FirstAt(s)) : \E f \in FirstAt(s) : Rank(s, f) = k
<1>. DEFINE F == FirstAt(s)
            C == 1 .. Cardinality(F)
            rank == [f \in F |-> Rank(s, f)]
<1>1. IsFiniteSet(F) /\ Cardinality(F) \in Nat
  BY Firsts
<1>2. rank \in [F -> C] /\ \A f, g \in F : rank[f] = rank[g] => f = g
  BY Ranks
<1>3. IsFiniteSet(C) /\ Cardinality(C) = Cardinality(F)
  <2>. HIDE DEF F
  <2>1. QED
    BY <1>1, FS_Interval
<1>4. rank \in Surjection(F, C)
  <2>. HIDE DEF F, C, rank
  <2>1. rank \in Injection(F, C)
    BY <1>2 DEF Injection, IsInjective
  <2>2. QED
    BY <1>3, <2>1, FS_Injection
<1>5. \A k \in C : \E f \in F : rank[f] = k
  <2>. HIDE DEF F, C, rank
  <2>1. QED
    BY <1>4 DEF Surjection
<1>6. QED
  BY <1>5

\* The captures of a text are its first appearances in order: each matching
\* token of it once, under the rank of its first appearance.
LEMMA Captures ==
  ASSUME NEW n \in Nat, NEW s, DOMAIN s = 1 .. n
  PROVE  /\ DOMAIN Matches(s) = 1 .. Cardinality(FirstAt(s))
         /\ Len(Matches(s)) = Cardinality(FirstAt(s))
         /\ \A f \in FirstAt(s) : Matches(s)[Rank(s, f)] = s[f]
         /\ \A t : t \in ToSet(Matches(s)) <=> Matched(t) /\ \E i \in 1 .. n : t = s[i]
         /\ \A f \in FirstAt(s) : PositionOf(s[f], Matches(s)) = Rank(s, f)
<1>. DEFINE F == FirstAt(s)
            C == Cardinality(F)
            M == Matches(s)
            R(f) == Rank(s, f)
<1>1. /\ F \in SUBSET (1 .. n) /\ C \in Nat
      /\ \A f \in F : Matched(s[f])
      /\ \A f, g \in F : s[f] = s[g] => f = g
  BY Firsts
<1>2. \A f \in F : R(f) \in 1 .. C
  BY Ranks
<1>3. \A f, g \in F : R(f) = R(g) => f = g
  BY Ranks
<1>4. \A k \in 1 .. C : \E f \in F : R(f) = k
  BY RankReached
<1>5. M = [k \in 1 .. C |-> s[CHOOSE i \in F : R(i) = k]]
  BY DEF Matches
<1>6. \A i \in 1 .. n : Matched(s[i]) => \E f \in F : s[f] = s[i]
  BY FirstAppearance
<1>. HIDE DEF F, C, M, R
<1>7. DOMAIN M = 1 .. C
  BY <1>5
<1>8. Len(M) = C
  <2>. DEFINE V == {M[j] : j \in 1 .. C}
  <2>1. M \in [1 .. C -> V]
    BY <1>5
  <2>. HIDE DEF V
  <2>2. M \in Seq(V)
    BY <1>1, <2>1, SeqDef
  <2>3. QED
    BY <1>1, <1>7, <2>2, LenProperties
<1>9. ASSUME NEW f \in F PROVE M[R(f)] = s[f]
  <2>1. M[R(f)] = s[CHOOSE i \in F : R(i) = R(f)]
    BY <1>2, <1>5
  <2>2. (CHOOSE i \in F : R(i) = R(f)) = f
    BY <1>3
  <2>3. QED
    BY <2>1, <2>2
<1>10. \A k \in DOMAIN M : \E f \in F : R(f) = k /\ M[k] = s[f]
  BY <1>4, <1>7, <1>9
<1>11. ASSUME NEW t PROVE t \in ToSet(M) <=> Matched(t) /\ \E i \in 1 .. n : t = s[i]
  <2>1. t \in ToSet(M) <=> \E k \in DOMAIN M : t = M[k]
    BY DEF ToSet
  <2>2. (\E k \in DOMAIN M : t = M[k]) => Matched(t) /\ \E i \in 1 .. n : t = s[i]
    BY <1>1, <1>10
  <2>3. ASSUME Matched(t), NEW i \in 1 .. n, t = s[i] PROVE \E k \in DOMAIN M : t = M[k]
    BY <1>2, <1>6, <1>7, <1>9, <2>3
  <2>4. QED
    BY <2>1, <2>2, <2>3
<1>12. ASSUME NEW f \in F PROVE PositionOf(s[f], M) = R(f)
  <2>1. R(f) \in DOMAIN M /\ M[R(f)] = s[f]
    BY <1>2, <1>7, <1>9
  <2>2. \A k \in DOMAIN M : M[k] = s[f] => k = R(f)
    BY <1>1, <1>10
  <2>3. QED
    BY <2>1, <2>2 DEF PositionOf
<1>13. QED
  BY <1>7, <1>8, <1>9, <1>11, <1>12 DEF F, C, M, R

\* Two texts with the same identifiers in the same places are numbered alike.
LEMMA NumberedAlike ==
  ASSUME NEW n \in Nat, NEW x, NEW y, DOMAIN x = 1 .. n, DOMAIN y = 1 .. n,
         \A i \in 1 .. n : /\ Matched(x[i]) <=> Matched(y[i])
                           /\ Matched(x[i]) => x[i] = y[i]
  PROVE  Matches(x) = Matches(y)
<1>. DEFINE F == FirstAt(x)
            C == Cardinality(F)
<1>1. FirstAt(y) = F
  <2>1. ASSUME NEW i \in 1 .. n, Matched(x[i]), NEW j \in 1 .. (i - 1)
        PROVE  x[j] = x[i] <=> y[j] = y[i]
    <3>1. j \in 1 .. n
      OBVIOUS
    <3>2. QED
      BY <2>1, <3>1
  <2>2. ASSUME NEW i \in 1 .. n PROVE i \in FirstAt(x) <=> i \in FirstAt(y)
    BY <2>1 DEF FirstAt
  <2>3. QED
    BY <2>2 DEF FirstAt
<1>2. \A i : Rank(x, i) = Rank(y, i)
  BY <1>1 DEF Rank
<1>3. /\ DOMAIN Matches(x) = 1 .. C /\ DOMAIN Matches(y) = 1 .. C
      /\ \A f \in F : Matches(x)[Rank(x, f)] = x[f] /\ Matches(y)[Rank(y, f)] = y[f]
  BY <1>1, Captures
<1>4. \A k \in 1 .. C : \E f \in F : Rank(x, f) = k
  BY RankReached
<1>5. \A f \in F : x[f] = y[f]
  BY Firsts
<1>6. \A k \in 1 .. C : Matches(x)[k] = Matches(y)[k]
  BY <1>2, <1>3, <1>4, <1>5
<1>7. Matches(x) = [k \in DOMAIN Matches(x) |-> Matches(x)[k]]
      /\ Matches(y) = [k \in DOMAIN Matches(y) |-> Matches(y)[k]]
  BY DEF Matches
<1>. HIDE DEF F, C
<1>8. QED
  BY <1>3, <1>6, <1>7

\* What a text goes on with leaves the numbers of what it began with.
LEMMA NumbersKept ==
  ASSUME NEW n \in Nat, NEW m \in Nat, n <= m, NEW x, NEW z,
         DOMAIN x = 1 .. n, DOMAIN z = 1 .. m, \A i \in 1 .. n : z[i] = x[i]
  PROVE  /\ \A i \in 1 .. n : i \in FirstAt(z) <=> i \in FirstAt(x)
         /\ \A i \in 1 .. n : Rank(z, i) = Rank(x, i)
         /\ \A i \in 1 .. n : Matched(x[i]) =>
              PositionOf(x[i], Matches(z)) = PositionOf(x[i], Matches(x))
<1>1. \A i \in 1 .. n : i \in 1 .. m /\ \A j \in 1 .. (i - 1) : j \in 1 .. n
  OBVIOUS
<1>2. ASSUME NEW i \in 1 .. n PROVE i \in FirstAt(z) <=> i \in FirstAt(x)
  BY <1>1 DEF FirstAt
<1>3. ASSUME NEW i \in 1 .. n PROVE Rank(z, i) = Rank(x, i)
  <2>1. FirstAt(x) \subseteq 1 .. n /\ FirstAt(z) \subseteq 1 .. m
    BY Firsts
  <2>2. \A j : j \in FirstAt(z) /\ j <= i <=> j \in FirstAt(x) /\ j <= i
    <3>1. ASSUME NEW j \in FirstAt(z), j <= i PROVE j \in 1 .. n
      BY <2>1, <3>1
    <3>2. QED
      BY <1>2, <2>1, <3>1
  <2>3. {j \in FirstAt(z) : j <= i} = {j \in FirstAt(x) : j <= i}
    BY <2>2
  <2>4. QED
    BY <2>3 DEF Rank
<1>4. ASSUME NEW i \in 1 .. n, Matched(x[i])
      PROVE  PositionOf(x[i], Matches(z)) = PositionOf(x[i], Matches(x))
  <2>1. PICK f \in FirstAt(x) : x[f] = x[i]
    BY <1>4, FirstAppearance
  <2>2. f \in 1 .. n /\ f \in FirstAt(z) /\ z[f] = x[i]
    BY <1>2, <2>1, Firsts
  <2>3. PositionOf(x[f], Matches(x)) = Rank(x, f) /\ PositionOf(z[f], Matches(z)) = Rank(z, f)
    BY <2>1, <2>2, Captures
  <2>4. QED
    BY <1>3, <2>1, <2>2, <2>3
<1>5. QED
  BY <1>2, <1>3, <1>4

\* A text that is one and then another.
Joins(z, x, n, y, m) ==
  /\ DOMAIN z = 1 .. (n + m)
  /\ \A i \in 1 .. n : z[i] = x[i]
  /\ \A i \in 1 .. m : z[n + i] = y[i]

\* The same of one identifier.
LEMMA NumberKept ==
  ASSUME NEW n \in Nat, NEW m \in Nat, NEW x, NEW y, NEW z,
         DOMAIN x = 1 .. n, Joins(z, x, n, y, m), NEW i \in 1 .. n, Matched(x[i])
  PROVE  PositionOf(x[i], Matches(z)) = PositionOf(x[i], Matches(x))
<1>1. n + m \in Nat /\ n <= n + m
  OBVIOUS
<1>2. DOMAIN z = 1 .. (n + m) /\ \A j \in 1 .. n : z[j] = x[j]
  BY DEF Joins
<1>3. QED
  BY <1>1, <1>2, NumbersKept

\* A text that is one and then another, of which only what matches in k was not
\* there before.
Continues(z, x, n, k, m) ==
  /\ DOMAIN k = 1 .. m /\ DOMAIN z = 1 .. (n + m)
  /\ \A i \in 1 .. n : z[i] = x[i]
  /\ \A i \in 1 .. m : Matched(k[i]) => z[n + i] = k[i] /\ \A j \in 1 .. n : x[j] # k[i]
  /\ \A i \in 1 .. m : ~Matched(k[i]) =>
       ~Matched(z[n + i]) \/ \E j \in 1 .. n : x[j] = z[n + i]

\* A text that goes on with what was not in it numbers that after the rest, in
\* the order it has there.
LEMMA NumbersContinued ==
  ASSUME NEW n \in Nat, NEW m \in Nat, NEW x, NEW k, NEW z,
         DOMAIN x = 1 .. n, Continues(z, x, n, k, m)
  PROVE  \A i \in 1 .. m : Matched(k[i]) =>
           PositionOf(k[i], Matches(z)) = Len(Matches(x)) + PositionOf(k[i], Matches(k))
<1>. DEFINE X == FirstAt(x)
            K == FirstAt(k)
            Z == FirstAt(z)
<1>. USE DEF Continues
<1>1. /\ X \in SUBSET (1 .. n) /\ K \in SUBSET (1 .. m) /\ Z \in SUBSET (1 .. (n + m))
      /\ IsFiniteSet(X) /\ Cardinality(X) \in Nat /\ IsFiniteSet(K)
      /\ n + m \in Nat
  BY Firsts
<1>2. \A i \in 1 .. n : i \in Z <=> i \in X
  <2>1. n <= n + m /\ n + m \in Nat
    OBVIOUS
  <2>2. QED
    BY <2>1, NumbersKept
<1>3. ASSUME NEW i \in 1 .. m PROVE n + i \in Z <=> i \in K
  <2>1. n + i \in 1 .. (n + m)
    OBVIOUS
  <2>2. CASE ~Matched(k[i])
    <3>1. i \notin K
      BY <2>2 DEF FirstAt
    <3>2. ~Matched(z[n + i]) \/ \E j \in 1 .. ((n + i) - 1) : z[j] = z[n + i]
      <4>1. \A j \in 1 .. n : j \in 1 .. ((n + i) - 1)
        OBVIOUS
      <4>2. QED
        BY <2>2, <4>1
    <3>3. n + i \notin Z
      BY <3>2 DEF FirstAt
    <3>4. QED
      BY <3>1, <3>3
  <2>3. CASE Matched(k[i])
    <3>1. z[n + i] = k[i] /\ \A j \in 1 .. n : z[j] # k[i]
      BY <2>3
    <3>2. ASSUME n + i \in Z PROVE i \in K
      <4>1. ASSUME NEW j \in 1 .. (i - 1), k[j] = k[i] PROVE FALSE
        <5>1. j \in 1 .. m /\ n + j \in 1 .. ((n + i) - 1)
          OBVIOUS
        <5>2. z[n + j] = k[j]
          BY <2>3, <4>1, <5>1
        <5>3. QED
          BY <3>1, <3>2, <4>1, <5>1, <5>2 DEF FirstAt
      <4>2. QED
        BY <2>3, <4>1 DEF FirstAt
    <3>3. ASSUME i \in K PROVE n + i \in Z
      <4>1. ASSUME NEW j \in 1 .. ((n + i) - 1), z[j] = z[n + i] PROVE FALSE
        <5>1. CASE j \in 1 .. n
          BY <3>1, <4>1, <5>1
        <5>2. CASE j \notin 1 .. n
          <6>1. PICK l \in 1 .. (i - 1) : j = n + l
            <7>1. j - n \in 1 .. (i - 1) /\ j = n + (j - n)
              BY <5>2
            <7>2. QED
              BY <7>1
          <6>2. l \in 1 .. m
            BY <6>1
          <6>3. k[l] # k[i]
            BY <3>3, <6>1 DEF FirstAt
          <6>4. Matched(z[n + l]) /\ \A q \in 1 .. n : x[q] # z[n + l]
            BY <2>3, <3>1, <4>1, <6>1
          <6>5. Matched(k[l])
            BY <6>2, <6>4
          <6>6. QED
            BY <3>1, <4>1, <6>1, <6>2, <6>3, <6>5
        <5>3. QED
          BY <5>1, <5>2
      <4>2. QED
        BY <2>1, <2>3, <3>1, <4>1 DEF FirstAt
    <3>4. QED
      BY <3>2, <3>3
  <2>4. QED
    BY <2>2, <2>3
<1>4. ASSUME NEW i \in K PROVE Rank(z, n + i) = Cardinality(X) + Rank(k, i)
  <2>. DEFINE Upto == {j \in K : j <= i}
              Shifted == {n + j : j \in Upto}
              shift == [j \in Upto |-> n + j]
  <2>1. i \in 1 .. m /\ Upto \in SUBSET K /\ Upto \in SUBSET Nat
    BY <1>1
  <2>2. IsFiniteSet(Upto) /\ Cardinality(Upto) \in Nat
    BY <1>1, <2>1, FS_Subset, FS_CardinalityType
  <2>3. IsFiniteSet(Shifted) /\ Cardinality(Shifted) = Cardinality(Upto)
    <3>1. /\ shift \in [Upto -> Shifted]
          /\ \A a, b \in Upto : shift[a] = shift[b] => a = b
          /\ \A b \in Shifted : \E a \in Upto : shift[a] = b
      <4>1. \A j \in Upto : j \in Nat
        BY <2>1
      <4>2. QED
        BY <4>1
    <3>. HIDE DEF Upto, Shifted, shift
    <3>2. shift \in Bijection(Upto, Shifted)
      BY <3>1 DEF Bijection, Injection, IsInjective, Surjection
    <3>3. ExistsBijection(Upto, Shifted)
      BY <3>2 DEF ExistsBijection
    <3>4. QED
      BY <2>2, <3>3, FS_Bijection
  <2>4. {j \in Z : j <= n + i} = X \cup Shifted
    <3>1. ASSUME NEW j \in Z, j <= n + i PROVE j \in X \cup Shifted
      <4>1. CASE j \in 1 .. n
        BY <1>2, <4>1
      <4>2. CASE j \notin 1 .. n
        <5>1. j - n \in 1 .. m /\ j = n + (j - n) /\ j - n <= i
          BY <1>1, <2>1, <3>1, <4>2
        <5>2. j - n \in Upto
          BY <1>3, <5>1
        <5>3. QED
          BY <5>1, <5>2
      <4>3. QED
        BY <4>1, <4>2
    <3>2. ASSUME NEW j \in X PROVE j \in Z /\ j <= n + i
      BY <1>1, <1>2, <2>1
    <3>3. ASSUME NEW j \in Upto PROVE n + j \in Z /\ n + j <= n + i
      <4>1. j \in K /\ j \in 1 .. m /\ j <= i
        BY <1>1
      <4>2. QED
        BY <1>3, <2>1, <4>1
    <3>4. QED
      BY <3>1, <3>2, <3>3
  <2>5. X \cap Shifted = {}
    <3>1. \A j \in Upto : n + j \notin 1 .. n
      BY <1>1
    <3>2. QED
      BY <1>1, <3>1
  <2>6. Cardinality(X \cup Shifted) = Cardinality(X) + Cardinality(Upto)
    <3>. HIDE DEF X, Shifted, Upto
    <3>1. Cardinality(X \cup Shifted) = Cardinality(X) + Cardinality(Shifted) - 0
      BY <1>1, <2>3, <2>5, FS_Union, FS_EmptySet
    <3>2. QED
      BY <1>1, <2>2, <2>3, <3>1
  <2>7. QED
    BY <2>4, <2>6 DEF Rank
<1>5. ASSUME NEW i \in 1 .. m, Matched(k[i])
      PROVE  PositionOf(k[i], Matches(z)) = Len(Matches(x)) + PositionOf(k[i], Matches(k))
  <2>1. PICK f \in K : k[f] = k[i]
    BY <1>5, FirstAppearance
  <2>2. f \in 1 .. m /\ Matched(k[f])
    BY <1>1, <1>5, <2>1
  <2>3. z[n + f] = k[i] /\ n + f \in Z
    BY <1>3, <2>1, <2>2
  <2>4. PositionOf(k[f], Matches(k)) = Rank(k, f)
    BY <2>1, Captures
  <2>5. PositionOf(z[n + f], Matches(z)) = Rank(z, n + f)
    BY <1>1, <2>3, Captures
  <2>6. Len(Matches(x)) = Cardinality(X)
    BY Captures
  <2>. HIDE DEF X, K, Z
  <2>7. QED
    BY <1>4, <2>1, <2>3, <2>4, <2>5, <2>6
<1>6. QED
  BY <1>5
-----------------------------------------------------------------------------
(* The two texts of a conversation.                                        *)

Parties == {"client", "model", "tool"}
Heard == Names("replay") \cup {Blank(n) : n \in Nat}
Histories(tokens) == Seq([by : Parties, token : tokens])
Placeholders == Marks \cup {Blank(n) : n \in Nat}

\* The replay heard what the recording said in its own names, and where the
\* model had made one up, the number that one has in the recording.
Echoes(heard, said) ==
  \A i \in DOMAIN said :
    heard[i] = IF MadeUp(said[i]) THEN Blank(PositionOf(said[i], Matches(said)))
               ELSE Elsewhere(said[i])

\* What the world brought was there before what the model made up.
BroughtFirst(said) ==
  \A j \in DOMAIN said : Brought(said[j]) =>
    \A i \in 1 .. (j - 1) : MadeUp(said[i]) => \E k \in 1 .. (i - 1) : said[k] = said[j]

\* A text of the recording, of n tokens.
Said(s, n) == DOMAIN s = 1 .. n /\ \A i \in 1 .. n : s[i] \in Names("recording")

IInv ==
  /\ recorded \in Histories(Names("recording"))
  /\ replayed \in Histories(Heard)
  /\ Len(replayed) = Len(recorded)
  /\ Echoes(TextOf(replayed), TextOf(recorded))
  /\ BroughtFirst(TextOf(recorded))
  /\ cassette \in Seq([request : Seq(Placeholders), response : Seq(Placeholders)])
  /\ ~missed

\* The tokens of the recording, and what each is on the other machine.
LEMMA Tokens ==
  ASSUME ~SelfMatching, NEW t \in Names("recording")
  PROVE  /\ t.is \in {"path", "id"} /\ t.of = "recording"
         /\ t.is = "path" => t.what \in Forms /\ t = Path("recording", t.what)
         /\ t.is = "id" => t = Id("recording", t.what) /\ (Brought(t) \/ MadeUp(t))
         /\ ~(Brought(t) /\ MadeUp(t))
         /\ Matched(t) <=> t.is = "id"
         /\ Elsewhere(t).is = t.is /\ Elsewhere(t).of = "replay" /\ Elsewhere(t).what = t.what
         /\ Elsewhere(t) \in Names("replay")
         /\ Matched(Elsewhere(t)) <=> t.is = "id"
<1>1. CASE \E f \in Forms : t = Path("recording", f)
  BY <1>1 DEF Path, Id, Names, Brought, MadeUp, Matched, Elsewhere
<1>2. CASE \E x \in Known \cup Invented : t = Id("recording", x)
  BY <1>2, ConversationAssumption DEF Path, Id, Names, Brought, MadeUp, Matched, Elsewhere
<1>3. QED
  BY <1>1, <1>2 DEF Names

\* Two tokens of the recording are told apart on the other machine.
LEMMA ToldApart ==
  ASSUME ~SelfMatching, NEW t \in Names("recording"), NEW u \in Names("recording")
  PROVE  Elsewhere(t) = Elsewhere(u) <=> t = u
<1>1. ASSUME t.is = u.is, t.what = u.what PROVE t = u
  BY <1>1, Tokens DEF Path, Id
<1>2. QED
  BY <1>1, Tokens

\* A numbered placeholder is its number, and no pattern matches it.
LEMMA Numbers ==
  ASSUME ~SelfMatching
  PROVE  /\ \A n : Blank(n).is = "blank" /\ Blank(n).what = n /\ ~Matched(Blank(n))
         /\ \A n, m : Blank(n) = Blank(m) => n = m
         /\ \A f : Mark(f).is = "mark" /\ Mark(f).what = f /\ ~Matched(Mark(f))
BY DEF Blank, Mark, Matched

\* What a text of the recording captures, and what is stored of it.
LEMMA SaidNumbers ==
  ASSUME ~SelfMatching, NEW n \in Nat, NEW said, Said(said, n)
  PROVE  /\ Captured(said, "recording") = Matches(said)
         /\ DOMAIN Apply(said, "recording") = 1 .. n
         /\ \A i \in 1 .. n : Apply(said, "recording")[i] =
              IF said[i].is = "path" THEN Mark(said[i].what)
              ELSE Blank(PositionOf(said[i], Matches(said)))
<1>. DOMAIN said = 1 .. n /\ \A i \in 1 .. n : said[i] \in Names("recording")
  BY DEF Said
<1>. DEFINE rooted == ApplyRoot(said, "recording")
            M == Matches(said)
<1>1. /\ DOMAIN rooted = 1 .. n
      /\ \A i \in 1 .. n : rooted[i] = IF said[i].is = "path" THEN Mark(said[i].what) ELSE said[i]
  <2>1. rooted = [i \in 1 .. n |-> IF said[i].is = "path" /\ said[i].of = "recording"
                                   THEN Mark(said[i].what) ELSE said[i]]
    BY DEF ApplyRoot, Replaced
  <2>2. QED
    BY <2>1, Tokens
<1>2. \A i \in 1 .. n : /\ Matched(rooted[i]) <=> said[i].is = "id"
                        /\ Matched(said[i]) <=> said[i].is = "id"
                        /\ said[i].is \in {"path", "id"}
  BY <1>1, Tokens, Numbers
<1>3. Matches(rooted) = M
  <2>. HIDE DEF rooted, M
  <2>1. QED
    BY <1>1, <1>2, NumberedAlike DEF M
<1>4. Apply(said, "recording") =
        [i \in 1 .. n |-> IF Matched(rooted[i]) THEN Blank(1 + PositionOf(rooted[i], M) - 1)
                          ELSE rooted[i]]
  <2>1. Apply(said, "recording") =
          [i \in DOMAIN rooted |-> IF Matched(rooted[i])
                                   THEN Blank(1 + PositionOf(rooted[i], Matches(rooted)) - 1)
                                   ELSE rooted[i]]
    BY DEF Apply, Numbered, Replaced
  <2>2. QED
    BY <1>1, <1>3, <2>1
<1>5. \A i \in 1 .. n : Matched(said[i]) => PositionOf(said[i], M) \in Nat
  <2>1. ASSUME NEW i \in 1 .. n, Matched(said[i]) PROVE PositionOf(said[i], M) \in Nat
    <3>1. PICK f \in FirstAt(said) : said[f] = said[i]
      BY <2>1, FirstAppearance
    <3>2. QED
      BY <3>1, Captures, Ranks
  <2>2. QED
    BY <2>1
<1>6. Captured(said, "recording") = M
  BY <1>3 DEF Captured
<1>. HIDE DEF rooted, M
<1>7. \A k \in Nat : 1 + k - 1 = k
  OBVIOUS
<1>8. QED
  BY <1>1, <1>2, <1>4, <1>5, <1>6, <1>7 DEF M
\* The identifiers the replay still has to hide are those the world brought: they
\* have the first numbers of the recording, and a request of the replay is stored
\* like that of the recording.
LEMMA HeardNumbers ==
  ASSUME ~SelfMatching, NEW n \in Nat, NEW said, Said(said, n),
         NEW heard, DOMAIN heard = 1 .. n, Echoes(heard, said), BroughtFirst(said)
  PROVE  /\ \A i \in 1 .. n : Matched(heard[i]) <=> Brought(said[i])
         /\ \A i \in 1 .. n : Brought(said[i]) =>
              /\ PositionOf(said[i], Matches(said)) \in DOMAIN Matches(heard)
              /\ Matches(heard)[PositionOf(said[i], Matches(said))] = heard[i]
              /\ PositionOf(heard[i], Matches(heard)) = PositionOf(said[i], Matches(said))
         /\ \A i \in 1 .. n : MadeUp(said[i]) =>
              PositionOf(said[i], Matches(said)) \notin DOMAIN Matches(heard)
         /\ \A k \in DOMAIN Matches(heard) : k \in Nat /\ k <= Len(Matches(said))
<1>. DOMAIN said = 1 .. n /\ \A i \in 1 .. n : said[i] \in Names("recording")
  BY DEF Said
<1>. DEFINE H == FirstAt(heard)
            S == FirstAt(said)
<1>1. /\ H \in SUBSET (1 .. n) /\ IsFiniteSet(H) /\ Cardinality(H) \in Nat
      /\ S \in SUBSET (1 .. n) /\ IsFiniteSet(S) /\ Cardinality(S) \in Nat
  BY Firsts
<1>2. ASSUME NEW i \in 1 .. n
      PROVE  /\ MadeUp(said[i]) => heard[i].is = "blank" /\ ~Matched(heard[i])
             /\ ~MadeUp(said[i]) => heard[i] = Elsewhere(said[i])
             /\ Matched(heard[i]) <=> Brought(said[i])
             /\ Matched(said[i]) <=> Brought(said[i]) \/ MadeUp(said[i])
             /\ ~(Brought(said[i]) /\ MadeUp(said[i]))
             /\ Brought(said[i]) => heard[i].is = "id"
  BY Tokens, Numbers DEF Echoes, Brought, MadeUp
<1>3. ASSUME NEW i \in 1 .. n, NEW j \in 1 .. n, Brought(said[i])
      PROVE  heard[j] = heard[i] <=> said[j] = said[i]
  <2>1. CASE MadeUp(said[j])
    BY <1>2, <1>3, <2>1
  <2>2. CASE ~MadeUp(said[j])
    BY <1>2, <1>3, <2>2, ToldApart
  <2>3. QED
    BY <2>1, <2>2
<1>4. ASSUME NEW i \in 1 .. n PROVE i \in H <=> i \in S /\ Brought(said[i])
  <2>1. \A j \in 1 .. (i - 1) : j \in 1 .. n
    OBVIOUS
  <2>2. QED
    BY <1>2, <1>3, <2>1 DEF FirstAt
<1>5. ASSUME NEW f \in H, NEW j \in S, j <= f PROVE j \in H
  <2>1. f \in 1 .. n /\ f \in S /\ Brought(said[f]) /\ j \in 1 .. n
    BY <1>1, <1>4
  <2>2. ASSUME MadeUp(said[j]) PROVE FALSE
    <3>1. j # f
      BY <1>2, <2>1, <2>2
    <3>2. j \in 1 .. (f - 1)
      BY <1>5, <2>1, <3>1
    <3>3. PICK k \in 1 .. (j - 1) : said[k] = said[f]
      BY <2>1, <2>2, <3>2 DEF BroughtFirst
    <3>4. k \in 1 .. (f - 1)
      BY <2>1, <3>2
    <3>5. QED
      BY <2>1, <3>3, <3>4 DEF FirstAt
  <2>3. Matched(said[j])
    BY Firsts
  <2>4. QED
    BY <1>2, <1>4, <2>1, <2>2, <2>3
<1>6. ASSUME NEW f \in H PROVE f \in S /\ Rank(heard, f) = Rank(said, f)
  <2>1. \A j : j \in H /\ j <= f <=> j \in S /\ j <= f
    BY <1>1, <1>4, <1>5
  <2>2. {j \in H : j <= f} = {j \in S : j <= f}
    BY <2>1
  <2>3. QED
    BY <1>1, <1>4, <2>2 DEF Rank
<1>7. ASSUME NEW g \in S, MadeUp(said[g]) PROVE Rank(said, g) > Cardinality(H)
  <2>. DEFINE Upto == {j \in S : j <= g}
  <2>1. g \in 1 .. n /\ g \notin H
    BY <1>1, <1>2, <1>4, <1>7
  <2>2. H \cup {g} \in SUBSET Upto
    <3>1. ASSUME NEW f \in H PROVE f \in S /\ f <= g
      <4>1. f \in 1 .. n /\ f \in S /\ ~(g <= f)
        BY <1>1, <1>4, <1>5, <2>1
      <4>2. QED
        BY <2>1, <4>1
    <3>2. g \in S /\ g <= g
      BY <2>1
    <3>. HIDE DEF H, S
    <3>3. QED
      BY <3>1, <3>2
  <2>3. Upto \in SUBSET S
    OBVIOUS
  <2>4. Rank(said, g) = Cardinality(Upto)
    BY DEF Rank
  <2>. HIDE DEF H, S, Upto
  <2>5. IsFiniteSet(Upto) /\ Cardinality(Upto) \in Nat
    BY <1>1, <2>3, FS_Subset, FS_CardinalityType
  <2>6. Cardinality(H \cup {g}) = Cardinality(H) + 1
    BY <1>1, <2>1, FS_AddElement
  <2>7. Cardinality(H \cup {g}) <= Cardinality(Upto)
    BY <2>2, <2>5, FS_Subset
  <2>8. QED
    BY <1>1, <2>4, <2>5, <2>6, <2>7
<1>8. /\ DOMAIN Matches(heard) = 1 .. Cardinality(H)
      /\ Len(Matches(said)) = Cardinality(S)
      /\ \A f \in H : Matches(heard)[Rank(heard, f)] = heard[f]
      /\ \A f \in H : PositionOf(heard[f], Matches(heard)) = Rank(heard, f)
      /\ \A f \in S : PositionOf(said[f], Matches(said)) = Rank(said, f)
  BY Captures
<1>9. Cardinality(H) <= Cardinality(S)
  <2>1. H \in SUBSET S
    BY <1>6
  <2>. HIDE DEF H, S
  <2>2. QED
    BY <1>1, <2>1, FS_Subset
<1>10. \A f \in H : Rank(heard, f) \in 1 .. Cardinality(H)
  BY Ranks
<1>11. ASSUME NEW i \in 1 .. n, Matched(said[i]) PROVE \E f \in S : f \in 1 .. n /\ said[f] = said[i]
  BY <1>1, <1>11, FirstAppearance
<1>. HIDE DEF H, S
<1>12. ASSUME NEW i \in 1 .. n, Brought(said[i])
       PROVE  /\ PositionOf(said[i], Matches(said)) \in DOMAIN Matches(heard)
              /\ Matches(heard)[PositionOf(said[i], Matches(said))] = heard[i]
              /\ PositionOf(heard[i], Matches(heard)) = PositionOf(said[i], Matches(said))
  <2>1. PICK f \in S : f \in 1 .. n /\ said[f] = said[i]
    BY <1>2, <1>11, <1>12
  <2>2. f \in H /\ heard[f] = heard[i]
    BY <1>3, <1>4, <1>12, <2>1
  <2>3. QED
    BY <1>6, <1>8, <1>10, <2>1, <2>2
<1>13. ASSUME NEW i \in 1 .. n, MadeUp(said[i])
       PROVE  PositionOf(said[i], Matches(said)) \notin DOMAIN Matches(heard)
  <2>1. PICK f \in S : f \in 1 .. n /\ said[f] = said[i]
    BY <1>2, <1>11, <1>13
  <2>2. PositionOf(said[i], Matches(said)) > Cardinality(H)
    BY <1>7, <1>8, <1>13, <2>1
  <2>3. QED
    BY <1>1, <1>8, <2>2
<1>14. \A k \in DOMAIN Matches(heard) : k \in Nat /\ k <= Len(Matches(said))
  BY <1>1, <1>8, <1>9
<1>15. QED
  BY <1>2, <1>12, <1>13, <1>14

\* So the two requests align, and what the replay restores is its own.
LEMMA RequestsAlign ==
  ASSUME ~SelfMatching, NEW n \in Nat, NEW said, Said(said, n),
         NEW heard, DOMAIN heard = 1 .. n, Echoes(heard, said), BroughtFirst(said)
  PROVE  /\ Captured(heard, "replay") = Matches(heard)
         /\ DOMAIN Apply(heard, "replay") = 1 .. n
         /\ \A i \in 1 .. n : Apply(heard, "replay")[i] = Apply(said, "recording")[i]
<1>. DOMAIN said = 1 .. n /\ \A i \in 1 .. n : said[i] \in Names("recording")
  BY DEF Said
<1>. DEFINE rooted == ApplyRoot(heard, "replay")
            M == Matches(heard)
<1>1. ASSUME NEW i \in 1 .. n
      PROVE  /\ said[i].is = "path" => heard[i] = Path("replay", said[i].what)
             /\ said[i].is = "id" => heard[i].is \in {"id", "blank"}
             /\ MadeUp(said[i]) => heard[i] = Blank(PositionOf(said[i], Matches(said)))
             /\ Matched(heard[i]) <=> Brought(said[i])
             /\ said[i].is \in {"path", "id"}
             /\ said[i].is = "id" <=> Brought(said[i]) \/ MadeUp(said[i])
  <2>1. \A f \in Forms : Elsewhere(Path("recording", f)) = Path("replay", f)
    BY DEF Elsewhere, Path
  <2>2. QED
    BY <2>1, HeardNumbers, Tokens, Numbers DEF Echoes, Brought, MadeUp
<1>2. /\ DOMAIN rooted = 1 .. n
      /\ \A i \in 1 .. n : rooted[i] = IF said[i].is = "path" THEN Mark(said[i].what) ELSE heard[i]
  <2>1. rooted = [i \in 1 .. n |-> IF heard[i].is = "path" /\ heard[i].of = "replay"
                                   THEN Mark(heard[i].what) ELSE heard[i]]
    BY DEF ApplyRoot, Replaced
  <2>2. \A f : Path("replay", f).is = "path" /\ Path("replay", f).of = "replay" /\ Path("replay", f).what = f
    BY DEF Path
  <2>3. QED
    BY <1>1, <2>1, <2>2
<1>3. \A i \in 1 .. n : /\ Matched(rooted[i]) <=> Matched(heard[i])
                        /\ Matched(heard[i]) => rooted[i] = heard[i]
  BY <1>1, <1>2, Numbers
<1>4. Matches(rooted) = M
  <2>. HIDE DEF rooted, M
  <2>1. QED
    BY <1>2, <1>3, NumberedAlike DEF M
<1>5. Captured(heard, "replay") = M
  BY <1>4 DEF Captured
<1>6. Apply(heard, "replay") =
        [i \in 1 .. n |-> IF Matched(rooted[i]) THEN Blank(1 + PositionOf(rooted[i], M) - 1)
                          ELSE rooted[i]]
  <2>1. Apply(heard, "replay") =
          [i \in DOMAIN rooted |-> IF Matched(rooted[i])
                                   THEN Blank(1 + PositionOf(rooted[i], Matches(rooted)) - 1)
                                   ELSE rooted[i]]
    BY DEF Apply, Numbered, Replaced
  <2>2. QED
    BY <1>2, <1>4, <2>1
<1>7. \A i \in 1 .. n : Brought(said[i]) =>
        /\ PositionOf(heard[i], M) \in Nat
        /\ PositionOf(heard[i], M) = PositionOf(said[i], Matches(said))
  BY HeardNumbers
<1>8. \A i \in 1 .. n : Apply(said, "recording")[i] =
        IF said[i].is = "path" THEN Mark(said[i].what)
        ELSE Blank(PositionOf(said[i], Matches(said)))
  BY SaidNumbers
<1>9. \A k \in Nat : 1 + k - 1 = k
  OBVIOUS
<1>. HIDE DEF rooted, M
<1>10. ASSUME NEW i \in 1 .. n PROVE Apply(heard, "replay")[i] = Apply(said, "recording")[i]
  <2>1. CASE said[i].is = "path"
    BY <1>1, <1>2, <1>3, <1>6, <1>8, <2>1, Numbers
  <2>2. CASE Brought(said[i])
    BY <1>1, <1>3, <1>6, <1>7, <1>8, <1>9, <2>2
  <2>3. CASE MadeUp(said[i])
    BY <1>1, <1>2, <1>3, <1>6, <1>8, <2>3, Numbers
  <2>4. QED
    BY <1>1, <2>1, <2>2, <2>3
<1>11. QED
  BY <1>5, <1>6, <1>10 DEF M
\* What matches in a text has a number among its captures.
LEMMA HasNumber ==
  ASSUME NEW n \in Nat, NEW s, DOMAIN s = 1 .. n, NEW i \in 1 .. n, Matched(s[i])
  PROVE  /\ PositionOf(s[i], Matches(s)) \in 1 .. Len(Matches(s)) /\ Len(Matches(s)) \in Nat
         /\ Matches(s)[PositionOf(s[i], Matches(s))] = s[i]
<1>1. PICK f \in FirstAt(s) : s[f] = s[i]
  BY FirstAppearance
<1>2. QED
  BY <1>1, Captures, Ranks, Firsts

\* An answer as it is stored, by the numbers of a text it is the end of.
StoredBy(stored, answer, m, both) ==
  /\ DOMAIN stored = 1 .. m
  /\ \A i \in 1 .. m : stored[i] =
       IF answer[i].is = "path" THEN Mark(answer[i].what)
       ELSE Blank(PositionOf(answer[i], Matches(both)))

\* What is new in an answer has a number that its request did not give out.
NewNumbers(answer, m, both, said, n) ==
  \A i \in 1 .. m : answer[i].is = "id" =>
    \/ PositionOf(answer[i], Matches(both)) > Len(Matches(said))
    \/ \E j \in 1 .. n : said[j] = answer[i]

\* An answer is stored under the numbers that the request and it have as one
\* text: what the request knows keeps its number, the rest comes after.
LEMMA AnswerStored ==
  ASSUME ~SelfMatching, NEW n \in Nat, NEW m \in Nat,
         NEW said, Said(said, n),
         NEW answer, Said(answer, m),
         NEW both, Joins(both, said, n, answer, m),
         NEW stored, stored = ApplyResponse(answer, Matches(said), "recording")
  PROVE  StoredBy(stored, answer, m, both) /\ NewNumbers(answer, m, both, said, n)
<1>. DOMAIN said = 1 .. n /\ \A i \in 1 .. n : said[i] \in Names("recording")
  BY DEF Said
<1>. DOMAIN answer = 1 .. m /\ \A i \in 1 .. m : answer[i] \in Names("recording")
  BY DEF Said
<1>. /\ DOMAIN both = 1 .. (n + m) /\ \A i \in 1 .. n : both[i] = said[i]
     /\ \A i \in 1 .. m : both[n + i] = answer[i]
  BY DEF Joins
<1>. DEFINE M == Matches(said)
            N == Matches(both)
            rooted == ApplyRoot(answer, "recording")
            known == Replaced(rooted, LAMBDA t : IF t \in ToSet(M) THEN Blank(PositionOf(t, M)) ELSE t)
            In(i) == \E j \in 1 .. n : said[j] = answer[i]
<1>1. \A t : t \in ToSet(M) <=> Matched(t) /\ \E j \in 1 .. n : t = said[j]
  BY Captures
<1>2. \A i \in 1 .. m : /\ answer[i].is \in {"path", "id"} /\ answer[i].of = "recording"
                        /\ Matched(answer[i]) <=> answer[i].is = "id"
  BY Tokens
<1>3. /\ DOMAIN rooted = 1 .. m
      /\ \A i \in 1 .. m : rooted[i] = IF answer[i].is = "path" THEN Mark(answer[i].what) ELSE answer[i]
  <2>1. rooted = [i \in 1 .. m |-> IF answer[i].is = "path" /\ answer[i].of = "recording"
                                   THEN Mark(answer[i].what) ELSE answer[i]]
    BY DEF ApplyRoot, Replaced
  <2>2. QED
    BY <1>2, <2>1
<1>4. known = [i \in 1 .. m |-> IF rooted[i] \in ToSet(M) THEN Blank(PositionOf(rooted[i], M)) ELSE rooted[i]]
  <2>1. known = [i \in DOMAIN rooted |-> IF rooted[i] \in ToSet(M) THEN Blank(PositionOf(rooted[i], M)) ELSE rooted[i]]
    BY DEF Replaced
  <2>2. QED
    BY <1>3, <2>1
<1>5. stored = [i \in DOMAIN known |->
                  IF Matched(known[i])
                  THEN Blank(Len(M) + 1 + PositionOf(known[i], Matches(known)) - 1)
                  ELSE known[i]]
  BY DEF ApplyResponse, Numbered, Replaced, NextFree
<1>. HIDE DEF rooted, known, M, N
<1>6. DOMAIN known = 1 .. m
  BY <1>4
<1>7. ASSUME NEW i \in 1 .. m
      PROVE  /\ answer[i].is = "path" => known[i] = Mark(answer[i].what) /\ ~Matched(known[i])
             /\ answer[i].is = "id" /\ In(i) => known[i] = Blank(PositionOf(answer[i], M)) /\ ~Matched(known[i])
             /\ answer[i].is = "id" /\ ~In(i) => known[i] = answer[i] /\ Matched(known[i])
  BY <1>1, <1>2, <1>3, <1>4, Numbers
<1>8. ASSUME NEW i \in 1 .. m, answer[i].is = "id", In(i) PROVE PositionOf(answer[i], N) = PositionOf(answer[i], M)
  <2>1. PICK j \in 1 .. n : said[j] = answer[i]
    BY <1>8
  <2>2. Matched(said[j])
    BY <1>2, <1>8, <2>1
  <2>3. QED
    BY <2>1, <2>2, NumberKept DEF M, N
<1>9. \A i \in 1 .. m : Matched(known[i]) => PositionOf(known[i], N) = Len(M) + PositionOf(known[i], Matches(known))
  <2>1. \A i \in 1 .. m : Matched(known[i]) => both[n + i] = known[i] /\ \A j \in 1 .. n : said[j] # known[i]
    BY <1>2, <1>7
  <2>2. \A i \in 1 .. m : ~Matched(known[i]) =>
           ~Matched(both[n + i]) \/ \E j \in 1 .. n : said[j] = both[n + i]
    BY <1>2, <1>7
  <2>3. Continues(both, said, n, known, m)
    BY <1>6, <2>1, <2>2 DEF Continues
  <2>4. QED
    BY <2>3, NumbersContinued DEF M, N
<1>10. ASSUME NEW i \in 1 .. m, Matched(known[i])
       PROVE  /\ PositionOf(known[i], Matches(known)) \in Nat \ {0} /\ Len(M) \in Nat
  <2>1. PositionOf(known[i], Matches(known)) \in 1 .. Len(Matches(known))
    BY <1>6, <1>10, HasNumber
  <2>2. Len(M) \in Nat
    BY Captures, Firsts DEF M
  <2>3. QED
    BY <2>1, <2>2
<1>11. ASSUME NEW i \in 1 .. m
       PROVE  /\ stored[i] = IF answer[i].is = "path" THEN Mark(answer[i].what)
                             ELSE Blank(PositionOf(answer[i], N))
              /\ answer[i].is = "id" => PositionOf(answer[i], N) > Len(M) \/ In(i)
  <2>1. CASE answer[i].is = "path"
    BY <1>5, <1>6, <1>7, <2>1
  <2>2. CASE answer[i].is = "id" /\ In(i)
    BY <1>5, <1>6, <1>7, <1>8, <2>2
  <2>3. CASE answer[i].is = "id" /\ ~In(i)
    <3>1. /\ known[i] = answer[i] /\ Matched(known[i])
          /\ stored[i] = Blank(Len(M) + 1 + PositionOf(known[i], Matches(known)) - 1)
      BY <1>5, <1>6, <1>7, <2>3
    <3>2. /\ PositionOf(known[i], N) = Len(M) + PositionOf(known[i], Matches(known))
          /\ PositionOf(known[i], Matches(known)) \in Nat \ {0} /\ Len(M) \in Nat
      BY <1>9, <1>10, <3>1
    <3>3. /\ PositionOf(known[i], N) = Len(M) + 1 + PositionOf(known[i], Matches(known)) - 1
          /\ PositionOf(known[i], N) > Len(M)
      BY <3>2
    <3>4. QED
      BY <2>3, <3>1, <3>3
  <2>4. QED
    BY <1>2, <2>1, <2>2, <2>3
<1>12. DOMAIN stored = 1 .. m
  BY <1>5, <1>6
<1>13. QED
  BY <1>11, <1>12 DEF M, N, StoredBy, NewNumbers

\* What an answer names of the world's is in its request.
KnownIn(answer, m, said, n) ==
  \A i \in 1 .. m : Brought(answer[i]) => \E j \in 1 .. n : said[j] = answer[i]

\* What is said, as the replay hears it, by the numbers of a text it is the end of.
EchoedBy(given, more, m, both) ==
  /\ DOMAIN given = 1 .. m
  /\ \A i \in 1 .. m : given[i] =
       IF MadeUp(more[i]) THEN Blank(PositionOf(more[i], Matches(both))) ELSE Elsewhere(more[i])

\* The replay is given the answer in its own names, and what the model made up
\* under its number: no value of its own has that one.
LEMMA AnswerGiven ==
  ASSUME ~SelfMatching, NEW n \in Nat, NEW m \in Nat,
         NEW said, Said(said, n),
         NEW answer, Said(answer, m),
         KnownIn(answer, m, said, n),
         NEW both, Joins(both, said, n, answer, m),
         NEW heard, DOMAIN heard = 1 .. n, Echoes(heard, said), BroughtFirst(said),
         NEW stored, StoredBy(stored, answer, m, both), NewNumbers(answer, m, both, said, n),
         NEW given, given = RestoreResponse(stored, Matches(heard), "replay")
  PROVE  EchoedBy(given, answer, m, both)
<1>. DEFINE W == Matches(heard)
            N == Matches(both)
            M == Matches(said)
            hidden == Numbered(stored, NextFree(W))
            rooted == RestoreRoot(hidden, "replay")
<1>1. /\ DOMAIN stored = 1 .. m
      /\ \A i \in 1 .. m : stored[i] = IF answer[i].is = "path" THEN Mark(answer[i].what)
                                       ELSE Blank(PositionOf(answer[i], N))
      /\ \A i \in 1 .. m : answer[i].is = "id" =>
           PositionOf(answer[i], N) > Len(M) \/ \E j \in 1 .. n : said[j] = answer[i]
  BY DEF StoredBy, NewNumbers
<1>a. /\ DOMAIN said = 1 .. n /\ \A i \in 1 .. n : said[i] \in Names("recording")
      /\ DOMAIN answer = 1 .. m /\ \A i \in 1 .. m : answer[i] \in Names("recording")
  BY DEF Said
<1>2. \A i \in 1 .. m : ~Matched(stored[i])
  <2>1. ASSUME NEW i \in 1 .. m PROVE ~Matched(stored[i])
    <3>1. stored[i] = Mark(answer[i].what) \/ stored[i] = Blank(PositionOf(answer[i], N))
      BY <1>1
    <3>2. QED
      BY <3>1, Numbers
  <2>2. QED
    BY <2>1
<1>3. /\ DOMAIN hidden = 1 .. m
      /\ \A i \in 1 .. m : hidden[i] = stored[i]
  <2>1. hidden = [i \in DOMAIN stored |->
                   IF Matched(stored[i])
                   THEN Blank(NextFree(W) + PositionOf(stored[i], Matches(stored)) - 1)
                   ELSE stored[i]]
    BY DEF Numbered, Replaced
  <2>. HIDE DEF hidden, W, N
  <2>2. QED
    BY <1>1, <1>2, <2>1
<1>4. /\ DOMAIN rooted = 1 .. m
      /\ \A i \in 1 .. m : rooted[i] = IF stored[i].is = "mark" THEN Path("replay", stored[i].what)
                                       ELSE stored[i]
  <2>1. rooted = [i \in DOMAIN hidden |-> IF hidden[i].is = "mark" THEN Path("replay", hidden[i].what)
                                          ELSE hidden[i]]
    BY DEF RestoreRoot, Replaced
  <2>. HIDE DEF hidden, rooted
  <2>2. QED
    BY <1>3, <2>1
<1>5. given = [i \in 1 .. m |-> IF rooted[i].is = "blank" /\ rooted[i].what \in DOMAIN W
                                THEN W[rooted[i].what] ELSE rooted[i]]
  <2>1. given = [i \in DOMAIN rooted |-> IF rooted[i].is = "blank" /\ rooted[i].what \in DOMAIN W
                                THEN W[rooted[i].what] ELSE rooted[i]]
    BY DEF RestoreResponse, Replaced
  <2>. HIDE DEF rooted, W
  <2>2. QED
    BY <1>4, <2>1
<1>. HIDE DEF hidden, rooted
<1>6. ASSUME NEW i \in 1 .. m, NEW j \in 1 .. n, said[j] = answer[i], answer[i].is = "id"
      PROVE  PositionOf(answer[i], N) = PositionOf(said[j], M)
  <2>1. Matched(said[j])
    BY <1>6, <1>a, Tokens
  <2>2. QED
    BY <1>6, <1>a, <2>1, NumberKept
<1>7. /\ \A i \in 1 .. n : Brought(said[i]) =>
           PositionOf(said[i], M) \in DOMAIN W /\ W[PositionOf(said[i], M)] = heard[i]
      /\ \A i \in 1 .. n : MadeUp(said[i]) => PositionOf(said[i], M) \notin DOMAIN W
      /\ \A k \in DOMAIN W : k \in Nat /\ k <= Len(M)
  BY HeardNumbers
<1>8. \A i \in 1 .. n : Brought(said[i]) => heard[i] = Elsewhere(said[i])
  BY <1>a, Tokens DEF Echoes
<1>9. Len(M) \in Nat
  BY <1>a, Captures, Firsts
<1>10. \A i \in 1 .. m : answer[i].is = "id" => PositionOf(answer[i], N) \in Nat
  <2>1. ASSUME NEW i \in 1 .. m, answer[i].is = "id" PROVE PositionOf(answer[i], N) \in Nat
    <3>1. n + i \in 1 .. (n + m) /\ n + m \in Nat /\ both[n + i] = answer[i] /\ DOMAIN both = 1 .. (n + m)
      BY DEF Joins
    <3>2. Matched(both[n + i])
      BY <1>a, <2>1, <3>1, Tokens
    <3>3. PositionOf(both[n + i], N) \in 1 .. Len(N) /\ Len(N) \in Nat
      BY <3>1, <3>2, HasNumber
    <3>4. QED
      BY <3>1, <3>3
  <2>2. QED
    BY <2>1
<1>. HIDE DEF W, N, M
<1>11. ASSUME NEW i \in 1 .. m
       PROVE  given[i] = IF MadeUp(answer[i]) THEN Blank(PositionOf(answer[i], N))
                         ELSE Elsewhere(answer[i])
  <2>1. CASE answer[i].is = "path"
    <3>1. answer[i] = Path("recording", answer[i].what) /\ ~MadeUp(answer[i])
      BY <1>a, <2>1, Tokens DEF MadeUp
    <3>2. rooted[i] = Path("replay", answer[i].what)
      BY <1>1, <1>4, <2>1, Numbers
    <3>3. \A f : Path("replay", f).is # "blank" /\ Elsewhere(Path("recording", f)) = Path("replay", f)
      BY DEF Path, Elsewhere
    <3>4. QED
      BY <1>5, <3>1, <3>2, <3>3
  <2>2. CASE Brought(answer[i])
    <3>1. PICK j \in 1 .. n : said[j] = answer[i]
      BY <2>2 DEF KnownIn
    <3>2. answer[i].is = "id" /\ ~MadeUp(answer[i])
      BY <1>a, <2>2, Tokens DEF Brought
    <3>3. PositionOf(answer[i], N) \in DOMAIN W /\ W[PositionOf(answer[i], N)] = Elsewhere(answer[i])
      BY <1>6, <1>7, <1>8, <2>2, <3>1, <3>2
    <3>4. rooted[i] = Blank(PositionOf(answer[i], N))
      BY <1>1, <1>4, <3>2, Numbers
    <3>5. QED
      BY <1>5, <3>2, <3>3, <3>4, Numbers
  <2>3. CASE MadeUp(answer[i])
    <3>1. answer[i].is = "id"
      BY <2>3 DEF MadeUp
    <3>2. PositionOf(answer[i], N) \notin DOMAIN W
      <4>1. CASE \E j \in 1 .. n : said[j] = answer[i]
        BY <1>6, <1>7, <2>3, <3>1, <4>1
      <4>2. CASE PositionOf(answer[i], N) > Len(M)
        BY <1>7, <1>9, <1>10, <3>1, <4>2
      <4>3. QED
        BY <1>1, <3>1, <4>1, <4>2 DEF M
    <3>3. rooted[i] = Blank(PositionOf(answer[i], N))
      BY <1>1, <1>4, <3>1, Numbers
    <3>4. QED
      BY <1>5, <2>3, <3>2, <3>3, Numbers
  <2>4. QED
    BY <1>a, <2>1, <2>2, <2>3, Tokens
<1>12. QED
  BY <1>5, <1>11 DEF N, EchoedBy

\* Both conversations go on by what each says in its own names.
LEMMA EchoesOn ==
  ASSUME ~SelfMatching, NEW n \in Nat, NEW m \in Nat,
         NEW said, Said(said, n),
         NEW more, DOMAIN more = 1 .. m,
         NEW both, Joins(both, said, n, more, m),
         NEW heard, Echoes(heard, said), NEW given, EchoedBy(given, more, m, both),
         NEW now, Joins(now, heard, n, given, m)
  PROVE  Echoes(now, both)
<1>. DOMAIN said = 1 .. n /\ \A i \in 1 .. n : said[i] \in Names("recording")
  BY DEF Said
<1>. /\ DOMAIN both = 1 .. (n + m) /\ \A i \in 1 .. n : both[i] = said[i]
     /\ \A i \in 1 .. m : both[n + i] = more[i]
  BY DEF Joins
<1>. /\ DOMAIN now = 1 .. (n + m) /\ \A i \in 1 .. n : now[i] = heard[i]
     /\ \A i \in 1 .. m : now[n + i] = given[i]
  BY DEF Joins
<1>. \A i \in 1 .. m : given[i] =
       IF MadeUp(more[i]) THEN Blank(PositionOf(more[i], Matches(both))) ELSE Elsewhere(more[i])
  BY DEF EchoedBy
<1>1. ASSUME NEW i \in 1 .. n, MadeUp(said[i])
      PROVE  PositionOf(said[i], Matches(both)) = PositionOf(said[i], Matches(said))
  <2>1. Matched(said[i])
    BY <1>1 DEF Matched, MadeUp
  <2>2. QED
    BY <2>1, NumberKept
<1>2. ASSUME NEW i \in 1 .. (n + m)
      PROVE  now[i] = IF MadeUp(both[i]) THEN Blank(PositionOf(both[i], Matches(both)))
                      ELSE Elsewhere(both[i])
  <2>1. CASE i \in 1 .. n
    BY <1>1, <2>1 DEF Echoes
  <2>2. CASE i \notin 1 .. n
    <3>1. PICK k \in 1 .. m : i = n + k
      <4>1. i - n \in 1 .. m /\ i = n + (i - n)
        BY <2>2
      <4>2. QED
        BY <4>1
    <3>2. QED
      BY <3>1
  <2>3. QED
    BY <2>1, <2>2
<1>3. QED
  BY <1>2 DEF Echoes

\* What the world brought stays first, when it brings nothing new or when
\* nothing was made up.
LEMMA BroughtFirstOn ==
  ASSUME NEW n \in Nat, NEW m \in Nat, NEW said, DOMAIN said = 1 .. n, BroughtFirst(said),
         NEW more, NEW both, Joins(both, said, n, more, m),
         (\A i \in 1 .. (n + m) : ~MadeUp(both[i])) \/ KnownIn(more, m, said, n)
  PROVE  BroughtFirst(both)
<1>. /\ DOMAIN both = 1 .. (n + m) /\ \A i \in 1 .. n : both[i] = said[i]
     /\ \A i \in 1 .. m : both[n + i] = more[i]
  BY DEF Joins
<1>. \A t : ~(Brought(t) /\ MadeUp(t))
  BY ConversationAssumption DEF Brought, MadeUp
<1>1. SUFFICES ASSUME NEW j \in 1 .. (n + m), Brought(both[j]),
                      NEW i \in 1 .. (j - 1), MadeUp(both[i])
               PROVE  \E k \in 1 .. (i - 1) : both[k] = both[j]
  BY DEF BroughtFirst
<1>2. i \in 1 .. (n + m)
  OBVIOUS
<1>3. PICK l \in 1 .. n : said[l] = both[j] /\ (l = j \/ n < j)
  <2>1. CASE j \in 1 .. n
    BY <2>1
  <2>2. CASE j \notin 1 .. n
    <3>1. j - n \in 1 .. m /\ j = n + (j - n) /\ n < j
      BY <2>2
    <3>2. QED
      BY <1>1, <1>2, <3>1 DEF KnownIn
  <2>3. QED
    BY <2>1, <2>2
<1>4. CASE i < l
  <2>1. i \in 1 .. n /\ i \in 1 .. (l - 1) /\ MadeUp(said[i]) /\ Brought(said[l])
    BY <1>1, <1>2, <1>3, <1>4
  <2>2. PICK k \in 1 .. (i - 1) : said[k] = said[l]
    BY <2>1 DEF BroughtFirst
  <2>3. k \in 1 .. n
    BY <2>1
  <2>4. QED
    BY <1>3, <2>2, <2>3
<1>5. CASE l < i
  <2>1. l \in 1 .. (i - 1) /\ both[l] = both[j]
    BY <1>2, <1>3, <1>5
  <2>2. QED
    BY <2>1
<1>6. i # l
  BY <1>1, <1>3
<1>7. QED
  BY <1>2, <1>4, <1>5, <1>6

-----------------------------------------------------------------------------
(* A turn of the conversation.                                             *)

\* A function from the first numbers is a sequence of as many.
LEMMA IsSequence ==
  ASSUME NEW S, NEW n \in Nat, NEW f \in [1 .. n -> S]
  PROVE  f \in Seq(S) /\ Len(f) = n
<1>1. f \in Seq(S)
  BY SeqDef
<1>2. DOMAIN f = 1 .. n /\ DOMAIN f = 1 .. Len(f) /\ Len(f) \in Nat
  BY <1>1, LenProperties
<1>3. QED
  BY <1>1, <1>2

\* What somebody says is a history.
LEMMA FromIsHistory ==
  ASSUME NEW T, NEW who \in Parties, NEW k \in Nat, NEW text \in [1 .. k -> T]
  PROVE  /\ From(who, text) \in Histories(T) /\ Len(From(who, text)) = k
         /\ DOMAIN From(who, text) = 1 .. k
         /\ \A i \in 1 .. k : From(who, text)[i].token = text[i]
<1>. DEFINE E == [by : Parties, token : T]
            f == From(who, text)
<1>1. f \in [1 .. k -> E] /\ \A i \in 1 .. k : f[i].token = text[i]
  BY DEF From
<1>. HIDE DEF E, f
<1>2. f \in Seq(E) /\ Len(f) = k /\ DOMAIN f = 1 .. k
  BY <1>1, IsSequence
<1>3. QED
  BY <1>1, <1>2 DEF Histories, E, f

\* A history goes on with what somebody says.
Says(h, who, text) == h \o From(who, text)

\* It stays a history, and its text is the text it was and then what is said.
LEMMA HistoryGoesOn ==
  ASSUME NEW T, NEW h \in Histories(T), NEW who \in Parties,
         NEW k \in Nat, NEW text \in [1 .. k -> T]
  PROVE  /\ Says(h, who, text) \in Histories(T)
         /\ Len(h) \in Nat /\ Len(Says(h, who, text)) = Len(h) + k
         /\ DOMAIN TextOf(h) = 1 .. Len(h)
         /\ \A i \in 1 .. Len(h) : TextOf(h)[i] = h[i].token /\ TextOf(h)[i] \in T
         /\ Joins(TextOf(Says(h, who, text)), TextOf(h), Len(h), text, k)
<1>. DEFINE E == [by : Parties, token : T]
            f == From(who, text)
            g == h \o f
<1>1. \A i \in 1 .. k : f[i].token = text[i]
  BY FromIsHistory
<1>2. \A i \in 1 .. Len(h) : h[i].token \in T
  <2>1. \A e \in E : e.token \in T
    OBVIOUS
  <2>2. h \in Seq(E)
    BY DEF Histories
  <2>. HIDE DEF E
  <2>3. \A i \in 1 .. Len(h) : h[i] \in E
    BY <2>2, ElementOfSeq
  <2>4. QED
    BY <2>1, <2>3
<1>3. h \in Seq(E) /\ f \in Seq(E) /\ Len(f) = k
  <2>1. f \in Histories(T) /\ Len(f) = k
    BY FromIsHistory
  <2>. HIDE DEF f
  <2>2. QED
    BY <2>1 DEF Histories
<1>. HIDE DEF E, f
<1>4. Len(h) \in Nat /\ DOMAIN h = 1 .. Len(h)
  BY <1>3, LenProperties
<1>5. /\ g \in Seq(E) /\ Len(g) = Len(h) + k
      /\ \A i \in 1 .. (Len(h) + k) : g[i] = IF i <= Len(h) THEN h[i] ELSE f[i - Len(h)]
  BY <1>3, ConcatProperties
<1>. HIDE DEF g
<1>6. DOMAIN g = 1 .. (Len(h) + k)
  BY <1>5, LenProperties
<1>7. \A i \in 1 .. Len(h) : i \in 1 .. (Len(h) + k) /\ g[i] = h[i]
  BY <1>4, <1>5
<1>8. \A i \in 1 .. k : Len(h) + i \in 1 .. (Len(h) + k) /\ g[Len(h) + i] = f[i]
  <2>. DEFINE a == Len(h)
  <2>1. a \in Nat /\ \A i \in 1 .. (a + k) : g[i] = IF i <= a THEN h[i] ELSE f[i - a]
    BY <1>4, <1>5
  <2>. HIDE DEF a
  <2>2. ASSUME NEW i \in 1 .. k PROVE a + i \in 1 .. (a + k) /\ g[a + i] = f[i]
    <3>1. a + i \in 1 .. (a + k) /\ ~(a + i <= a) /\ (a + i) - a = i
      BY <2>1
    <3>2. g[a + i] = f[(a + i) - a]
      BY <2>1, <3>1
    <3>3. QED
      BY <3>1, <3>2
  <2>3. QED
    BY <2>2 DEF a
<1>9. /\ TextOf(g) = [i \in 1 .. (Len(h) + k) |-> g[i].token]
      /\ TextOf(h) = [i \in 1 .. Len(h) |-> h[i].token]
  BY <1>4, <1>6 DEF TextOf
<1>10. Joins(TextOf(g), TextOf(h), Len(h), text, k)
  <2>1. DOMAIN TextOf(g) = 1 .. (Len(h) + k)
    BY <1>9
  <2>2. \A i \in 1 .. Len(h) : TextOf(g)[i] = TextOf(h)[i]
    BY <1>7, <1>9
  <2>3. ASSUME NEW i \in 1 .. k PROVE TextOf(g)[Len(h) + i] = text[i]
    <3>1. Len(h) + i \in 1 .. (Len(h) + k) /\ g[Len(h) + i] = f[i] /\ f[i].token = text[i]
      BY <1>1, <1>8
    <3>2. QED
      BY <1>9, <3>1
  <2>4. QED
    BY <2>1, <2>2, <2>3 DEF Joins
<1>11. QED
  BY <1>2, <1>4, <1>5, <1>9, <1>10 DEF g, f, E, Histories, Says

\* A request is stored in placeholders, and so is an answer.
LEMMA StoredInPlaceholders ==
  ASSUME ~SelfMatching, NEW n \in Nat, NEW m \in Nat, NEW said, Said(said, n),
         NEW answer, Said(answer, m), NEW both, Joins(both, said, n, answer, m),
         NEW stored, StoredBy(stored, answer, m, both)
  PROVE  /\ \A i \in 1 .. n : Apply(said, "recording")[i] \in Placeholders
         /\ \A i \in 1 .. m : stored[i] \in Placeholders
<1>1. ASSUME NEW t \in Names("recording"), NEW k \in Nat
      PROVE  (IF t.is = "path" THEN Mark(t.what) ELSE Blank(k)) \in Placeholders
  BY Tokens DEF Placeholders, Marks
<1>2. ASSUME NEW i \in 1 .. n PROVE Apply(said, "recording")[i] \in Placeholders
  <2>1. said[i] \in Names("recording") /\ DOMAIN said = 1 .. n
    BY DEF Said
  <2>2. CASE said[i].is = "path"
    BY <1>1, <2>1, <2>2, SaidNumbers
  <2>3. CASE said[i].is = "id"
    <3>1. Matched(said[i])
      BY <2>1, <2>3, Tokens
    <3>2. PositionOf(said[i], Matches(said)) \in Nat
      BY <2>1, <3>1, HasNumber
    <3>3. QED
      BY <1>1, <2>1, <2>3, <3>2, SaidNumbers
  <2>4. QED
    BY <2>1, <2>2, <2>3, Tokens
<1>3. ASSUME NEW i \in 1 .. m PROVE stored[i] \in Placeholders
  <2>1. answer[i] \in Names("recording")
    BY DEF Said
  <2>2. stored[i] = IF answer[i].is = "path" THEN Mark(answer[i].what)
                    ELSE Blank(PositionOf(answer[i], Matches(both)))
    BY DEF StoredBy
  <2>3. CASE answer[i].is = "path"
    BY <1>1, <2>1, <2>2, <2>3
  <2>4. CASE answer[i].is = "id"
    <3>1. /\ n + m \in Nat /\ n + i \in 1 .. (n + m) /\ both[n + i] = answer[i]
          /\ DOMAIN both = 1 .. (n + m)
      BY DEF Joins
    <3>2. Matched(both[n + i])
      BY <2>1, <2>4, <3>1, Tokens
    <3>3. PositionOf(both[n + i], Matches(both)) \in Nat
      BY <3>1, <3>2, HasNumber
    <3>4. QED
      BY <1>1, <2>1, <2>2, <2>4, <3>1, <3>3
  <2>5. QED
    BY <2>1, <2>3, <2>4, Tokens
<1>4. QED
  BY <1>2, <1>3
\* What a text becomes is a text.
LEMMA Replacing ==
  ASSUME NEW text, NEW from, NEW side, NEW got
  PROVE  /\ Numbered(text, from) = [i \in DOMAIN Numbered(text, from) |-> Numbered(text, from)[i]]
         /\ RestoreResponse(text, got, side) =
              [i \in DOMAIN RestoreResponse(text, got, side) |-> RestoreResponse(text, got, side)[i]]
BY DEF Numbered, RestoreResponse, Replaced

\* The names of the world are names of the recording, none of them made up.
LEMMA OfTheWorld ==
  ASSUME NEW t \in WorldsNames
  PROVE  t \in Names("recording") /\ ~MadeUp(t)
BY ConversationAssumption DEF WorldsNames, Names, MadeUp, Path, Id

\* A tool's result is there what it is here, in the names of the place.
LEMMA ResultThere ==
  ASSUME ~SelfMatching, NEW l \in Nat, NEW result \in [1 .. l -> WorldsNames], NEW all
  PROVE  /\ Said(result, l) /\ EchoedBy(There(result), result, l, all)
         /\ There(result) \in [1 .. l -> Names("replay")]
<1>1. \A i \in 1 .. l : result[i] \in Names("recording") /\ ~MadeUp(result[i])
  BY OfTheWorld
<1>2. There(result) = [i \in 1 .. l |-> Elsewhere(result[i])]
  BY DEF There, Replaced
<1>3. \A i \in 1 .. l : Elsewhere(result[i]) \in Names("replay")
  BY <1>1, Tokens
<1>4. QED
  BY <1>1, <1>2, <1>3 DEF Said, EchoedBy

\* An answer is heard in the replay's names and in numbers.
LEMMA GivenTokens ==
  ASSUME ~SelfMatching, NEW n \in Nat, NEW m \in Nat, NEW said,
         NEW answer, Said(answer, m), NEW both, Joins(both, said, n, answer, m),
         NEW given, EchoedBy(given, answer, m, both), given = [i \in DOMAIN given |-> given[i]]
  PROVE  given \in [1 .. m -> Heard]
<1>1. ASSUME NEW i \in 1 .. m PROVE given[i] \in Heard
  <2>1. answer[i] \in Names("recording")
    BY DEF Said
  <2>2. CASE ~MadeUp(answer[i])
    BY <2>1, <2>2, Tokens DEF EchoedBy, Heard
  <2>3. CASE MadeUp(answer[i])
    <3>1. /\ n + m \in Nat /\ n + i \in 1 .. (n + m) /\ both[n + i] = answer[i]
          /\ DOMAIN both = 1 .. (n + m)
      BY DEF Joins
    <3>2. Matched(both[n + i])
      BY <2>3, <3>1 DEF Matched, MadeUp
    <3>3. PositionOf(both[n + i], Matches(both)) \in Nat
      BY <3>1, <3>2, HasNumber
    <3>4. QED
      BY <2>3, <3>1, <3>3 DEF EchoedBy, Heard
  <2>4. QED
    BY <2>2, <2>3
<1>2. DOMAIN given = 1 .. m
  BY DEF EchoedBy
<1>3. QED
  BY <1>1, <1>2

\* A tool that brings what it may leaves what was brought before what was made up.
LEMMA MayBring ==
  ASSUME ~SelfMatching, NEW n \in Nat, NEW m \in Nat, NEW l \in Nat,
         NEW said, DOMAIN said = 1 .. n, NEW answer, NEW both, Joins(both, said, n, answer, m),
         NEW result \in [1 .. l -> WorldsNames], NEW all, Joins(all, both, n + m, result, l),
         BroughtFirst(both),
         \/ ToSet(Matches(result)) \subseteq ToSet(said)
         \/ \A t \in ToSet(both) : ~MadeUp(t)
  PROVE  BroughtFirst(all)
<1>1. n + m \in Nat /\ DOMAIN both = 1 .. (n + m) /\ DOMAIN all = 1 .. ((n + m) + l)
  BY DEF Joins
<1>2. CASE ToSet(Matches(result)) \subseteq ToSet(said)
  <2>1. ASSUME NEW i \in 1 .. l, Brought(result[i]) PROVE \E j \in 1 .. (n + m) : both[j] = result[i]
    <3>1. Matched(result[i]) /\ DOMAIN result = 1 .. l
      BY <2>1 DEF Matched, Brought
    <3>2. result[i] \in ToSet(Matches(result))
      BY <3>1, Captures
    <3>3. PICK j \in 1 .. n : said[j] = result[i]
      BY <1>2, <3>2 DEF ToSet
    <3>4. j \in 1 .. (n + m) /\ both[j] = said[j]
      BY DEF Joins
    <3>5. QED
      BY <3>3, <3>4
  <2>2. KnownIn(result, l, both, n + m)
    BY <2>1 DEF KnownIn
  <2>3. QED
    BY <1>1, <2>2, BroughtFirstOn
<1>3. CASE \A t \in ToSet(both) : ~MadeUp(t)
  <2>1. \A i \in 1 .. (n + m) : ~MadeUp(both[i])
    BY <1>1, <1>3 DEF ToSet
  <2>2. \A i \in 1 .. l : ~MadeUp(result[i])
    BY OfTheWorld
  <2>3. ASSUME NEW i \in 1 .. ((n + m) + l) PROVE ~MadeUp(all[i])
    <3>1. CASE i \in 1 .. (n + m)
      BY <2>1, <3>1 DEF Joins
    <3>2. CASE i \notin 1 .. (n + m)
      <4>1. PICK k \in 1 .. l : i = (n + m) + k
        <5>1. i - (n + m) \in 1 .. l /\ i = (n + m) + (i - (n + m))
          BY <1>1, <3>2
        <5>2. QED
          BY <5>1
      <4>2. QED
        BY <2>2, <4>1 DEF Joins
    <3>3. QED
      BY <3>1, <3>2
  <2>4. QED
    BY <1>1, <2>3, BroughtFirstOn
<1>4. QED
  BY <1>2, <1>3
\* The prompt is the world's, and no step is recorded.
LEMMA InitInv ==
  ASSUME ~SelfMatching, Init
  PROVE  IInv
<1>1. PICK prompt \in Texts(WorldsNames, MaxText) :
        recorded = From("client", prompt) /\ replayed = From("client", There(prompt))
  BY DEF Init
<1>2. PICK n \in Nat : prompt \in [1 .. n -> WorldsNames]
  BY ConversationAssumption DEF Texts
<1>3. There(prompt) \in [1 .. n -> Names("replay")] /\ EchoedBy(There(prompt), prompt, n, prompt)
  BY <1>2, ResultThere
<1>4. \A i \in 1 .. n : prompt[i] \in Names("recording") /\ ~MadeUp(prompt[i])
  BY <1>2, OfTheWorld
<1>5. /\ recorded \in Histories(Names("recording")) /\ Len(recorded) = n
      /\ DOMAIN recorded = 1 .. n
      /\ \A i \in 1 .. n : recorded[i].token = prompt[i]
  <2>1. prompt \in [1 .. n -> Names("recording")] /\ "client" \in Parties
    BY <1>2, <1>4 DEF Parties
  <2>2. QED
    BY <1>1, <2>1, FromIsHistory
<1>6. /\ replayed \in Histories(Heard) /\ Len(replayed) = n
      /\ DOMAIN replayed = 1 .. n
      /\ \A i \in 1 .. n : replayed[i].token = There(prompt)[i]
  <2>1. There(prompt) \in [1 .. n -> Heard] /\ "client" \in Parties
    BY <1>3 DEF Parties, Heard
  <2>2. QED
    BY <1>1, <2>1, FromIsHistory
<1>7. /\ DOMAIN TextOf(recorded) = 1 .. n
      /\ \A i \in 1 .. n : TextOf(recorded)[i] = prompt[i] /\ TextOf(replayed)[i] = There(prompt)[i]
  BY <1>5, <1>6 DEF TextOf
<1>8. Echoes(TextOf(replayed), TextOf(recorded))
  <2>1. ASSUME NEW i \in 1 .. n PROVE There(prompt)[i] = Elsewhere(prompt[i])
    BY <1>3, <1>4 DEF EchoedBy
  <2>2. QED
    BY <1>4, <1>7, <2>1 DEF Echoes
<1>9. BroughtFirst(TextOf(recorded))
  <2>1. ASSUME NEW j \in 1 .. n, NEW i \in 1 .. (j - 1) PROVE ~MadeUp(TextOf(recorded)[i])
    BY <1>4, <1>7
  <2>2. QED
    BY <1>7, <2>1 DEF BroughtFirst
<1>10. cassette \in Seq([request : Seq(Placeholders), response : Seq(Placeholders)]) /\ ~missed
  BY EmptySeq DEF Init
<1>11. QED
  BY <1>5, <1>6, <1>8, <1>9, <1>10 DEF IInv

\* A turn of both conversations keeps the replay an echo of the recording.
LEMMA TurnKeeps ==
  ASSUME ~SelfMatching, ~Interleaved, IInv, Turn
  PROVE  IInv'
<1>. DEFINE R == Names("recording")
            P == Heard
            asked == TextOf(recorded)
            again == TextOf(replayed)
            n == Len(recorded)
<1>1. PICK answer \in Texts(ModelsNames, MaxText), result \in Texts(WorldsNames, 1) :
        LET stored == ApplyResponse(answer, Captured(asked, "recording"), "recording")
            given == RestoreResponse(stored, Captured(again, "replay"), "replay")
        IN /\ \A t \in ToSet(answer) : Brought(t) => t \in ToSet(asked)
           /\ Bring(result) \/ ~Made(Says(recorded, "model", answer))
           /\ cassette' = Append(cassette, [request |-> Apply(asked, "recording"),
                                            response |-> stored])
           /\ recorded' = Says(Says(recorded, "model", answer), "tool", result)
           /\ IF Aligned(Apply(again, "replay"), Apply(asked, "recording"))
              THEN /\ replayed' = Says(Says(replayed, "model", given), "tool", There(result))
                   /\ UNCHANGED missed
              ELSE missed' = TRUE /\ UNCHANGED replayed
  BY DEF Turn, Says
<1>. DEFINE stored == ApplyResponse(answer, Captured(asked, "recording"), "recording")
            given == RestoreResponse(stored, Captured(again, "replay"), "replay")
            h1 == Says(recorded, "model", answer)
            h2 == Says(h1, "tool", result)
            p1 == Says(replayed, "model", given)
            p2 == Says(p1, "tool", There(result))
            both == TextOf(h1)
            all == TextOf(h2)
<1>2. PICK m \in Nat : answer \in [1 .. m -> R]
  BY ConversationAssumption DEF Texts, ModelsNames
<1>3. PICK l \in Nat : result \in [1 .. l -> WorldsNames]
  <2>1. \A k \in 0 .. 1 : k \in Nat
    OBVIOUS
  <2>2. QED
    BY <2>1 DEF Texts
<1>4. result \in [1 .. l -> R]
  BY <1>3, OfTheWorld
<1>5. Said(answer, m) /\ Said(result, l)
  BY <1>2, <1>4 DEF Said
<1>6. /\ recorded \in Histories(R) /\ replayed \in Histories(P)
      /\ Len(replayed) = n /\ Echoes(again, asked) /\ BroughtFirst(asked) /\ ~missed
  BY DEF IInv
<1>7. "model" \in Parties /\ "tool" \in Parties
  BY DEF Parties
<1>. HIDE DEF R, P
<1>8. /\ h1 \in Histories(R) /\ n \in Nat /\ Len(h1) = n + m
      /\ DOMAIN asked = 1 .. n /\ (\A i \in 1 .. n : asked[i] \in R)
      /\ Joins(both, asked, n, answer, m)
  BY <1>2, <1>6, <1>7, HistoryGoesOn
<1>9. Said(asked, n)
  BY <1>8 DEF Said, R
<1>10. n + m \in Nat /\ Len(h1) \in Nat
  BY <1>8
<1>11. /\ h2 \in Histories(R) /\ Len(h2) = (n + m) + l
       /\ Joins(all, both, n + m, result, l)
  <2>. HIDE DEF h1, asked, n
  <2>0. h1 \in Histories(R)
    BY <1>8
  <2>1. /\ h2 \in Histories(R) /\ Len(h2) = Len(h1) + l
        /\ Joins(all, both, Len(h1), result, l)
    BY <1>3, <1>4, <1>7, <2>0, HistoryGoesOn
  <2>2. QED
    BY <1>8, <2>1
<1>12. DOMAIN again = 1 .. n
  <2>1. DOMAIN replayed = 1 .. n
    BY <1>6, LenProperties
  <2>2. QED
    BY <2>1 DEF TextOf
<1>13. /\ Captured(asked, "recording") = Matches(asked) /\ Captured(again, "replay") = Matches(again)
       /\ DOMAIN Apply(again, "replay") = 1 .. n /\ DOMAIN Apply(asked, "recording") = 1 .. n
       /\ \A i \in 1 .. n : Apply(again, "replay")[i] = Apply(asked, "recording")[i]
  <2>. HIDE DEF asked, again, n
  <2>1. QED
    BY <1>6, <1>8, <1>9, <1>12, SaidNumbers, RequestsAlign
<1>14. Aligned(Apply(again, "replay"), Apply(asked, "recording"))
  BY <1>13 DEF Aligned
<1>15. StoredBy(stored, answer, m, both) /\ NewNumbers(answer, m, both, asked, n)
  <2>1. stored = ApplyResponse(answer, Matches(asked), "recording")
    BY <1>13
  <2>. HIDE DEF stored, asked, both, n
  <2>2. QED
    BY <1>5, <1>8, <1>9, <2>1, AnswerStored
<1>16. KnownIn(answer, m, asked, n)
  BY <1>1, <1>2, <1>8 DEF KnownIn, ToSet
<1>17. EchoedBy(given, answer, m, both)
  <2>1. given = RestoreResponse(stored, Matches(again), "replay")
    BY <1>13
  <2>. HIDE DEF given, stored, asked, again, both, n
  <2>2. QED
    BY <1>5, <1>6, <1>8, <1>9, <1>12, <1>15, <1>16, <2>1, AnswerGiven
<1>18. given \in [1 .. m -> P]
  <2>1. given = [i \in DOMAIN given |-> given[i]]
    BY Replacing
  <2>. HIDE DEF given, asked, both, n
  <2>2. QED
    BY <1>5, <1>8, <1>17, <2>1, GivenTokens DEF P
<1>19. /\ p1 \in Histories(P) /\ Len(p1) = n + m
       /\ Joins(TextOf(p1), again, n, given, m)
  <2>1. /\ p1 \in Histories(P) /\ Len(p1) = Len(replayed) + m
        /\ Joins(TextOf(p1), again, Len(replayed), given, m)
    <3>. HIDE DEF given
    <3>1. QED
      BY <1>2, <1>6, <1>7, <1>18, HistoryGoesOn
  <2>2. QED
    BY <1>6, <2>1
<1>20. /\ There(result) \in [1 .. l -> P] /\ EchoedBy(There(result), result, l, all)
  <2>1. /\ There(result) \in [1 .. l -> Names("replay")]
        /\ EchoedBy(There(result), result, l, all)
    BY <1>3, ResultThere
  <2>2. QED
    BY <2>1 DEF P, Heard
<1>21. /\ p2 \in Histories(P) /\ Len(p2) = (n + m) + l
       /\ Joins(TextOf(p2), TextOf(p1), n + m, There(result), l)
  <2>. HIDE DEF p1
  <2>1. /\ p2 \in Histories(P) /\ Len(p2) = Len(p1) + l
        /\ Joins(TextOf(p2), TextOf(p1), Len(p1), There(result), l)
    BY <1>3, <1>7, <1>19, <1>20, HistoryGoesOn
  <2>2. QED
    BY <1>19, <2>1
<1>22. Said(both, n + m)
  <2>1. ASSUME NEW i \in 1 .. (n + m) PROVE both[i] \in R
    <3>1. Len(h1) = n + m /\ h1 \in Histories(R)
      BY <1>8
    <3>. HIDE DEF h1
    <3>2. \A j \in 1 .. Len(h1) : TextOf(h1)[j] \in R
      BY <1>4, <1>7, <3>1, HistoryGoesOn
    <3>3. QED
      BY <3>1, <3>2
  <2>2. QED
    BY <1>8, <2>1 DEF Said, Joins, R
<1>23. Echoes(TextOf(p1), both)
  <2>. HIDE DEF p1, both, asked, again, given, n
  <2>1. QED
    BY <1>2, <1>6, <1>8, <1>9, <1>17, <1>19, EchoesOn, Zenon
<1>24. Echoes(TextOf(p2), all)
  <2>. HIDE DEF p1, p2, both, all, n
  <2>1. QED
    BY <1>3, <1>10, <1>11, <1>20, <1>21, <1>22, <1>23, EchoesOn, Zenon
<1>25. BroughtFirst(both)
  <2>. HIDE DEF both, asked, n
  <2>1. QED
    BY <1>6, <1>8, <1>16, BroughtFirstOn
<1>26. BroughtFirst(all)
  <2>1. Bring(result) => ToSet(Matches(result)) \subseteq ToSet(asked)
    BY DEF Bring
  <2>2. ~Made(h1) => \A t \in ToSet(both) : ~MadeUp(t)
    BY DEF Made
  <2>3. \/ ToSet(Matches(result)) \subseteq ToSet(asked)
        \/ \A t \in ToSet(both) : ~MadeUp(t)
    BY <1>1, <2>1, <2>2
  <2>. HIDE DEF both, asked, all, n
  <2>4. QED
    BY <1>3, <1>8, <1>11, <1>25, <2>3, MayBring
<1>27. /\ Apply(asked, "recording") \in Seq(Placeholders) /\ stored \in Seq(Placeholders)
  <2>1. /\ \A i \in 1 .. n : Apply(asked, "recording")[i] \in Placeholders
        /\ \A i \in 1 .. m : stored[i] \in Placeholders
    <3>. HIDE DEF asked, stored, both, n
    <3>1. QED
      BY <1>5, <1>8, <1>9, <1>15, StoredInPlaceholders
  <2>2. Apply(asked, "recording") \in [1 .. n -> Placeholders]
    <3>1. Apply(asked, "recording") =
            [i \in DOMAIN Apply(asked, "recording") |-> Apply(asked, "recording")[i]]
      BY Replacing DEF Apply
    <3>2. QED
      BY <1>13, <2>1, <3>1
  <2>3. stored \in [1 .. m -> Placeholders]
    <3>1. stored = [i \in DOMAIN stored |-> stored[i]]
      BY Replacing DEF ApplyResponse
    <3>2. DOMAIN stored = 1 .. m
      BY <1>15 DEF StoredBy
    <3>3. QED
      BY <2>1, <3>1, <3>2
  <2>. HIDE DEF asked, stored, n
  <2>4. Apply(asked, "recording") \in Seq(Placeholders)
    BY <1>8, <2>2, IsSequence
  <2>5. stored \in Seq(Placeholders)
    BY <1>2, <2>3, IsSequence
  <2>6. QED
    BY <2>4, <2>5
<1>28. cassette' \in Seq([request : Seq(Placeholders), response : Seq(Placeholders)])
  <2>. DEFINE S == [request : Seq(Placeholders), response : Seq(Placeholders)]
              step == [request |-> Apply(asked, "recording"), response |-> stored]
  <2>1. step \in S
    BY <1>27
  <2>2. cassette \in Seq(S) /\ cassette' = Append(cassette, step)
    BY <1>1 DEF IInv
  <2>. HIDE DEF S, step
  <2>3. cassette' \in Seq(S)
    BY <2>1, <2>2, AppendProperties
  <2>4. QED
    BY <2>3 DEF S
<1>29. recorded' = h2 /\ replayed' = p2 /\ missed' = missed
  BY <1>1, <1>14
<1>30. /\ TextOf(recorded)' = all /\ TextOf(replayed)' = TextOf(p2)
  <2>1. TextOf(recorded)' = TextOf(recorded') /\ TextOf(replayed)' = TextOf(replayed')
    BY DEF TextOf
  <2>2. QED
    BY <1>29, <2>1
<1>31. /\ recorded' \in Histories(R)
       /\ replayed' \in Histories(P)
       /\ Len(replayed') = Len(recorded')
  <2>. HIDE DEF h2, p2
  <2>1. QED
    BY <1>11, <1>21, <1>29
<1>32. /\ Echoes(TextOf(replayed)', TextOf(recorded)') /\ BroughtFirst(TextOf(recorded)')
  <2>. HIDE DEF all, p2
  <2>1. QED
    BY <1>24, <1>26, <1>30
<1>33. ~missed'
  BY <1>6, <1>29
<1>. HIDE DEF asked, again
<1>34. QED
  BY <1>28, <1>31, <1>32, <1>33 DEF IInv, R, P, Echoes, BroughtFirst
-----------------------------------------------------------------------------
(* The theorems. A pattern that matches its own placeholder, and a world that *)
(* brings a name after the model made one up, are the two cases for which TLC *)
(* shows the conversation misled.                                          *)

\* The inductive invariant: the replay is an echo of the recording by numbers,
\* the world's names have the first of them, and the cassette is placeholders.
THEOREM Invariant ==
  ASSUME ~SelfMatching, ~Interleaved
  PROVE  Spec => []IInv
<1>1. Init => IInv
  BY InitInv
<1>2. IInv /\ [Next]_vars => IInv'
  <2>1. SUFFICES ASSUME IInv, [Next]_vars PROVE IInv'
    OBVIOUS
  <2>2. CASE Turn
    BY <2>1, <2>2, TurnKeeps
  <2>3. CASE UNCHANGED vars
    <3>1. recorded' = recorded /\ replayed' = replayed /\ cassette' = cassette /\ missed' = missed
      BY <2>3 DEF vars
    <3>2. TextOf(recorded)' = TextOf(recorded) /\ TextOf(replayed)' = TextOf(replayed)
      BY <3>1 DEF TextOf
    <3>3. /\ Echoes(TextOf(replayed), TextOf(recorded))' = Echoes(TextOf(replayed), TextOf(recorded))
          /\ BroughtFirst(TextOf(recorded))' = BroughtFirst(TextOf(recorded))
      BY <3>2 DEF Echoes, BroughtFirst
    <3>4. QED
      BY <2>1, <3>1, <3>3 DEF IInv
  <2>4. QED
    BY <2>1, <2>2, <2>3 DEF Next
<1>3. QED
  BY <1>1, <1>2, PTL DEF Spec

\* No name of the machine or of the run that recorded is in the cassette: what
\* Apply and ApplyResponse leave is placeholders alone, whoever brought a name.
THEOREM CassetteNamesNobody ==
  ASSUME ~SelfMatching, ~Interleaved
  PROVE  Spec => []Portable
<1>1. IInv => Portable
  <2>1. SUFFICES ASSUME IInv, NEW step \in ToSet(cassette),
                        NEW t \in ToSet(step.request) \cup ToSet(step.response)
                 PROVE  t \in Marks \/ t.is = "blank"
    BY DEF Portable
  <2>. DEFINE S == [request : Seq(Placeholders), response : Seq(Placeholders)]
  <2>2. step \in S
    <3>1. cassette \in Seq(S)
      BY <2>1 DEF IInv
    <3>. HIDE DEF S
    <3>2. DOMAIN cassette = 1 .. Len(cassette) /\ \A i \in 1 .. Len(cassette) : cassette[i] \in S
      BY <3>1, LenProperties, ElementOfSeq
    <3>3. QED
      BY <3>2 DEF ToSet
  <2>3. \A s \in Seq(Placeholders) : ToSet(s) \subseteq Placeholders
    BY LenProperties, ElementOfSeq DEF ToSet
  <2>4. step.request \in Seq(Placeholders) /\ step.response \in Seq(Placeholders)
    BY <2>2
  <2>5. t \in Placeholders
    BY <2>1, <2>3, <2>4
  <2>6. QED
    BY <2>5 DEF Placeholders, Blank
<1>2. QED
  BY <1>1, Invariant, PTL

\* The replay's conversation is the recorded one under other names: the same
\* name wherever it was the same, and another wherever it was another.
THEOREM RenamedThroughout ==
  ASSUME ~SelfMatching, ~Interleaved
  PROVE  Spec => []Renamed
<1>1. IInv => Renamed
  <2>. SUFFICES ASSUME IInv PROVE Renamed
    OBVIOUS
  <2>. DEFINE said == TextOf(recorded)
              heard == TextOf(replayed)
              there == There(said)
              n == Len(recorded)
              made == {i \in DOMAIN replayed : MadeUp(there[i])}
  <2>1. /\ n \in Nat /\ DOMAIN recorded = 1 .. n /\ DOMAIN replayed = 1 .. n
        /\ \A i \in 1 .. n : recorded[i].token \in Names("recording")
    <3>1. recorded \in Histories(Names("recording")) /\ replayed \in Histories(Heard)
          /\ Len(replayed) = n
      BY DEF IInv
    <3>. DEFINE E == [by : Parties, token : Names("recording")]
                P == [by : Parties, token : Heard]
    <3>2. recorded \in Seq(E) /\ replayed \in Seq(P)
      BY <3>1 DEF Histories
    <3>3. \A e \in E : e.token \in Names("recording")
      OBVIOUS
    <3>. HIDE DEF E, P
    <3>4. /\ n \in Nat /\ DOMAIN recorded = 1 .. n /\ DOMAIN replayed = 1 .. n
          /\ \A i \in 1 .. n : recorded[i] \in E
      BY <3>1, <3>2, LenProperties, ElementOfSeq
    <3>5. QED
      BY <3>3, <3>4
  <2>2. /\ DOMAIN said = 1 .. n /\ DOMAIN heard = 1 .. n
        /\ \A i \in 1 .. n : said[i] = recorded[i].token /\ heard[i] = replayed[i].token
    BY <2>1 DEF TextOf
  <2>3. \A i \in 1 .. n : said[i] \in Names("recording") /\ there[i] = Elsewhere(said[i])
    BY <2>1, <2>2 DEF There, Replaced
  <2>4. \A i \in 1 .. n : /\ MadeUp(there[i]) <=> MadeUp(said[i])
                          /\ MadeUp(said[i]) => Matched(said[i])
    BY <2>3, Tokens DEF MadeUp, Matched
  <2>5. \A i \in 1 .. n : heard[i] = IF MadeUp(said[i]) THEN Blank(PositionOf(said[i], Matches(said)))
                                     ELSE there[i]
    BY <2>2, <2>3 DEF IInv, Echoes
  <2>6. \A i \in made : i \in 1 .. n /\ MadeUp(said[i])
                        /\ heard[i] = Blank(PositionOf(said[i], Matches(said)))
    BY <2>1, <2>4, <2>5
  <2>7. ASSUME NEW i \in 1 .. n, NEW j \in 1 .. n, MadeUp(said[i]), MadeUp(said[j])
        PROVE  PositionOf(said[i], Matches(said)) = PositionOf(said[j], Matches(said)) => said[i] = said[j]
    <3>1. /\ Matches(said)[PositionOf(said[i], Matches(said))] = said[i]
          /\ Matches(said)[PositionOf(said[j], Matches(said))] = said[j]
      <4>1. n \in Nat /\ DOMAIN said = 1 .. n /\ Matched(said[i]) /\ Matched(said[j])
        BY <2>1, <2>2, <2>4, <2>7
      <4>. HIDE DEF said, n
      <4>2. QED
        BY <4>1, HasNumber
    <3>2. QED
      BY <3>1
  <2>8. \A i, j \in made : replayed[i].token = replayed[j].token <=> there[i] = there[j]
    <3>1. SUFFICES ASSUME NEW i \in made, NEW j \in made
                   PROVE  replayed[i].token = replayed[j].token <=> there[i] = there[j]
      OBVIOUS
    <3>2. /\ i \in 1 .. n /\ j \in 1 .. n /\ MadeUp(said[i]) /\ MadeUp(said[j])
          /\ heard[i] = Blank(PositionOf(said[i], Matches(said)))
          /\ heard[j] = Blank(PositionOf(said[j], Matches(said)))
      BY <2>6
    <3>. HIDE DEF said, heard, there, n, made
    <3>3. heard[i] = heard[j] <=> said[i] = said[j]
      BY <2>7, <3>2, Numbers
    <3>4. there[i] = there[j] <=> said[i] = said[j]
      BY <2>3, <3>2, ToldApart
    <3>5. QED
      BY <2>2, <3>2, <3>3, <3>4
  <2>9. \A i \in made : replayed[i].token.is = "blank"
    <3>. HIDE DEF said, heard, there, n, made
    <3>1. QED
      BY <2>2, <2>6, Numbers
  <2>10. \A i \in DOMAIN replayed \ made : replayed[i].token = there[i]
    BY <2>1, <2>2, <2>4, <2>5
  <2>. HIDE DEF said, heard, n
  <2>11. QED
    BY <2>8, <2>9, <2>10 DEF Renamed, said
<1>2. QED
  BY <1>1, Invariant, PTL

\* And it never misses: the names of the two runs differ, their numbers do not.
THEOREM ReplayNeverMisses ==
  ASSUME ~SelfMatching, ~Interleaved
  PROVE  Spec => []NeverMisses
<1>1. IInv => NeverMisses
  BY DEF IInv, NeverMisses
<1>2. QED
  BY <1>1, Invariant, PTL
=============================================================================
