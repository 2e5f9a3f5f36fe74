----------------------------- MODULE OfferProofs -----------------------------
(* Proofs about what becomes of the rows of a search: that the merge keeps MergeInv and  *)
(* the matcher MatcherInv. Both are full of recursion and of lists in no order; what is   *)
(* needed of them is proved from the least number that is an exception.                  *)
EXTENDS OfferMerge, ProductMatcher, WellFoundedInduction, FiniteSetTheorems, TLAPS

--------------------------------------------------------------------------------
(* Lists: their elements at some positions, recursion and induction over positions. *)

Less == {ss \in Nat \X Nat : ss[1] < ss[2]}

(* The numbers are well-founded: a set of them has a least one. *)
LEMMA LessWF == IsWellFoundedOn(Less, Nat)
BY NatLessThanWellFounded, SMT DEF Less, OpToRel

LEMMA SmallestOf ==
  ASSUME NEW S \in SUBSET Nat, S # {}
  PROVE  \E m \in S : \A n \in S : m <= n
<1>1. PICK m \in S : \A n \in S : ~(<<n, m>> \in Less)
  BY LessWF, WFMin
<1>2. ASSUME NEW n \in S PROVE m <= n
  <2>1. m \in Nat /\ n \in Nat /\ ~(<<n, m>> \in Less)
    BY <1>1
  <2>2. QED BY <2>1 DEF Less
<1>3. QED BY <1>2

(* Induction over the numbers up to N: a set with 0 and the successors of its members. *)
LEMMA Climb ==
  ASSUME NEW N \in Nat, NEW P, 0 \in P, \A k \in 1 .. N : k - 1 \in P => k \in P
  PROVE  \A k \in 0 .. N : k \in P
<1> DEFINE Bad == {k \in 0 .. N : k \notin P}
<1>1. ASSUME Bad # {} PROVE FALSE
  <2>1. Bad \in SUBSET Nat
    OBVIOUS
  <2>2. PICK k \in Bad : \A j \in Bad : k <= j
    <3> HIDE DEF Bad
    <3> QED BY <1>1, <2>1, SmallestOf
  <2>3. k \in 1 .. N /\ k - 1 \in 0 .. N /\ k - 1 \notin Bad
    BY <2>2
  <2>4. QED BY <2>2, <2>3
<1>2. QED BY <1>1

(* A function that is defined by recursion over the numbers up to N exists. *)
Unrolls(f, N, a, T) == f[0] = a /\ \A k \in 1 .. N : f[k] = T[k][f[k - 1]]

LEMMA RecursionExists ==
  ASSUME NEW N \in Nat, NEW A, NEW a \in A, NEW T \in [1 .. N -> [A -> A]]
  PROVE  \E f \in [0 .. N -> A] : Unrolls(f, N, a, T)
<1> DEFINE Upto(f, n) == f[0] = a /\ \A k \in 1 .. n : f[k] = T[k][f[k - 1]]
           P == {n \in 0 .. N : \E f \in [0 .. n -> A] : Upto(f, n)}
<1>1. 0 \in P
  <2> DEFINE g == [k \in 0 .. 0 |-> a]
  <2>1. g \in [0 .. 0 -> A] /\ g[0] = a /\ 0 \in 0 .. N
    OBVIOUS
  <2> HIDE DEF g
  <2>2. Upto(g, 0)
    BY <2>1
  <2>3. QED BY <2>1, <2>2
<1>2. ASSUME NEW n \in 1 .. N, n - 1 \in P PROVE n \in P
  <2>1. PICK f \in [0 .. n - 1 -> A] : Upto(f, n - 1)
    BY <1>2
  <2> DEFINE last == T[n][f[n - 1]]
             g == [k \in 0 .. n |-> IF k = n THEN last ELSE f[k]]
  <2>2. last \in A
    BY <2>1
  <2> HIDE DEF last
  <2>3. g \in [0 .. n -> A] /\ g[0] = a
    BY <2>1, <2>2
  <2>4. ASSUME NEW k \in 1 .. n PROVE g[k] = T[k][g[k - 1]]
    <3>1. CASE k = n
      <4>1. g[k] = last /\ g[k - 1] = f[n - 1]
        BY <3>1
      <4>2. QED BY <4>1, <3>1 DEF last
    <3>2. CASE k # n
      <4>1. k \in 1 .. n - 1 /\ g[k] = f[k] /\ g[k - 1] = f[k - 1]
        BY <3>2
      <4> HIDE DEF g
      <4>2. QED BY <4>1, <2>1
    <3>3. QED BY <3>1, <3>2
  <2> HIDE DEF g
  <2>5. Upto(g, n)
    BY <2>3, <2>4
  <2>6. n \in 0 .. N
    OBVIOUS
  <2>7. QED BY <2>3, <2>5, <2>6
<1>3. N \in P
  <2> HIDE DEF P
  <2>1. \A k \in 1 .. N : k - 1 \in P => k \in P
    BY <1>2
  <2>2. \A k \in 0 .. N : k \in P
    BY ONLY <1>1, <2>1, N \in Nat, Climb
  <2>3. QED BY <2>2
<1>4. QED BY <1>3 DEF Unrolls

(* As many numbers as a finite set has elements: sets that grow with their element count them. *)
LEMMA Ranked ==
  ASSUME NEW S, IsFiniteSet(S), NEW D \in [S -> SUBSET S],
         \A i \in S : i \in D[i],
         \A i, j \in S : D[i] \subseteq D[j] \/ D[j] \subseteq D[i],
         \A i, j \in S : D[i] = D[j] => i = j
  PROVE  /\ Cardinality(S) \in Nat
         /\ \A i \in S : Cardinality(D[i]) \in 1 .. Cardinality(S)
         /\ \A i, j \in S : Cardinality(D[i]) = Cardinality(D[j]) => i = j
         /\ \A i, j \in S : Cardinality(D[i]) <= Cardinality(D[j]) => D[i] \subseteq D[j]
         /\ \A n \in 1 .. Cardinality(S) : \E i \in S : Cardinality(D[i]) = n
<1> DEFINE rank == [i \in S |-> Cardinality(D[i])]
<1>0. Cardinality(S) \in Nat
  BY FS_CardinalityType
<1>1. ASSUME NEW i \in S
      PROVE  IsFiniteSet(D[i]) /\ Cardinality(D[i]) \in 1 .. Cardinality(S)
  <2>1. D[i] \in SUBSET S /\ D[i] # {}
    OBVIOUS
  <2>2. IsFiniteSet(D[i]) /\ Cardinality(D[i]) <= Cardinality(S)
    BY <2>1, FS_Subset
  <2>3. Cardinality(D[i]) \in Nat /\ Cardinality(D[i]) # 0
    BY <2>1, <2>2, FS_CardinalityType, FS_EmptySet
  <2>4. QED BY <2>2, <2>3, <1>0
<1>2. ASSUME NEW i \in S, NEW j \in S, Cardinality(D[i]) <= Cardinality(D[j])
      PROVE  D[i] \subseteq D[j]
  <2>1. CASE D[j] \subseteq D[i]
    <3>1. IsFiniteSet(D[i]) /\ D[j] \in SUBSET D[i]
      BY <1>1, <2>1
    <3>2. Cardinality(D[j]) <= Cardinality(D[i])
      BY <3>1, FS_Subset
    <3>3. Cardinality(D[i]) = Cardinality(D[j])
      BY <3>2, <1>2, <1>1
    <3>4. D[i] = D[j]
      BY <3>1, <3>3, FS_Subset
    <3>5. QED BY <3>4
  <2>2. QED BY <2>1
<1>3. ASSUME NEW i \in S, NEW j \in S, Cardinality(D[i]) = Cardinality(D[j])
      PROVE  i = j
  <2>1. Cardinality(D[i]) <= Cardinality(D[j]) /\ Cardinality(D[j]) <= Cardinality(D[i])
    BY <1>1, <1>3
  <2>2. D[i] = D[j]
    BY <2>1, <1>2
  <2>3. QED BY <2>2
<1>4. rank \in Injection(S, 1 .. Cardinality(S))
  <2>1. rank \in [S -> 1 .. Cardinality(S)]
    BY <1>1
  <2>2. IsInjective(rank)
    BY <1>3 DEF IsInjective
  <2>3. QED BY <2>1, <2>2 DEF Injection
<1>5. IsFiniteSet(1 .. Cardinality(S)) /\ Cardinality(1 .. Cardinality(S)) = Cardinality(S)
  BY <1>0, FS_Interval
<1>6. rank \in Surjection(S, 1 .. Cardinality(S))
  <2> HIDE DEF rank
  <2> QED BY <1>4, <1>5, FS_Injection
<1>7. \A n \in 1 .. Cardinality(S) : \E i \in S : Cardinality(D[i]) = n
  BY <1>6 DEF Surjection
<1>8. QED BY <1>0, <1>1, <1>2, <1>3, <1>7

(* What Nth counts. *)
LEMMA NthExists ==
  ASSUME NEW S \in SUBSET Nat, IsFiniteSet(S)
  PROVE  /\ Cardinality(S) \in Nat
         /\ \A n \in 1 .. Cardinality(S) : Nth(S, n) \in S /\ Cardinality({j \in S : j <= Nth(S, n)}) = n
         /\ \A i \in S : \E n \in 1 .. Cardinality(S) : Nth(S, n) = i
         /\ \A n, m \in 1 .. Cardinality(S) : n < m => Nth(S, n) < Nth(S, m)
<1> DEFINE D == [i \in S |-> {j \in S : j <= i}]
<1>1. D \in [S -> SUBSET S] /\ \A i \in S : i \in D[i]
  OBVIOUS
<1>2. \A i, j \in S : (D[i] \subseteq D[j] \/ D[j] \subseteq D[i]) /\ (D[i] = D[j] => i = j)
      /\ (D[i] \subseteq D[j] => i <= j)
  <2> TAKE i \in S, j \in S
  <2>1. i \in Nat /\ j \in Nat /\ i \in D[i] /\ j \in D[j]
    OBVIOUS
  <2>2. D[i] = {k \in S : k <= i} /\ D[j] = {k \in S : k <= j}
    OBVIOUS
  <2>3. D[i] \subseteq D[j] => i <= j
    BY <2>1, <2>2
  <2>4. D[j] \subseteq D[i] => j <= i
    BY <2>1, <2>2
  <2>5. ASSUME i <= j PROVE D[i] \subseteq D[j]
    <3>1. \A k \in S : k \in Nat /\ (k <= i => k <= j)
      BY <2>1, <2>5
    <3>2. QED BY <2>2, <3>1
  <2>6. ASSUME j <= i PROVE D[j] \subseteq D[i]
    <3>1. \A k \in S : k \in Nat /\ (k <= j => k <= i)
      BY <2>1, <2>6
    <3>2. QED BY <2>2, <3>1
  <2> HIDE DEF D
  <2>7. QED BY <2>1, <2>3, <2>4, <2>5, <2>6
<1>3. /\ Cardinality(S) \in Nat
      /\ \A i \in S : Cardinality(D[i]) \in 1 .. Cardinality(S)
      /\ \A i, j \in S : Cardinality(D[i]) = Cardinality(D[j]) => i = j
      /\ \A i, j \in S : Cardinality(D[i]) <= Cardinality(D[j]) => D[i] \subseteq D[j]
      /\ \A n \in 1 .. Cardinality(S) : \E i \in S : Cardinality(D[i]) = n
  <2> HIDE DEF D
  <2>1. \A i, j \in S : D[i] \subseteq D[j] \/ D[j] \subseteq D[i]
    BY <1>2
  <2>2. \A i, j \in S : D[i] = D[j] => i = j
    BY <1>2
  <2>3. \A i \in S : i \in D[i]
    BY <1>1
  <2> QED BY ONLY IsFiniteSet(S), <1>1, <2>1, <2>2, <2>3, Ranked
<1>4. \A i \in S : D[i] = {j \in S : j <= i}
  OBVIOUS
<1>5. ASSUME NEW n \in 1 .. Cardinality(S)
      PROVE  Nth(S, n) \in S /\ Cardinality(D[Nth(S, n)]) = n
  <2> HIDE DEF D
  <2>1. PICK i \in S : Cardinality(D[i]) = n
    BY <1>3
  <2>2. \E k \in S : Cardinality({j \in S : j <= k}) = n
    BY <2>1, <1>4
  <2>3. Nth(S, n) \in S /\ Cardinality({j \in S : j <= Nth(S, n)}) = n
    BY <2>2 DEF Nth
  <2>4. QED BY <2>3, <1>4
<1>6. ASSUME NEW i \in S
      PROVE  \E n \in 1 .. Cardinality(S) : Nth(S, n) = i
  <2> HIDE DEF D
  <2>1. Cardinality(D[i]) \in 1 .. Cardinality(S)
    BY <1>3
  <2>2. Nth(S, Cardinality(D[i])) = i
    BY <2>1, <1>3, <1>5
  <2>3. QED BY <2>1, <2>2
<1>7. ASSUME NEW n \in 1 .. Cardinality(S), NEW m \in 1 .. Cardinality(S), n < m
      PROVE  Nth(S, n) < Nth(S, m)
  <2>1. n \in Nat /\ m \in Nat /\ n <= m /\ n # m
    BY <1>3, <1>7
  <2>2. D[Nth(S, n)] \subseteq D[Nth(S, m)]
    <3> HIDE DEF D
    <3> QED BY <2>1, <1>3, <1>5
  <2>3. Nth(S, n) <= Nth(S, m) /\ Nth(S, n) # Nth(S, m)
    <3> HIDE DEF D
    <3> QED BY <2>1, <2>2, <1>2, <1>5
  <2>4. Nth(S, n) \in Nat /\ Nth(S, m) \in Nat
    BY <1>5
  <2> HIDE DEF D
  <2>5. QED BY <2>3, <2>4
<1>8. QED BY <1>3, <1>4, <1>5, <1>6, <1>7

(* The positions of a list are finitely many. *)
LEMMA PositionsFinite ==
  ASSUME NEW n \in Nat, NEW S \in SUBSET (1 .. n)
  PROVE  IsFiniteSet(S) /\ S \in SUBSET Nat /\ Cardinality(S) \in Nat /\ Cardinality(S) <= n
<1>1. IsFiniteSet(1 .. n) /\ Cardinality(1 .. n) = n
  BY FS_Interval
<1>2. IsFiniteSet(S) /\ Cardinality(S) <= n
  BY <1>1, FS_Subset
<1>3. QED BY <1>2, FS_CardinalityType

(* Picked keeps the elements at its positions, in their order. *)
LEMMA PickedFacts ==
  ASSUME NEW A, NEW list \in Seq(A), NEW P \in SUBSET DOMAIN list
  PROVE  /\ Picked(list, P) \in Seq(A)
         /\ Len(Picked(list, P)) = Cardinality(P) /\ Len(Picked(list, P)) <= Len(list)
         /\ DOMAIN Picked(list, P) = 1 .. Cardinality(P)
         /\ \A n \in DOMAIN Picked(list, P) : Nth(P, n) \in P /\ Picked(list, P)[n] = list[Nth(P, n)]
         /\ \A n, m \in DOMAIN Picked(list, P) : n < m => Nth(P, n) < Nth(P, m)
         /\ ToSet(Picked(list, P)) = {list[i] : i \in P}
<1>1. Len(list) \in Nat /\ DOMAIN list = 1 .. Len(list)
  OBVIOUS
<1>2. IsFiniteSet(P) /\ P \in SUBSET Nat /\ Cardinality(P) \in Nat /\ Cardinality(P) <= Len(list)
  BY <1>1, PositionsFinite
<1>3. /\ \A n \in 1 .. Cardinality(P) : Nth(P, n) \in P
      /\ \A i \in P : \E n \in 1 .. Cardinality(P) : Nth(P, n) = i
      /\ \A n, m \in 1 .. Cardinality(P) : n < m => Nth(P, n) < Nth(P, m)
  BY <1>2, NthExists
<1>4. DOMAIN Picked(list, P) = 1 .. Cardinality(P)
      /\ \A n \in 1 .. Cardinality(P) : Picked(list, P)[n] = list[Nth(P, n)] /\ list[Nth(P, n)] \in A
  BY <1>1, <1>3 DEF Picked
<1>5. Picked(list, P) \in Seq(A) /\ Len(Picked(list, P)) = Cardinality(P)
  <2>1. Picked(list, P) = [n \in 1 .. Cardinality(P) |-> list[Nth(P, n)]]
    BY DEF Picked
  <2>2. QED BY <2>1, <1>2, <1>4
<1>6. ToSet(Picked(list, P)) = {list[i] : i \in P}
  BY <1>3, <1>4 DEF ToSet
<1>7. QED BY <1>2, <1>3, <1>4, <1>5, <1>6

(* Picked at all positions, a list is itself. *)
LEMMA PickedAll ==
  ASSUME NEW A, NEW list \in Seq(A)
  PROVE  Picked(list, DOMAIN list) = list
<1> DEFINE N == Len(list)
<1>1. N \in Nat /\ DOMAIN list = 1 .. N
  OBVIOUS
<1> HIDE DEF N
<1>2. Cardinality(1 .. N) = N /\ IsFiniteSet(1 .. N) /\ 1 .. N \in SUBSET Nat
  BY <1>1, FS_Interval
<1>3. ASSUME NEW n \in 1 .. N PROVE Nth(1 .. N, n) = n
  <2>1. Nth(1 .. N, n) \in 1 .. N /\ Cardinality({j \in 1 .. N : j <= Nth(1 .. N, n)}) = n
    BY <1>2, NthExists
  <2> DEFINE m == Nth(1 .. N, n)
  <2> HIDE DEF m
  <2>2. m \in 1 .. N /\ Cardinality({j \in 1 .. N : j <= m}) = n
    BY <2>1 DEF m
  <2>3. {j \in 1 .. N : j <= m} = 1 .. m
    BY <2>2, <1>1
  <2>4. Cardinality(1 .. m) = m
    BY <2>2, <1>1, FS_Interval
  <2>5. QED BY <2>2, <2>3, <2>4 DEF m
<1>4. Picked(list, DOMAIN list) = [n \in 1 .. N |-> list[n]]
  BY <1>1, <1>2, <1>3 DEF Picked
<1>5. QED BY <1>1, <1>4

--------------------------------------------------------------------------------
(* The merge of the offers of a search. *)

(* Some positions of a list are told by what stays before them. *)
LEMMA KernelExists ==
  ASSUME NEW N \in Nat, NEW R
  PROVE  \E S \in SUBSET (1 .. N) : \A i \in 1 .. N : i \in S <=> \A j \in 1 .. i - 1 : j \in S => <<j, i>> \notin R
<1> DEFINE Upto(S, n) == \A i \in 1 .. n : i \in S <=> \A j \in 1 .. i - 1 : j \in S => <<j, i>> \notin R
           P == {n \in 0 .. N : \E S \in SUBSET (1 .. n) : Upto(S, n)}
<1>1. 0 \in P
  <2>1. {} \in SUBSET (1 .. 0) /\ Upto({}, 0) /\ 0 \in 0 .. N
    OBVIOUS
  <2> HIDE DEF Upto
  <2>2. QED BY <2>1
<1>2. ASSUME NEW n \in 1 .. N, n - 1 \in P PROVE n \in P
  <2>1. PICK S \in SUBSET (1 .. n - 1) : Upto(S, n - 1)
    BY <1>2
  <2> DEFINE U == IF \A j \in S : <<j, n>> \notin R THEN S \cup {n} ELSE S
  <2>2. U \in SUBSET (1 .. n) /\ (\A i \in 1 .. n - 1 : i \in U <=> i \in S)
        /\ (n \in U <=> \A j \in S : <<j, n>> \notin R)
    OBVIOUS
  <2> HIDE DEF U
  <2>3. ASSUME NEW i \in 1 .. n PROVE i \in U <=> \A j \in 1 .. i - 1 : j \in U => <<j, i>> \notin R
    <3>0. \A j \in 1 .. i - 1 : j \in U <=> j \in S
      BY <2>2
    <3>1. CASE i = n
      BY <3>0, <3>1, <2>2
    <3>2. CASE i # n
      <4>1. i \in 1 .. n - 1
        BY <3>2
      <4>2. QED BY <4>1, <3>0, <2>1, <2>2
    <3>3. QED BY <3>1, <3>2
  <2>4. n \in 0 .. N /\ Upto(U, n)
    BY <2>3
  <2>5. QED BY <2>2, <2>4
<1>3. N \in P
  <2> HIDE DEF P
  <2>1. \A k \in 1 .. N : k - 1 \in P => k \in P
    BY <1>2
  <2>2. \A k \in 0 .. N : k \in P
    BY ONLY <1>1, <2>1, N \in Nat, Climb
  <2>3. QED BY <2>2
<1>4. QED BY <1>3

(* What stays is what is not the same as something before it that stays. *)
LEMMA StayingFacts ==
  ASSUME NEW A, NEW list \in Seq(A)
  PROVE  /\ Staying(list) \in SUBSET DOMAIN list
         /\ \A i \in DOMAIN list :
              i \in Staying(list) <=> \A j \in 1 .. i - 1 : j \in Staying(list) => ~Same(list[j], list[i])
<1> DEFINE N == Len(list)
           R == {ji \in (1 .. N) \X (1 .. N) : Same(list[ji[1]], list[ji[2]])}
           Recursion(f) == f = [i \in DOMAIN list |-> \A j \in 1 .. i - 1 : f[j] => ~Same(list[j], list[i])]
           stays == CHOOSE f : Recursion(f)
<1>1. N \in Nat /\ DOMAIN list = 1 .. N
  OBVIOUS
<1>2. \A i \in 1 .. N : \A j \in 1 .. i - 1 : <<j, i>> \in R <=> Same(list[j], list[i])
  OBVIOUS
<1>3. PICK S \in SUBSET (1 .. N) : \A i \in 1 .. N : i \in S <=> \A j \in 1 .. i - 1 : j \in S => <<j, i>> \notin R
  <2> HIDE DEF N, R
  <2> QED BY <1>1, KernelExists
<1> HIDE DEF N, R
<1>4. \E f : Recursion(f)
  <2> DEFINE f == [i \in DOMAIN list |-> i \in S]
  <2>1. ASSUME NEW i \in DOMAIN list
        PROVE  (i \in S) = (\A j \in 1 .. i - 1 : f[j] => ~Same(list[j], list[i]))
    <3>1. \A j \in 1 .. i - 1 : j \in DOMAIN list
      BY <1>1
    <3>2. \A j \in 1 .. i - 1 : f[j] <=> j \in S
      BY <3>1
    <3> HIDE DEF f
    <3>3. i \in S <=> \A j \in 1 .. i - 1 : f[j] => ~Same(list[j], list[i])
      BY <3>2, <1>1, <1>2, <1>3
    <3> DEFINE stayed == i \in S
               told == \A j \in 1 .. i - 1 : f[j] => ~Same(list[j], list[i])
    <3>4. stayed <=> told
      BY <3>3
    <3>5. stayed \in BOOLEAN
      OBVIOUS
    <3>6. told \in BOOLEAN
      OBVIOUS
    <3> HIDE DEF stayed, told
    <3>7. stayed = told
      BY <3>4, <3>5, <3>6
    <3>8. QED BY <3>7 DEF stayed, told
  <2>2. Recursion(f)
    BY <2>1, Zenon
  <2> HIDE DEF f, Recursion
  <2>3. QED BY <2>2
<1>5. Recursion(stays)
  <2> HIDE DEF Recursion
  <2> QED BY <1>4
<1>6. Staying(list) = {i \in DOMAIN list : stays[i]}
  BY DEF Staying
<1>7. \A i \in DOMAIN list : stays[i] = \A j \in 1 .. i - 1 : stays[j] => ~Same(list[j], list[i])
  <2> HIDE DEF stays
  <2> QED BY <1>5, Zenon
<1> HIDE DEF stays
<1>8. \A i \in DOMAIN list : \A j \in 1 .. i - 1 : j \in DOMAIN list
  BY <1>1
<1>9. QED BY <1>6, <1>7, <1>8, Zenon

(* What the dedupe keeps: the first of the same; once more, it keeps them all. *)
LEMMA DedupedFacts ==
  ASSUME NEW A, NEW list \in Seq(A)
  PROVE  /\ Deduped(list) \in Seq(A) /\ Len(Deduped(list)) <= Len(list)
         /\ ToSet(Deduped(list)) \subseteq ToSet(list)
         /\ \A o \in ToSet(list) : o \in ToSet(Deduped(list)) \/ \E k \in ToSet(Deduped(list)) : Same(k, o)
         /\ Deduped(Deduped(list)) = Deduped(list)
<1> DEFINE P == Staying(list)
           kept == Picked(list, P)
<1>1. P \in SUBSET DOMAIN list
      /\ \A i \in DOMAIN list : i \in P <=> \A j \in 1 .. i - 1 : j \in P => ~Same(list[j], list[i])
  BY StayingFacts
<1>2. Len(list) \in Nat /\ DOMAIN list = 1 .. Len(list) /\ Deduped(list) = kept
  BY DEF Deduped
<1> HIDE DEF P
<1>3. /\ kept \in Seq(A)
      /\ Len(kept) <= Len(list)
      /\ \A n \in DOMAIN kept : Nth(P, n) \in P /\ kept[n] = list[Nth(P, n)]
      /\ \A n, m \in DOMAIN kept : n < m => Nth(P, n) < Nth(P, m)
      /\ ToSet(kept) = {list[i] : i \in P}
  BY <1>1, PickedFacts
<1> HIDE DEF kept
<1>4. ToSet(kept) \subseteq ToSet(list)
  BY <1>1, <1>3 DEF ToSet
<1>5. ASSUME NEW o \in ToSet(list)
      PROVE  o \in ToSet(kept) \/ \E k \in ToSet(kept) : Same(k, o)
  <2>1. PICK i \in DOMAIN list : o = list[i]
    BY DEF ToSet
  <2>2. CASE i \in P
    BY <2>1, <2>2, <1>3
  <2>3. CASE i \notin P
    BY <2>1, <2>3, <1>1, <1>3
  <2>4. QED BY <2>2, <2>3
<1>6. ASSUME NEW n \in DOMAIN kept, NEW m \in 1 .. n - 1
      PROVE  ~Same(kept[m], kept[n])
  <2>0. Len(kept) \in Nat /\ DOMAIN kept = 1 .. Len(kept)
    BY <1>3
  <2>1. m \in DOMAIN kept /\ m < n
    BY <2>0
  <2>2. Nth(P, m) \in P /\ Nth(P, n) \in P /\ Nth(P, m) < Nth(P, n)
    BY <2>1, <1>3
  <2>3. Nth(P, n) \in DOMAIN list /\ Nth(P, m) \in 1 .. Nth(P, n) - 1
    BY <2>2, <1>1, <1>2
  <2>4. ~Same(list[Nth(P, m)], list[Nth(P, n)])
    BY <2>2, <2>3, <1>1
  <2>5. QED BY <2>1, <2>4, <1>3
<1>7. Staying(kept) = DOMAIN kept
  BY <1>3, <1>6, StayingFacts
<1>8. Deduped(kept) = kept
  BY <1>3, <1>7, PickedAll DEF Deduped
<1>9. QED BY <1>2, <1>3, <1>4, <1>5, <1>8

(* The groups come cheapest first, with what they had. *)
LEMMA ByPriceFacts ==
  ASSUME NEW A, NEW list \in Seq(A), \A o \in A : o.price \in Nat
  PROVE  /\ ByPrice(list) \in Seq(A) /\ ToSet(ByPrice(list)) = ToSet(list)
         /\ \A i, j \in DOMAIN ByPrice(list) : i < j => ByPrice(list)[i].price <= ByPrice(list)[j].price
<1> DEFINE S == DOMAIN list
           D == [i \in S |-> {j \in S : Ahead(list, j, i)}]
           at(n) == CHOOSE i \in S : Cardinality({j \in S : Ahead(list, j, i)}) = n
<1>1. Len(list) \in Nat /\ S = 1 .. Len(list) /\ IsFiniteSet(S) /\ Cardinality(S) = Len(list)
      /\ \A i \in S : list[i] \in A /\ list[i].price \in Nat
  <2>1. Len(list) \in Nat /\ S = 1 .. Len(list) /\ \A i \in S : list[i] \in A
    OBVIOUS
  <2>2. QED BY <2>1, FS_Interval
<1>2. D \in [S -> SUBSET S] /\ \A i \in S : D[i] = {j \in S : Ahead(list, j, i)}
  OBVIOUS
<1> HIDE DEF D
<1>3. /\ \A i \in S : Ahead(list, i, i)
      /\ \A i, j \in S : Ahead(list, i, j) \/ Ahead(list, j, i)
      /\ \A i, j \in S : Ahead(list, i, j) /\ Ahead(list, j, i) => i = j
      /\ \A i, j, k \in S : Ahead(list, i, j) /\ Ahead(list, j, k) => Ahead(list, i, k)
      /\ \A i, j \in S : Ahead(list, i, j) => list[i].price <= list[j].price
  <2>1. \A i \in S : i \in Nat /\ list[i].price \in Nat
    BY <1>1
  <2> HIDE DEF S
  <2>2. QED BY <2>1 DEF Ahead
<1> HIDE DEF S
<1>4. /\ \A i \in S : i \in D[i]
      /\ \A i, j \in S : D[i] \subseteq D[j] \/ D[j] \subseteq D[i]
      /\ \A i, j \in S : D[i] = D[j] => i = j
      /\ \A i, j \in S : D[i] \subseteq D[j] => Ahead(list, i, j)
  <2>1. \A i \in S : i \in D[i]
    BY <1>2, <1>3
  <2>2. \A i, j \in S : D[i] \subseteq D[j] => Ahead(list, i, j)
    BY <2>1, <1>2
  <2>3. \A i, j \in S : Ahead(list, i, j) => D[i] \subseteq D[j]
    BY <1>2, <1>3
  <2>4. QED BY <2>1, <2>2, <2>3, <1>3
<1>5. /\ \A i \in S : Cardinality(D[i]) \in 1 .. Cardinality(S)
      /\ \A i, j \in S : Cardinality(D[i]) = Cardinality(D[j]) => i = j
      /\ \A i, j \in S : Cardinality(D[i]) <= Cardinality(D[j]) => D[i] \subseteq D[j]
      /\ \A n \in 1 .. Cardinality(S) : \E i \in S : Cardinality(D[i]) = n
  <2>1. IsFiniteSet(S) /\ D \in [S -> SUBSET S]
    BY <1>1, <1>2
  <2>2. QED BY ONLY <2>1, <1>4, Ranked
<1>6. ASSUME NEW n \in S PROVE at(n) \in S /\ Cardinality(D[at(n)]) = n
  <2>1. PICK i \in S : Cardinality(D[i]) = n
    BY <1>1, <1>5
  <2>2. Cardinality({j \in S : Ahead(list, j, i)}) = n
    BY <2>1, <1>2
  <2>3. at(n) \in S /\ Cardinality({j \in S : Ahead(list, j, at(n))}) = n
    BY <2>2
  <2> HIDE DEF at
  <2>4. QED BY <2>3, <1>2
<1>7. ASSUME NEW i \in S PROVE \E n \in S : at(n) = i
  <2>1. Cardinality(D[i]) \in S
    BY <1>1, <1>5
  <2> HIDE DEF at
  <2>2. QED BY <2>1, <1>5, <1>6
<1>8. ByPrice(list) = [n \in S |-> list[at(n)]]
  BY DEF ByPrice, S
<1> HIDE DEF at
<1>9. DOMAIN ByPrice(list) = S /\ \A n \in S : ByPrice(list)[n] = list[at(n)] /\ list[at(n)] \in A
  BY <1>8, <1>6, <1>1
<1>10. ByPrice(list) \in Seq(A)
  BY <1>8, <1>9, <1>1
<1>11. ToSet(ByPrice(list)) = ToSet(list)
  BY <1>9, <1>6, <1>7 DEF ToSet, S
<1>12. ASSUME NEW i \in S, NEW j \in S, i < j
       PROVE  ByPrice(list)[i].price <= ByPrice(list)[j].price
  <2>1. Cardinality(D[at(i)]) <= Cardinality(D[at(j)])
    BY <1>6, <1>12, <1>1
  <2>2. list[at(i)].price <= list[at(j)].price
    BY <2>1, <1>3, <1>4, <1>5, <1>6
  <2>3. QED BY <2>2, <1>9
<1>13. QED BY <1>9, <1>10, <1>11, <1>12

(* The offers of a search: matched is what has a perfume; a price is never zero. *)
AnOffer ==
  {o \in [store : {"easycosmetic", "sabina", "other"}, page : {"u1", "u2"},
          selector : {"none", "id1", "id2", "url1", "url2"}, name : {"n1", "n2"}, size : Nat, format : Nat,
          price : Nat \ {0}, sameLine : BOOLEAN, sameShown : BOOLEAN, status : {"matched", "rejected", "unresolved"},
          perfume : Perfumes \cup {"none"}, link : [locale : {"es", "it"}, size : Nat]] :
     o.status = "matched" <=> o.perfume \in Perfumes}

(* Offers and what is published of them have their types. *)
LEMMA OfferTyped ==
  ASSUME NEW row \in RawRows, NEW family \in BOOLEAN
  PROVE  Offer(row, IdentityOf(row, family)) \in AnOffer
<1> DEFINE status == IdentityOf(row, family)
<1>1. row \in RawRow
  BY MergeAssumption
<1>2. status \in {"matched", "rejected", "unresolved"} /\ (status = "matched" <=> row.match \in Perfumes)
  BY DEF IdentityOf
<1>3. CleanPrice(row) \in Nat \ {0}
  BY <1>1 DEF RawRow, CleanPrice, NoAmount
<1> HIDE DEF status
<1> DEFINE perfume == IF status = "matched" THEN row.match ELSE "none"
<1>4. perfume \in Perfumes \cup {"none"} /\ (status = "matched" <=> perfume \in Perfumes)
  BY <1>2 DEF Perfumes
<1> HIDE DEF perfume
<1>5. Offer(row, status) \in AnOffer
  BY <1>1, <1>2, <1>3, <1>4 DEF Offer, AnOffer, RawRow, NoSize, perfume
<1>6. QED BY <1>5 DEF status

LEMMA PublicTyped ==
  ASSUME NEW o \in AnOffer
  PROVE  /\ PublicOffer(o) \in AnOffer
         /\ PublicOffer(o).sameShown = o.sameShown
         /\ PublicOffer(o).store = "sabina" /\ SizeOf(PublicOffer(o)) \in SabinaSizes =>
              /\ PublicOffer(o).link.locale = "es"
              /\ PublicOffer(o).link.size \in {NoSize, SizeOf(PublicOffer(o))}
<1> DEFINE link == PublicLink(o)
<1>1. link \in [locale : {"es", "it"}, size : Nat]
  BY DEF PublicLink, AnOffer, NoSize
<1>2. o.store = "sabina" /\ SizeOf(o) \in SabinaSizes => link.locale = "es" /\ link.size \in {NoSize, SizeOf(o)}
  BY DEF PublicLink
<1> HIDE DEF link
<1>3. PublicOffer(o) = [o EXCEPT !.link = link]
  BY DEF PublicOffer, link
<1>4. PublicOffer(o) \in AnOffer /\ PublicOffer(o).link = link
  BY <1>1, <1>3 DEF AnOffer
<1>5. /\ PublicOffer(o).sameShown = o.sameShown
      /\ PublicOffer(o).store = o.store /\ SizeOf(PublicOffer(o)) = SizeOf(o)
  BY <1>3 DEF AnOffer, SizeOf
<1>6. QED BY <1>2, <1>4, <1>5

(* A group has the public form of what was kept of its perfume, cheapest first. *)
LEMMA GroupFacts ==
  ASSUME NEW kept \in Seq(AnOffer), NEW c \in Perfumes
  PROVE  /\ GroupOf(kept, c) \in Seq(AnOffer)
         /\ ToSet(GroupOf(kept, c)) = {PublicOffer(o) : o \in {k \in ToSet(kept) : k.perfume = c /\ k.sameLine}}
         /\ \A i, j \in DOMAIN GroupOf(kept, c) :
              i < j => GroupOf(kept, c)[i].price <= GroupOf(kept, c)[j].price
<1> DEFINE P == OfPerfume(kept, c)
           of == Picked(kept, P)
           public == [n \in DOMAIN of |-> PublicOffer(of[n])]
<1>1. \A i \in DOMAIN kept : kept[i] \in AnOffer /\ (kept[i].perfume = c => kept[i].status = "matched")
  BY DEF AnOffer
<1>2. P = {i \in DOMAIN kept : kept[i].perfume = c /\ kept[i].sameLine}
  BY <1>1 DEF OfPerfume
<1> HIDE DEF P
<1>3. of \in Seq(AnOffer) /\ ToSet(of) = {kept[i] : i \in P}
  BY <1>2, PickedFacts
<1>4. ToSet(of) = {k \in ToSet(kept) : k.perfume = c /\ k.sameLine}
  BY <1>2, <1>3 DEF ToSet
<1> HIDE DEF of
<1>5. Len(of) \in Nat /\ DOMAIN of = 1 .. Len(of) /\ \A n \in DOMAIN of : of[n] \in AnOffer
  BY <1>3
<1>6. public \in Seq(AnOffer) /\ DOMAIN public = DOMAIN of /\ \A n \in DOMAIN of : public[n] = PublicOffer(of[n])
  BY <1>5, PublicTyped
<1> HIDE DEF public
<1>7. ToSet(public) = {PublicOffer(o) : o \in ToSet(of)}
  BY <1>6 DEF ToSet
<1>8. \A o \in AnOffer : o.price \in Nat
  BY DEF AnOffer
<1>9. /\ ByPrice(public) \in Seq(AnOffer) /\ ToSet(ByPrice(public)) = ToSet(public)
      /\ \A i, j \in DOMAIN ByPrice(public) : i < j => ByPrice(public)[i].price <= ByPrice(public)[j].price
  BY <1>6, <1>8, ByPriceFacts
<1>10. GroupOf(kept, c) = ByPrice(public)
  BY DEF GroupOf, public, of, P
<1>11. QED BY <1>4, <1>7, <1>9, <1>10

(* The offers that are safe to show keep the order of their group. *)
LEMMA SafeFacts ==
  ASSUME NEW group \in Seq(AnOffer), \A i, j \in DOMAIN group : i < j => group[i].price <= group[j].price
  PROVE  /\ SafeOffers(group) \in Seq(AnOffer)
         /\ ToSet(SafeOffers(group)) = {o \in ToSet(group) : o.sameShown}
         /\ \A i, j \in DOMAIN SafeOffers(group) : i < j => SafeOffers(group)[i].price <= SafeOffers(group)[j].price
<1> DEFINE P == {i \in DOMAIN group : group[i].sameShown}
           safe == Picked(group, P)
<1>1. P \in SUBSET DOMAIN group
  OBVIOUS
<1>2. {group[i] : i \in P} = {o \in ToSet(group) : o.sameShown}
  BY DEF ToSet
<1> HIDE DEF P
<1>3. /\ safe \in Seq(AnOffer) /\ ToSet(safe) = {group[i] : i \in P}
      /\ \A n \in DOMAIN safe : Nth(P, n) \in P /\ safe[n] = group[Nth(P, n)]
      /\ \A n, m \in DOMAIN safe : n < m => Nth(P, n) < Nth(P, m)
  BY <1>1, PickedFacts
<1>4. SafeOffers(group) = safe
  BY DEF SafeOffers, P
<1> HIDE DEF safe
<1>5. \A i, j \in DOMAIN safe : i < j => safe[i].price <= safe[j].price
  BY <1>1, <1>3
<1>6. QED BY <1>2, <1>3, <1>4, <1>5

--------------------------------------------------------------------------------
(* What the parts of a search's merge are, for as long as it goes on. *)
MergeRecord ==
  [at : {"collect", "published", "shown"}, family : BOOLEAN, offers : Seq(AnOffer), kept : Seq(AnOffer),
   groups : [Perfumes -> Seq(AnOffer)], unresolved : Seq(AnOffer), shown : [Perfumes -> Seq(AnOffer)]]
MergeIInv ==
  /\ merge \in MergeRecord
  /\ Len(merge.offers) <= MaxOffers
  /\ IF merge.at = "collect" THEN merge.kept = <<>>
     ELSE merge.kept = Deduped(merge.offers) /\ merge.groups = [c \in Perfumes |-> GroupOf(merge.kept, c)]
  /\ merge.shown = [c \in Perfumes |-> IF merge.at = "shown" THEN SafeOffers(merge.groups[c]) ELSE <<>>]

(* The merge begins well, and its steps keep the inductive invariant. *)
LEMMA MergeStarts ==
  ASSUME NEW family \in BOOLEAN, NEW m, m = [MergeIdle EXCEPT !.family = family]
  PROVE  /\ m \in MergeRecord /\ m.at = "collect" /\ m.kept = <<>> /\ Len(m.offers) <= MaxOffers
         /\ m.shown = [c \in Perfumes |-> <<>>]
<1> DEFINE none == [c \in Perfumes |-> <<>>]
           empty == <<>>
<1>1. none \in [Perfumes -> Seq(AnOffer)]
  OBVIOUS
<1>2. empty \in Seq(AnOffer) /\ Len(empty) <= MaxOffers
  BY MergeAssumption
<1> HIDE DEF none
<1>3. m = [at |-> "collect", family |-> family, offers |-> empty, kept |-> empty,
           groups |-> none, unresolved |-> empty, shown |-> none]
  BY DEF MergeIdle, none
<1> HIDE DEF empty
<1>4. m.at = "collect" /\ m.kept = empty /\ m.shown = none /\ m.offers = empty
  BY <1>3
<1>5. m \in MergeRecord
  <2>1. family \in BOOLEAN
    OBVIOUS
  <2>2. QED BY ONLY <1>1, <1>2, <1>3, <2>1 DEF MergeRecord
<1>6. QED BY <1>2, <1>4, <1>5 DEF none, empty

LEMMA MergeStep == MergeIInv /\ [MergeNext]_merge => MergeIInv'
<1> SUFFICES ASSUME MergeIInv, [MergeNext]_merge PROVE MergeIInv'
  OBVIOUS
<1>1. ASSUME NEW row \in RawRows, TakeRow(row) PROVE MergeIInv'
  <2> DEFINE o == Offer(row, IdentityOf(row, merge.family))
  <2>1. o \in AnOffer
    BY OfferTyped DEF MergeIInv, MergeRecord
  <2>2. merge' = [merge EXCEPT !.offers = Append(@, o)] /\ merge.at = "collect" /\ Len(merge.offers) < MaxOffers
    BY <1>1 DEF TakeRow
  <2> HIDE DEF o
  <2>3. Append(merge.offers, o) \in Seq(AnOffer) /\ Len(Append(merge.offers, o)) <= MaxOffers
    BY <2>1, <2>2, MergeAssumption DEF MergeIInv, MergeRecord
  <2>4. QED BY <2>2, <2>3 DEF MergeIInv, MergeRecord
<1>2. CASE PublishOffers
  <2> DEFINE kept == Deduped(merge.offers)
             groups == [c \in Perfumes |-> GroupOf(kept, c)]
             unresolved == Picked(kept, {i \in DOMAIN kept : kept[i].status = "unresolved"})
  <2>1. merge' = [merge EXCEPT !.at = "published", !.kept = kept, !.groups = groups, !.unresolved = unresolved]
        /\ merge.at = "collect"
    BY <1>2 DEF PublishOffers
  <2>2. kept \in Seq(AnOffer)
    BY DedupedFacts DEF MergeIInv, MergeRecord
  <2> HIDE DEF kept
  <2>3. groups \in [Perfumes -> Seq(AnOffer)]
    BY <2>2, GroupFacts
  <2>4. unresolved \in Seq(AnOffer)
    <3> DEFINE Q == {i \in DOMAIN kept : kept[i].status = "unresolved"}
    <3>1. Q \in SUBSET DOMAIN kept
      OBVIOUS
    <3> HIDE DEF Q
    <3>2. Picked(kept, Q) \in Seq(AnOffer)
      BY <2>2, <3>1, PickedFacts
    <3>3. QED BY <3>2 DEF Q
  <2> HIDE DEF groups, unresolved
  <2>5. merge' \in MergeRecord
        /\ merge'.at = "published" /\ merge'.offers = merge.offers /\ merge'.kept = kept /\ merge'.groups = groups
        /\ merge'.shown = merge.shown
    BY <2>1, <2>2, <2>3, <2>4 DEF MergeIInv, MergeRecord
  <2>6. merge'.kept = Deduped(merge'.offers)
    BY <2>5 DEF kept
  <2>7. merge'.groups = [c \in Perfumes |-> GroupOf(merge'.kept, c)]
    BY <2>5 DEF groups
  <2>8. QED BY <2>1, <2>5, <2>6, <2>7 DEF MergeIInv, MergeRecord
<1>3. CASE Poll
  <2> DEFINE safe == [c \in Perfumes |-> SafeOffers(merge.groups[c])]
  <2>1. merge' = [merge EXCEPT !.at = "shown", !.shown = safe] /\ merge.at = "published"
    BY <1>3 DEF Poll
  <2>2. ASSUME NEW c \in Perfumes PROVE SafeOffers(merge.groups[c]) \in Seq(AnOffer)
    <3>1. merge.groups[c] = GroupOf(merge.kept, c) /\ merge.kept \in Seq(AnOffer)
      BY <2>1 DEF MergeIInv, MergeRecord
    <3>2. QED BY <3>1, GroupFacts, SafeFacts
  <2>3. safe \in [Perfumes -> Seq(AnOffer)]
    BY <2>2
  <2>4. safe = [c \in Perfumes |-> IF "shown" = "shown" THEN SafeOffers(merge.groups[c]) ELSE <<>>]
    OBVIOUS
  <2> HIDE DEF safe
  <2>5. QED BY <2>1, <2>3, <2>4 DEF MergeIInv, MergeRecord
<1>4. CASE SearchAgain
  <2>1. PICK family \in BOOLEAN : merge' = [MergeIdle EXCEPT !.family = family]
    BY <1>4 DEF SearchAgain
  <2>2. QED BY <2>1, MergeStarts DEF MergeIInv
<1>5. CASE UNCHANGED merge
  BY <1>5 DEF MergeIInv, MergeRecord
<1>6. QED BY <1>1, <1>2, <1>3, <1>4, <1>5 DEF MergeNext

(* What the dedupe takes for the same is of one store, size and variant id, on one page or at one price. *)
LEMMA SameStays ==
  ASSUME NEW k \in AnOffer, NEW o \in AnOffer, Same(k, o)
  PROVE  /\ k.store = o.store
         /\ o.store = "easycosmetic" => k.price = o.price \/ ResultKey(k) = ResultKey(o)
         /\ o.store # "easycosmetic" =>
              /\ k.size = o.size
              /\ o.selector \in {"id1", "id2"} => k.selector = o.selector
              /\ k.page = o.page \/ (k.price = o.price /\ k.name = o.name)
<1>1. CASE ResultKey(k) = ResultKey(o)
  BY <1>1 DEF ResultKey
<1>2. CASE HasFingerprint(k) /\ HasFingerprint(o) /\ Fingerprint(k) = Fingerprint(o)
  <2>1. Fingerprint(k)[1] = k.store /\ Fingerprint(o)[1] = o.store
    BY DEF Fingerprint
  <2>2. k.store = o.store
    BY <2>1, <1>2
  <2>3. CASE o.store = "easycosmetic"
    BY <2>2, <2>3, <1>2 DEF Fingerprint
  <2>4. CASE o.store # "easycosmetic"
    BY <2>2, <2>4, <1>2 DEF Fingerprint
  <2>5. QED BY <2>2, <2>3, <2>4
<1>3. QED BY <1>1, <1>2 DEF Same

(* The inductive invariant has everything that is promised of the merge. *)
LEMMA MergeSafe == MergeIInv => MergeInv
<1> SUFFICES ASSUME MergeIInv PROVE MergeInv
  OBVIOUS
<1>1. merge.offers \in Seq(AnOffer) /\ merge.kept \in Seq(AnOffer)
  BY DEF MergeIInv, MergeRecord
<1>2. MergeType
  <2>1. \A i \in DOMAIN merge.offers : merge.offers[i].price # 0
    BY <1>1 DEF AnOffer
  <2>2. Len(merge.kept) <= Len(merge.offers)
    <3>1. CASE merge.at = "collect"
      BY <3>1, <1>1 DEF MergeIInv, MergeRecord
    <3>2. CASE merge.at # "collect"
      BY <3>2, <1>1, DedupedFacts DEF MergeIInv, MergeRecord
    <3>3. QED BY <3>1, <3>2
  <2>3. QED BY <2>1, <2>2 DEF MergeType, MergeIInv, MergeRecord
<1>3. DistinctOffersStay
  <2> SUFFICES ASSUME merge.at # "collect", NEW o \in ToSet(merge.offers)
               PROVE  \E k \in Kept :
                        /\ k.store = o.store
                        /\ o.store = "easycosmetic" => k.price = o.price \/ ResultKey(k) = ResultKey(o)
                        /\ o.store # "easycosmetic" =>
                             /\ k.size = o.size
                             /\ o.selector \in {"id1", "id2"} => k.selector = o.selector
                             /\ k.page = o.page \/ (k.price = o.price /\ k.name = o.name)
    BY DEF DistinctOffersStay
  <2>1. o \in Kept \/ \E k \in Kept : Same(k, o)
    BY <1>1, DedupedFacts DEF MergeIInv, MergeRecord, Kept
  <2>2. o \in AnOffer /\ \A k \in Kept : k \in AnOffer
    BY <1>1 DEF ToSet, Kept
  <2>3. QED BY <2>1, <2>2, SameStays
<1>4. ASSUME merge.at = "shown", NEW c \in Perfumes
      PROVE  /\ ToSet(merge.shown[c]) = {PublicOffer(o) : o \in {k \in Kept : k.perfume = c /\ k.sameLine /\ k.sameShown}}
             /\ \A i, j \in DOMAIN merge.shown[c] : i < j => merge.shown[c][i].price <= merge.shown[c][j].price
  <2> DEFINE group == GroupOf(merge.kept, c)
             of == {k \in Kept : k.perfume = c /\ k.sameLine}
  <2>1. merge.shown[c] = SafeOffers(group)
    BY <1>4 DEF MergeIInv, MergeRecord
  <2>2. /\ group \in Seq(AnOffer) /\ ToSet(group) = {PublicOffer(o) : o \in of}
        /\ \A i, j \in DOMAIN group : i < j => group[i].price <= group[j].price
    BY <1>1, GroupFacts DEF Kept
  <2> HIDE DEF group
  <2>3. ToSet(merge.shown[c]) = {o \in ToSet(group) : o.sameShown}
        /\ \A i, j \in DOMAIN merge.shown[c] : i < j => merge.shown[c][i].price <= merge.shown[c][j].price
    BY <2>1, <2>2, SafeFacts
  <2>4. \A o \in of : o \in AnOffer /\ PublicOffer(o).sameShown = o.sameShown
    BY <1>1, PublicTyped DEF Kept, ToSet
  <2>5. {o \in {PublicOffer(k) : k \in of} : o.sameShown} = {PublicOffer(k) : k \in {o \in of : o.sameShown}}
    <3> HIDE DEF of
    <3> QED BY <2>4
  <2>6. {o \in of : o.sameShown} = {k \in Kept : k.perfume = c /\ k.sameLine /\ k.sameShown}
    OBVIOUS
  <2> HIDE DEF of
  <2>7. QED BY <2>2, <2>3, <2>5, <2>6
<1>5. ShownIsKept
  <2>1. merge.at # "collect" => Deduped(merge.kept) = merge.kept
    BY <1>1, DedupedFacts DEF MergeIInv, MergeRecord
  <2>2. QED BY <2>1, <1>4 DEF ShownIsKept
<1>6. LinkOpensTheSize
  <2> SUFFICES ASSUME NEW o \in Shown, o.store = "sabina", SizeOf(o) \in SabinaSizes
               PROVE  o.link.locale = "es" /\ o.link.size \in {NoSize, SizeOf(o)}
    BY DEF LinkOpensTheSize
  <2>1. PICK c \in Perfumes : o \in ToSet(merge.shown[c])
    BY DEF Shown
  <2>2. merge.at = "shown"
    BY <2>1 DEF MergeIInv, MergeRecord, ToSet
  <2>3. PICK k \in Kept : o = PublicOffer(k)
    BY <2>1, <2>2, <1>4
  <2>4. k \in AnOffer
    BY <1>1 DEF Kept, ToSet
  <2>5. QED BY <2>3, <2>4, PublicTyped
<1>7. QED BY <1>2, <1>3, <1>5, <1>6 DEF MergeInv

(* For all rows and any number of them: whatever the dedupe of main.py drops has left an   *)
(* offer of its store, size and variant id, a second dedupe would drop nothing, and a poll *)
(* shows of a perfume the kept offers that pass the filter of the groups and its own, all  *)
(* of them, the cheapest first, with links of their size.                                  *)
THEOREM MergeInvariant == MergeSpec => []MergeInv
<1>1. MergeSpec => []MergeIInv
  <2>1. MergeInit => MergeIInv
    BY MergeStarts DEF MergeInit, MergeIInv
  <2>2. QED BY <2>1, MergeStep, PTL DEF MergeSpec
<1>2. QED BY <1>1, MergeSafe, PTL

--------------------------------------------------------------------------------
(* The matcher. *)

(* Finite sets: their images, their largest and least numbers. *)
LEMMA ImageFinite ==
  ASSUME NEW S, IsFiniteSet(S), NEW f
  PROVE  IsFiniteSet({f[x] : x \in S})
<1> DEFINE T == {f[x] : x \in S}
           g == [x \in S |-> f[x]]
<1>1. g \in [S -> T] /\ \A y \in T : \E x \in S : g[x] = y
  OBVIOUS
<1>2. g \in Surjection(S, T)
  BY <1>1 DEF Surjection
<1> HIDE DEF g, T
<1>3. IsFiniteSet(T)
  BY <1>2, FS_Surjection
<1>4. QED BY <1>3 DEF T

LEMMA LargestOf ==
  ASSUME NEW S \in SUBSET Nat, IsFiniteSet(S), S # {}
  PROVE  Max(S) \in S /\ \A y \in S : y <= Max(S)
<1> DEFINE n == Cardinality(S)
           m == Nth(S, n)
<1>1. n \in Nat /\ n # 0
  BY FS_CardinalityType, FS_EmptySet
<1>2. m \in S /\ Cardinality({j \in S : j <= m}) = n
  BY <1>1, NthExists
<1>3. {j \in S : j <= m} = S
  <2> HIDE DEF m
  <2>1. {j \in S : j <= m} \in SUBSET S
    OBVIOUS
  <2>2. QED BY <1>2, <2>1, FS_Subset
<1> HIDE DEF m
<1>4. \E x \in S : \A y \in S : x >= y
  BY <1>2, <1>3
<1>5. Max(S) \in S /\ \A y \in S : Max(S) >= y
  BY <1>4 DEF Max
<1>6. QED BY <1>5

LEMMA LeastOf ==
  ASSUME NEW S \in SUBSET Nat, S # {}
  PROVE  Min(S) \in S
<1>1. \E x \in S : \A y \in S : x =< y
  BY SmallestOf
<1>2. QED BY <1>1 DEF Min

(* Of a finite set one element is as high as all others. *)
LEMMA Highmost ==
  ASSUME NEW S, IsFiniteSet(S), S # {}, NEW f \in [S -> Nat]
  PROVE  \E x \in S : \A y \in S : f[y] <= f[x]
<1> DEFINE T == {f[x] : x \in S}
<1>1. T \in SUBSET Nat /\ T # {} /\ IsFiniteSet(T)
  BY ImageFinite
<1> HIDE DEF T
<1>2. Max(T) \in T /\ \A y \in T : y <= Max(T)
  BY <1>1, LargestOf
<1>3. QED BY <1>2 DEF T

(* The highest of some scores, which is 0 without any. *)
LEMMA HighestFacts ==
  ASSUME NEW S \in SUBSET Nat, IsFiniteSet(S)
  PROVE  Highest(S) \in Nat /\ (S \subseteq {0} => Highest(S) = 0)
<1> DEFINE T == S \cup {0}
<1>1. T \in SUBSET Nat /\ IsFiniteSet(T) /\ T # {}
  BY FS_AddElement
<1>2. S \subseteq {0} => T = {0}
  OBVIOUS
<1> HIDE DEF T
<1>3. Max(T) \in T
  BY <1>1, LargestOf
<1>4. QED BY <1>1, <1>2, <1>3 DEF Highest, T

(* The words of a text are finitely many, and what keys and identities leave of them. *)
LEMMA ToSetFinite ==
  ASSUME NEW A, NEW s \in Seq(A)
  PROVE  IsFiniteSet(ToSet(s)) /\ ToSet(s) \subseteq A
<1>1. Len(s) \in Nat /\ DOMAIN s = 1 .. Len(s) /\ \A i \in DOMAIN s : s[i] \in A
  OBVIOUS
<1>2. IsFiniteSet(DOMAIN s)
  BY <1>1, FS_Interval
<1>3. QED BY <1>1, <1>2, ImageFinite DEF ToSet

--------------------------------------------------------------------------------
LEMMA WithoutFacts ==
  ASSUME NEW text \in Text, NEW words
  PROVE  Without(text, words) \in Text /\ ToSet(Without(text, words)) = ToSet(text) \ words
<1> DEFINE P == {i \in DOMAIN text : text[i] \notin words}
<1>1. P \in SUBSET DOMAIN text /\ text \in Seq(STRING)
  BY DEF Text
<1>2. ToSet(text) \ words = {text[i] : i \in P}
  BY DEF ToSet
<1> HIDE DEF P
<1>3. Picked(text, P) \in Seq(STRING) /\ ToSet(Picked(text, P)) = {text[i] : i \in P}
  BY <1>1, PickedFacts
<1>4. QED BY <1>2, <1>3 DEF Without, P, Text

LEMMA TextFacts ==
  ASSUME NEW text \in Text
  PROVE  /\ Key(text) \in Text /\ ToSet(Key(text)) = ToSet(text) \ Concentrations
         /\ Identity(text) \in Text /\ ToSet(Identity(text)) = ToSet(text) \ Labels
         /\ IsFiniteSet(ToSet(text))
         /\ text # <<>> => ToSet(text) # {}
<1>1. Key(text) \in Text /\ ToSet(Key(text)) = ToSet(text) \ Concentrations
  BY WithoutFacts DEF Key
<1>2. Identity(text) \in Text /\ ToSet(Identity(text)) = ToSet(text) \ Labels
  BY WithoutFacts DEF Identity
<1>3. IsFiniteSet(ToSet(text))
  BY ToSetFinite DEF Text
<1>4. ASSUME text # <<>> PROVE ToSet(text) # {}
  <2>1. 1 \in DOMAIN text
    BY <1>4 DEF Text
  <2>2. QED BY <2>1 DEF ToSet
<1>5. QED BY <1>1, <1>2, <1>3, <1>4

(* A phrase of a text has a word in common with it; texts without one score nothing. *)
LEMMA PhraseShares ==
  ASSUME NEW words \in Text, NEW text \in Text, words # <<>>, Phrase(words, text)
  PROVE  ToSet(words) \cap ToSet(text) # {}
<1>1. PICK i \in 1 .. Len(text) : \A k \in DOMAIN words : text[i + k - 1] = words[k]
  BY DEF Phrase
<1>2. 1 \in DOMAIN words /\ i \in DOMAIN text
  BY DEF Text
<1>3. text[i] = words[1]
  <2>1. i + 1 - 1 = i
    OBVIOUS
  <2>2. QED BY <1>1, <1>2, <2>1
<1>4. QED BY <1>2, <1>3 DEF ToSet

LEMMA DivideFacts ==
  ASSUME NEW n \in Nat, NEW d \in Nat \ {0}
  PROVE  n \div d \in Nat /\ 0 \div d = 0
OBVIOUS

LEMMA F1Facts ==
  ASSUME NEW a, NEW b, IsFiniteSet(a), IsFiniteSet(b)
  PROVE  F1(a, b) \in Nat /\ (a \cap b = {} => F1(a, b) = 0)
<1>1. Cardinality(a) \in Nat /\ Cardinality(b) \in Nat /\ Cardinality(a \cap b) \in Nat
  BY FS_CardinalityType, FS_Intersection
<1>2. CASE a \cup b = {}
  BY <1>2 DEF F1
<1>3. CASE a \cup b # {}
  <2> DEFINE d == Cardinality(a) + Cardinality(b)
             n == 2000 * Cardinality(a \cap b)
  <2>1. Cardinality(a) # 0 \/ Cardinality(b) # 0
    BY <1>3, FS_EmptySet
  <2>2. d \in Nat \ {0} /\ n \in Nat
    BY <1>1, <2>1
  <2>3. a \cap b = {} => n = 0
    BY FS_EmptySet
  <2>4. F1(a, b) = n \div d
    BY <1>3 DEF F1
  <2> HIDE DEF d, n
  <2>5. QED BY <2>2, <2>3, <2>4, DivideFacts
<1>4. QED BY <1>2, <1>3

--------------------------------------------------------------------------------
(* Families and variants are numbered from 1. *)
LEMMA RegistryFacts ==
  ASSUME NEW f \in DOMAIN Registry
  PROVE  /\ f \in Nat /\ f # 0 /\ Registry[f] \in Family
         /\ Len(Registry[f].variants) \in Nat /\ DOMAIN Registry[f].variants = 1 .. Len(Registry[f].variants)
         /\ \A v \in DOMAIN Registry[f].variants : v \in Nat /\ v # 0 /\ Registry[f].variants[v] \in Variant
<1>1. Registry \in Seq(Family)
  BY FamilyAssumption
<1>2. f \in Nat /\ f # 0 /\ Registry[f] \in Family
  BY <1>1
<1> DEFINE variants == Registry[f].variants
<1>3. variants \in Seq(Variant)
  BY <1>2 DEF Family
<1> HIDE DEF variants
<1>4. /\ Len(variants) \in Nat /\ DOMAIN variants = 1 .. Len(variants)
      /\ \A v \in DOMAIN variants : v \in Nat /\ v # 0 /\ variants[v] \in Variant
  BY <1>3
<1>5. QED BY <1>2, <1>4 DEF variants

(* Numbers. *)
LEMMA Product2 ==
  ASSUME NEW a \in Nat, NEW b \in Nat
  PROVE  a * b \in Nat
OBVIOUS

LEMMA FirstOf ==
  ASSUME NEW n \in Nat, NEW S \in SUBSET (1 .. n), S # {}
  PROVE  Min(S) \in S
BY LeastOf

(* The best of a URL is a variant that is eligible. *)
LEMMA UrlBestFacts ==
  ASSUME NEW offer \in Offers, NEW family \in Family, NEW eligible \in SUBSET DOMAIN family.variants
  PROVE  UrlBest(offer, family, eligible).variant \in eligible \cup {0}
<1> DEFINE n == Len(family.variants)
           N == Len(offer.url) * n
           part(k) == offer.url[(k - 1) \div n + 1]
           at(k) == ((k - 1) % n) + 1
           start == [variant |-> 0, score |-> 0, specificity |-> 0]
           found(k) == [variant |-> at(k), score |-> UrlScore(part(k), family, at(k)), specificity |-> SpecificityOf(family, at(k))]
           taken(b, k) == at(k) \in eligible /\ UrlKey(part(k), family) # <<>>
                            /\ Better(b, UrlScore(part(k), family, at(k)), SpecificityOf(family, at(k)))
           A == {start} \cup {found(k) : k \in {j \in 1 .. N : at(j) \in eligible}}
           T == [k \in 1 .. N |-> [b \in A |-> IF taken(b, k) THEN found(k) ELSE b]]
           Recursion(f) == f = [k \in 0 .. N |-> IF k = 0 THEN start ELSE IF taken(f[k - 1], k) THEN found(k) ELSE f[k - 1]]
           best == CHOOSE f : Recursion(f)
<1>1. N \in Nat
  <2>1. Len(offer.url) \in Nat /\ n \in Nat
    BY FamilyAssumption DEF ShopOffer, Family
  <2> HIDE DEF n
  <2>2. QED BY <2>1, Product2
<1> HIDE DEF N, n
<1>2. start \in A /\ \A k \in 1 .. N : at(k) \in eligible => found(k) \in A
  OBVIOUS
<1>3. \A b \in A : b.variant \in eligible \cup {0}
  OBVIOUS
<1> HIDE DEF A, start, found
<1>4. \A k \in 1 .. N : \A b \in A : taken(b, k) => at(k) \in eligible
  OBVIOUS
<1> HIDE DEF taken
<1>5. T \in [1 .. N -> [A -> A]] /\ \A k \in 1 .. N : \A b \in A : T[k][b] = IF taken(b, k) THEN found(k) ELSE b
  BY <1>2, <1>4
<1> HIDE DEF T
<1>6. PICK f \in [0 .. N -> A] : f[0] = start /\ \A k \in 1 .. N : f[k] = T[k][f[k - 1]]
  <2>1. start \in A /\ T \in [1 .. N -> [A -> A]]
    BY <1>2, <1>5
  <2>2. \E f \in [0 .. N -> A] : Unrolls(f, N, start, T)
    BY <1>1, <2>1, RecursionExists
  <2>3. QED BY <2>2 DEF Unrolls
<1>7. Recursion(f)
  <2>1. \A k \in 1 .. N : k - 1 \in 0 .. N /\ f[k - 1] \in A
    BY <1>1, <1>6
  <2>2. \A k \in 1 .. N : f[k] = IF taken(f[k - 1], k) THEN found(k) ELSE f[k - 1]
    BY <2>1, <1>5, <1>6
  <2>3. \A k \in 0 .. N : f[k] = IF k = 0 THEN start ELSE IF taken(f[k - 1], k) THEN found(k) ELSE f[k - 1]
    BY <2>2, <1>6
  <2>4. QED BY <2>3, <1>6
<1>8. Recursion(best)
  <2> HIDE DEF Recursion
  <2> QED BY <1>7
<1> HIDE DEF best
<1>9. best[0] \in A
  BY <1>1, <1>2, <1>8
<1>10. ASSUME NEW k \in 1 .. N, best[k - 1] \in A PROVE best[k] \in A
  <2>1. best[k] = IF taken(best[k - 1], k) THEN found(k) ELSE best[k - 1]
    BY <1>1, <1>8
  <2>2. QED BY <2>1, <1>2, <1>4, <1>10
<1>11. best[N] \in A
  <2> DEFINE P == {k \in 0 .. N : best[k] \in A}
  <2>1. 0 \in P /\ \A k \in 1 .. N : k - 1 \in P => k \in P
    BY <1>1, <1>9, <1>10
  <2> HIDE DEF P
  <2>2. \A k \in 0 .. N : k \in P
    BY <2>1, <1>1, Climb
  <2>3. QED BY <2>2, <1>1 DEF P
<1>12. UrlBest(offer, family, eligible) = best[N]
  BY DEF UrlBest, best, N, n, taken, found, start
<1>13. QED BY <1>3, <1>11, <1>12

(* Whichever way a variant is read, it is an eligible one. *)
LEMMA ReadNameFacts ==
  ASSUME NEW family \in Family, NEW eligible \in SUBSET DOMAIN family.variants, NEW text
  PROVE  ReadName(family, eligible, text) \in eligible \cup {0}
<1> DEFINE bare == Without(text, Editorial)
           unlabelled == Without(bare, {"her", "him"})
           readings == << IF bare # text THEN Named(family, eligible, bare) ELSE {},
                          IF unlabelled # text THEN Named(family, eligible, unlabelled) ELSE {},
                          ByPhrase(family, eligible, text), ByWords(family, eligible, text) >>
           good == {k \in 1 .. 4 : readings[k] # {}}
<1>1. \A k \in 1 .. 4 : readings[k] \in SUBSET eligible
  BY DEF Named, ByPhrase, ByWords
<1>2. DOMAIN family.variants = 1 .. Len(family.variants) /\ Len(family.variants) \in Nat
  BY DEF Family
<1>3. ReadName(family, eligible, text) = IF good = {} THEN 0 ELSE Min(readings[Min(good)])
  BY DEF ReadName
<1> HIDE DEF readings
<1>4. CASE good # {}
  <2>1. Min(good) \in good
    BY <1>4, FirstOf
  <2>2. readings[Min(good)] \in SUBSET eligible /\ readings[Min(good)] # {}
    BY <2>1, <1>1
  <2>3. Min(readings[Min(good)]) \in readings[Min(good)]
    BY <2>2, <1>2, FirstOf
  <2>4. QED BY <2>2, <2>3, <1>3, <1>4
<1>5. QED BY <1>3, <1>4

(* The variant of an offer is eligible: not of the other audience. *)
LEMMA VariantEligible ==
  ASSUME NEW offer \in Offers, NEW family \in Family
  PROVE  VariantFor(offer, family) \in EligibleVariants(offer, family) \cup {0}
<1> DEFINE candidate == NameOf(offer, family)
           eligible == EligibleVariants(offer, family)
           exact == Named(family, eligible, candidate)
           named == IF exact # {} THEN Min(exact) ELSE ReadName(family, eligible, candidate)
           best == UrlBest(offer, family, eligible)
<1>1. eligible \in SUBSET DOMAIN family.variants
  BY DEF EligibleVariants
<1>2. DOMAIN family.variants = 1 .. Len(family.variants) /\ Len(family.variants) \in Nat
  BY DEF Family
<1> HIDE DEF eligible, candidate
<1>3. exact \in SUBSET eligible
  BY DEF Named
<1> HIDE DEF exact
<1>4. exact # {} => Min(exact) \in exact
  BY <1>1, <1>2, <1>3, FirstOf
<1>5. named \in eligible \cup {0}
  BY <1>1, <1>3, <1>4, ReadNameFacts
<1>6. best.variant \in eligible \cup {0}
  BY <1>1, UrlBestFacts
<1> HIDE DEF named, best
<1>7. Verdict(offer, family, eligible, exact, named, best) \in eligible \cup {0}
  BY <1>5, <1>6 DEF Verdict
<1>8. QED BY <1>7 DEF VariantFor, named, best, exact, eligible, candidate

(* What a family answers is of that family. *)
LEMMA FittingFacts ==
  ASSUME NEW offer, NEW query, NEW f, MatchFamily(offer, query, f) # Nothing
  PROVE  /\ MatchFamily(offer, query, f).family = f
         /\ MatchFamily(offer, query, f).variant = VariantFor(offer, Registry[f])
         /\ VariantFor(offer, Registry[f]) # 0
BY DEF MatchFamily, Fitting

(* The family that answers: a sibling if one knows the offer, else the one of the query. *)
LEMMA FamilyChosen ==
  ASSUME NEW offer \in Offers, NEW query, NEW f \in DOMAIN Registry
  PROVE  \E g \in DOMAIN Registry :
           /\ MatchInFamily(offer, query, f) = MatchFamily(offer, query, g)
           /\ IsBroad(query, Registry[f])
                /\ (\E i \in Siblings(offer, query, f) : MatchFamily(offer, query, i) # Nothing) => g # f
<1> DEFINE siblings == IF IsBroad(query, Registry[f]) THEN Siblings(offer, query, f) ELSE {}
           known == {i \in siblings : MatchFamily(offer, query, i) # Nothing}
           length(i) == Highest({Len(a) : a \in Registry[i].aliases})
           longest == {i \in known : \A j \in known : length(j) <= length(i)}
<1>1. MatchInFamily(offer, query, f) = MatchFamily(offer, query, IF known = {} THEN f ELSE Min(longest))
  BY DEF MatchInFamily
<1>2. known \in SUBSET DOMAIN Registry /\ f \notin known
  BY DEF Siblings
<1>3. Len(Registry) \in Nat /\ DOMAIN Registry = 1 .. Len(Registry)
  BY FamilyAssumption
<1>4. known # {} => Min(longest) \in known
  <2> SUFFICES ASSUME known # {} PROVE Min(longest) \in known
    OBVIOUS
  <2>1. IsFiniteSet(known)
    BY <1>2, <1>3, PositionsFinite
  <2>2. ASSUME NEW i \in known PROVE length(i) \in Nat
    <3> DEFINE lengths == {Len(a) : a \in Registry[i].aliases}
    <3>1. i \in DOMAIN Registry
      BY <1>2
    <3>2. Registry[i].aliases \in SUBSET Text /\ IsFiniteSet(Registry[i].aliases)
      BY <3>1, RegistryFacts, FamilyAssumption DEF Family
    <3>3. lengths \in SUBSET Nat
      BY <3>2 DEF Text
    <3>4. IsFiniteSet(lengths)
      <4> DEFINE g == [a \in Registry[i].aliases |-> Len(a)]
      <4>1. lengths = {g[a] : a \in Registry[i].aliases}
        OBVIOUS
      <4> HIDE DEF g, lengths
      <4>2. QED BY <4>1, <3>2, ImageFinite
    <3> HIDE DEF lengths
    <3>5. Highest(lengths) \in Nat
      BY <3>3, <3>4, HighestFacts
    <3>6. QED BY <3>5 DEF lengths
  <2> DEFINE h == [i \in known |-> length(i)]
  <2>3. h \in [known -> Nat] /\ \A i \in known : h[i] = length(i)
    BY <2>2
  <2> HIDE DEF h
  <2>4. \E x \in known : \A y \in known : h[y] <= h[x]
    <3> HIDE DEF known
    <3> QED BY <2>1, <2>3, Highmost
  <2>5. longest # {} /\ longest \in SUBSET known
    BY <2>3, <2>4
  <2>6. Min(longest) \in longest
    <3> HIDE DEF longest, known
    <3> QED BY <2>5, <1>2, <1>3, FirstOf
  <2>7. QED BY <2>5, <2>6
<1>5. IsBroad(query, Registry[f]) /\ (\E i \in Siblings(offer, query, f) : MatchFamily(offer, query, i) # Nothing)
        => known # {}
  OBVIOUS
<1> HIDE DEF known, longest
<1>6. CASE known = {}
  BY <1>1, <1>5, <1>6
<1>7. CASE known # {}
  BY <1>1, <1>2, <1>4, <1>7
<1>8. QED BY <1>6, <1>7

(* The family of a query is registered. *)
LEMMA AskedFamily ==
  ASSUME NEW query
  PROVE  FamilyFor(query) \in DOMAIN Registry \cup {0}
<1> DEFINE exact == {i \in DOMAIN Registry : Key(query) \in Registry[i].aliases}
           within == {i \in DOMAIN Registry : \E a \in Registry[i].aliases : Phrase(a, Key(query))}
<1>1. Len(Registry) \in Nat /\ DOMAIN Registry = 1 .. Len(Registry)
  BY FamilyAssumption
<1>2. exact \in SUBSET DOMAIN Registry /\ within \in SUBSET DOMAIN Registry
  OBVIOUS
<1> HIDE DEF exact, within
<1>3. (exact # {} => Min(exact) \in exact) /\ (within # {} => Min(within) \in within)
  BY <1>1, <1>2, FirstOf
<1>4. QED BY <1>2, <1>3 DEF FamilyFor, exact, within

--------------------------------------------------------------------------------
(* Products are numbered from 1, and their names are finitely many. *)
LEMMA CatalogFacts ==
  /\ Len(Catalog) \in Nat /\ Products = 1 .. Len(Catalog)
  /\ IsFiniteSet(Products) /\ Products \in SUBSET Nat /\ 0 \notin Products
  /\ \A p \in Products : Catalog[p] \in Product
<1>1. Catalog \in Seq(Product)
  BY MatcherAssumption
<1>2. Len(Catalog) \in Nat /\ Products = 1 .. Len(Catalog) /\ \A p \in Products : Catalog[p] \in Product
  BY <1>1 DEF Products
<1>3. QED BY <1>2, PositionsFinite

LEMMA NamesFacts ==
  ASSUME NEW p \in Products
  PROVE  Names(p) \in SUBSET Text /\ IsFiniteSet(Names(p)) /\ Catalog[p].name \in Names(p)
<1>1. Catalog[p].name \in Text /\ Catalog[p].aliases \in SUBSET Text
  BY CatalogFacts DEF Product
<1>2. IsFiniteSet(Catalog[p].aliases)
  BY MatcherAssumption DEF Products
<1>3. IsFiniteSet({Catalog[p].name})
  BY FS_Singleton
<1>4. IsFiniteSet(Names(p))
  BY <1>2, <1>3, FS_Union DEF Names
<1>5. QED BY <1>1, <1>4 DEF Names

(* Scores and specificities are numbers. *)
LEMMA SpecificityNat ==
  ASSUME NEW p \in Products
  PROVE  ProductSpecificity(p) \in Nat
<1> DEFINE text == Specificity(Catalog[p].name, Catalog[p].brand)
<1>1. Catalog[p].name \in Text
  BY CatalogFacts DEF Product
<1>2. Identity(Catalog[p].name) \in Text
  BY <1>1, TextFacts
<1>3. text \in Text
  BY <1>2, WithoutFacts DEF Specificity
<1> HIDE DEF text
<1>4. Cardinality(ToSet(text)) \in Nat
  BY <1>3, TextFacts, FS_CardinalityType
<1>5. QED BY <1>4 DEF ProductSpecificity, text

(* Without a common word the text of a product counts no more than its brand. *)
LEMMA TextScoreFacts ==
  ASSUME NEW offer \in Offers, NEW p \in Products
  PROVE  /\ TextScore(offer, p) \in Nat
         /\ TextWords(p) \cap ToSet(Key(offer.name)) = {} => TextScore(offer, p) <= 450
<1> DEFINE name == Key(offer.name)
           read == {n \in Names(p) : Key(n) # <<>>}
           score(t) == IF Quoted(Key(t), name) THEN 1000 ELSE F1(ToSet(Key(t)), ToSet(name))
           scores == {score(t) : t \in read}
           best == Highest(scores)
<1>1. name \in Text /\ IsFiniteSet(ToSet(name))
  BY TextFacts, FamilyAssumption DEF ShopOffer
<1>2. read \in SUBSET Text /\ IsFiniteSet(read)
  <2>1. read \in SUBSET Names(p)
    OBVIOUS
  <2> HIDE DEF read
  <2>2. QED BY <2>1, NamesFacts, FS_Subset
<1>3. ASSUME NEW t \in read
      PROVE  /\ score(t) \in Nat
             /\ TextWords(p) \cap ToSet(name) = {} => score(t) = 0
  <2>1. t \in Text /\ Key(t) \in Text /\ Key(t) # <<>> /\ t \in Names(p) /\ IsFiniteSet(ToSet(Key(t)))
    BY <1>2, TextFacts
  <2>2. F1(ToSet(Key(t)), ToSet(name)) \in Nat
        /\ (ToSet(Key(t)) \cap ToSet(name) = {} => F1(ToSet(Key(t)), ToSet(name)) = 0)
    BY <1>1, <2>1, F1Facts
  <2>3. ToSet(Key(t)) \subseteq TextWords(p)
    BY <2>1 DEF TextWords, AllWords
  <2>4. Quoted(Key(t), name) => ToSet(Key(t)) \cap ToSet(name) # {}
    <3>1. ToSet(Key(t)) # {}
      BY <2>1, TextFacts
    <3>2. QED BY <3>1, <1>1, <2>1, PhraseShares DEF Quoted
  <2> HIDE DEF name
  <2>5. QED BY <2>2, <2>3, <2>4
<1>4. IsFiniteSet(scores)
  <2> DEFINE g == [t \in read |-> score(t)]
  <2>1. scores = {g[t] : t \in read}
    OBVIOUS
  <2> HIDE DEF g, scores, read
  <2>2. QED BY <2>1, <1>2, ImageFinite
<1>5. scores \in SUBSET Nat /\ (TextWords(p) \cap ToSet(name) = {} => scores \subseteq {0})
  BY <1>3
<1>6. TextScore(offer, p) =
        IF offer.brand # "none" /\ offer.brand = Catalog[p].brand THEN 450 + (55 * best) \div 100 ELSE (95 * best) \div 100
  BY DEF TextScore
<1> HIDE DEF scores, name
<1>7. best \in Nat /\ (TextWords(p) \cap ToSet(name) = {} => best = 0)
  BY <1>4, <1>5, HighestFacts
<1> HIDE DEF best
<1>8. TextScore(offer, p) \in Nat /\ (best = 0 => TextScore(offer, p) <= 450)
  BY <1>6, <1>7
<1>9. QED BY <1>7, <1>8 DEF name

(* The words of the texts a URL is compared with are UrlWords, the ones of its index. *)
LEMMA UrlTextsFacts ==
  ASSUME NEW p \in Products
  PROVE  UrlTexts(p) \in SUBSET Text /\ IsFiniteSet(UrlTexts(p)) /\ \A t \in UrlTexts(p) : ToSet(t) \subseteq UrlWords(p)
<1> DEFINE words == Concentrations \ ToSet(Identity(Catalog[p].name))
           left == {Without(Identity(t), words) : t \in Names(p)}
<1>1. UrlTexts(p) = left \ {<<>>}
  BY DEF UrlTexts
<1> HIDE DEF words
<1>2. left \in SUBSET Text
  BY NamesFacts, TextFacts, WithoutFacts
<1>3. IsFiniteSet(left)
  <2> DEFINE g == [t \in Names(p) |-> Without(Identity(t), words)]
  <2>1. left = {g[t] : t \in Names(p)}
    OBVIOUS
  <2> HIDE DEF g, left
  <2>2. QED BY <2>1, NamesFacts, ImageFinite
<1> HIDE DEF left
<1>4. UrlTexts(p) \in SUBSET Text /\ IsFiniteSet(UrlTexts(p))
  BY <1>1, <1>2, <1>3, FS_Difference
<1>5. \A t \in UrlTexts(p) : ToSet(t) \subseteq UrlWords(p)
  BY DEF UrlWords, AllWords
<1>6. QED BY <1>4, <1>5

(* Without a common word the URL does not count at all. *)
LEMMA UrlScoreFacts ==
  ASSUME NEW offer \in Offers, NEW p \in Products
  PROVE  /\ UrlCandidateScore(offer, p) \in Nat
         /\ UrlWords(p) \cap (AllWords(ToSet(offer.url)) \ {offer.brand}) = {} => UrlCandidateScore(offer, p) = 0
<1> DEFINE brand == {offer.brand}
           words(part, t) == (ToSet(Identity(part)) \ (Concentrations \ ToSet(t))) \ brand
           score(part, t) == F1(ToSet(t) \ brand, words(part, t))
           fits(part, s) ==
             IF Hard(part) = {} \/ Catalog[p].conc = "none" \/ s = 0 THEN s
             ELSE IF Catalog[p].conc \in Hard(part) THEN s + 30 ELSE (35 * s) \div 100
           parts == ToSet(offer.url)
           scores == {fits(part, score(part, t)) : part \in parts, t \in UrlTexts(p)}
           apart == UrlWords(p) \cap (AllWords(parts) \ brand) = {}
<1>1. parts \in SUBSET Text /\ IsFiniteSet(parts)
  BY ToSetFinite, FamilyAssumption DEF ShopOffer
<1>2. ASSUME NEW part \in parts, NEW t \in UrlTexts(p)
      PROVE  score(part, t) \in Nat /\ (apart => score(part, t) = 0)
  <2>1. part \in Text /\ t \in Text /\ ToSet(t) \subseteq UrlWords(p)
    BY <1>1, <1>2, UrlTextsFacts
  <2>2. IsFiniteSet(ToSet(t)) /\ IsFiniteSet(ToSet(Identity(part))) /\ ToSet(Identity(part)) \subseteq ToSet(part)
    BY <2>1, TextFacts
  <2>3. IsFiniteSet(ToSet(t) \ brand) /\ IsFiniteSet(words(part, t))
    BY <2>2, FS_Difference
  <2>4. ToSet(part) \subseteq AllWords(parts)
    BY DEF AllWords
  <2>5. apart => (ToSet(t) \ brand) \cap words(part, t) = {}
    BY <2>1, <2>2, <2>4
  <2> HIDE DEF words, apart
  <2>6. QED BY <2>3, <2>5, F1Facts
<1>3. ASSUME NEW part, NEW s \in Nat
      PROVE  fits(part, s) \in Nat /\ (s = 0 => fits(part, s) = 0)
  <2>1. (35 * s) \div 100 \in Nat /\ s + 30 \in Nat
    OBVIOUS
  <2>2. QED BY <2>1
<1> HIDE DEF fits, score, apart
<1>4. scores \in SUBSET Nat /\ (apart => scores \subseteq {0})
  BY <1>2, <1>3
<1>5. IsFiniteSet(scores)
  <2> DEFINE both == parts \X UrlTexts(p)
             g == [x \in both |-> fits(x[1], score(x[1], x[2]))]
  <2>1. scores = {g[x] : x \in both}
    <3>1. \A part \in parts, t \in UrlTexts(p) :
            <<part, t>> \in both /\ g[<<part, t>>] = fits(part, score(part, t))
      OBVIOUS
    <3>2. \A x \in both : \E part \in parts, t \in UrlTexts(p) : x = <<part, t>>
      OBVIOUS
    <3> HIDE DEF g, both
    <3>3. \A x \in both : g[x] \in scores
      BY <3>1, <3>2
    <3>4. ASSUME NEW y \in scores PROVE \E x \in both : y = g[x]
      <4>1. PICK part \in parts, t \in UrlTexts(p) : y = fits(part, score(part, t))
        OBVIOUS
      <4> DEFINE x == <<part, t>>
      <4>2. x \in both /\ y = g[x]
        BY <3>1, <4>1
      <4>3. QED BY <4>2
    <3> HIDE DEF scores
    <3>5. QED BY <3>3, <3>4
  <2>2. IsFiniteSet(both)
    BY <1>1, UrlTextsFacts, FS_Product
  <2> HIDE DEF g, scores, both
  <2>3. QED BY <2>1, <2>2, ImageFinite
<1>6. UrlCandidateScore(offer, p) = Highest(scores)
  BY DEF UrlCandidateScore, scores, fits, score, words, brand, parts
<1> HIDE DEF scores
<1>7. Highest(scores) \in Nat /\ (apart => Highest(scores) = 0)
  BY <1>4, <1>5, HighestFacts
<1>8. QED BY <1>6, <1>7 DEF apart

--------------------------------------------------------------------------------
(* The best of the candidates after each of them. *)
Leading(score, p) == [product |-> p, score |-> score[p], specificity |-> ProductSpecificity(p)]
Leads(score, S) == {None} \cup {Leading(score, p) : p \in S}
Led(score, order, best) ==
  /\ best[0] = None
  /\ \A k \in 1 .. Len(order) :
       best[k] = IF Preferred(best[k - 1], order[k], score[order[k]]) THEN Leading(score, order[k]) ELSE best[k - 1]

(* The best of an order is the last of the bests that led on the way. *)
LEMMA BestOfFacts ==
  ASSUME NEW S, NEW score \in [S -> Nat], NEW order \in Seq(S)
  PROVE  \E best \in [0 .. Len(order) -> Leads(score, S)] :
           Led(score, order, best) /\ BestOf(score, order) = best[Len(order)]
<1> DEFINE N == Len(order)
           A == Leads(score, S)
           next(b, k) == IF Preferred(b, order[k], score[order[k]]) THEN Leading(score, order[k]) ELSE b
           T == [k \in 1 .. N |-> [b \in A |-> next(b, k)]]
           Recursion(f) == f = [k \in 0 .. N |-> IF k = 0 THEN None ELSE next(f[k - 1], k)]
           best == CHOOSE f : Recursion(f)
<1>1. N \in Nat /\ \A k \in 1 .. N : order[k] \in S
  OBVIOUS
<1> HIDE DEF N
<1>2. None \in A /\ \A k \in 1 .. N : \A b \in A : next(b, k) \in A
  BY <1>1 DEF Leads
<1> HIDE DEF A, next
<1>3. T \in [1 .. N -> [A -> A]] /\ \A k \in 1 .. N : \A b \in A : T[k][b] = next(b, k)
  BY <1>2
<1> HIDE DEF T
<1>4. PICK f \in [0 .. N -> A] : f[0] = None /\ \A k \in 1 .. N : f[k] = T[k][f[k - 1]]
  <2> DEFINE start == None
  <2> HIDE DEF start
  <2>0. N \in Nat
    BY <1>1
  <2>1. start \in A /\ T \in [1 .. N -> [A -> A]]
    BY <1>2, <1>3 DEF start
  <2>2. \E f \in [0 .. N -> A] : Unrolls(f, N, start, T)
    BY <2>0, <2>1, RecursionExists
  <2>3. QED BY <2>2 DEF start, Unrolls
<1>5. Recursion(f)
  <2>1. \A k \in 1 .. N : k - 1 \in 0 .. N /\ f[k - 1] \in A
    BY <1>1, <1>4
  <2>2. \A k \in 1 .. N : f[k] = next(f[k - 1], k)
    BY <2>1, <1>3, <1>4
  <2>3. \A k \in 0 .. N : f[k] = IF k = 0 THEN None ELSE next(f[k - 1], k)
    BY <2>2, <1>4
  <2>4. QED BY <2>3, <1>4
<1>6. Recursion(best)
  <2> HIDE DEF Recursion
  <2> QED BY <1>5
<1> HIDE DEF best
<1>7. best[0] = None /\ DOMAIN best = 0 .. N /\ \A k \in 1 .. N : best[k] = next(best[k - 1], k)
  BY <1>1, <1>6
<1>8. \A k \in 0 .. N : best[k] \in A
  <2> DEFINE P == {k \in 0 .. N : best[k] \in A}
  <2>1. 0 \in P
    BY <1>1, <1>2, <1>7
  <2>5. ASSUME NEW k \in 1 .. N, k - 1 \in P PROVE k \in P
    <3>1. best[k - 1] \in A /\ k \in 0 .. N
      BY <1>1, <2>5
    <3>2. best[k] \in A
      BY <3>1, <1>2, <1>7
    <3>3. QED BY <3>1, <3>2
  <2> HIDE DEF P
  <2>2. N \in Nat
    BY <1>1
  <2>3. \A k \in 0 .. N : k \in P
    BY <2>1, <2>5, <2>2, Climb
  <2>4. QED BY <2>3 DEF P
<1>9. best \in [0 .. N -> A]
  BY <1>6, <1>8
<1>10. Led(score, order, best)
  BY <1>7 DEF Led, next, N
<1>11. BestOf(score, order) = best[N]
  BY DEF BestOf, best, N, next, Leading
<1>12. QED BY <1>9, <1>10, <1>11 DEF A, N

(* The best of some candidates is one of them, or there is none. *)
LEMMA PickFacts ==
  ASSUME NEW S \in SUBSET Products, NEW score \in [S -> Nat], NEW b \in Pick(score)
  PROVE  /\ b \in Leads(score, S) /\ b.score \in Nat
         /\ b.product = 0 => b = None
         /\ b.product # 0 => b.product \in S
<1>1. Cardinality(S) \in Nat
  BY CatalogFacts, PositionsFinite
<1>2. PICK order \in SetToSeqs(S) : b = BestOf(score, order)
  BY DEF Pick
<1>3. order \in Seq(S)
  BY <1>1, <1>2 DEF SetToSeqs
<1>4. PICK best \in [0 .. Len(order) -> Leads(score, S)] : BestOf(score, order) = best[Len(order)]
  <2>1. order \in Seq(S) /\ score \in [S -> Nat]
    BY <1>3
  <2>2. \E best \in [0 .. Len(order) -> Leads(score, S)] :
          Led(score, order, best) /\ BestOf(score, order) = best[Len(order)]
    BY ONLY <2>1, BestOfFacts
  <2>3. QED BY <2>2
<1>5. b \in Leads(score, S)
  <2>1. Len(order) \in 0 .. Len(order)
    BY <1>3
  <2>2. QED BY <2>1, <1>2, <1>4
<1>6. S \subseteq Products /\ 0 \notin Products
  BY CatalogFacts
<1>7. QED BY <1>5, <1>6 DEF Leads, Leading, None

(* Candidates in any order; then the others. *)
Prolongs(longer, order, E, S) ==
  /\ longer \in Seq(E) /\ order \in Seq(S) /\ Len(order) <= Len(longer)
  /\ \A k \in 1 .. Len(order) : longer[k] = order[k]
  /\ \A k \in Len(order) + 1 .. Len(longer) : longer[k] \in E \ S

(* An order of some products begins one of more products. *)
LEMMA OrderExtends ==
  ASSUME NEW E, IsFiniteSet(E), NEW S \in SUBSET E, NEW order \in SetToSeqs(S)
  PROVE  \E longer \in SetToSeqs(E) : Prolongs(longer, order, E, S)
<1> DEFINE n == Cardinality(S)
           m == Cardinality(E \ S)
<1>1. IsFiniteSet(S) /\ IsFiniteSet(E \ S) /\ m = Cardinality(E) - Cardinality(E \cap S)
  BY FS_Subset, FS_Difference
<1>2. n \in Nat /\ m \in Nat /\ Cardinality(E) \in Nat
  BY <1>1, FS_CardinalityType
<1>3. E \cap S = S
  OBVIOUS
<1>4. Cardinality(E) = n + m
  BY <1>1, <1>2, <1>3
<1>5. PICK rest : rest \in Bijection(1 .. m, E \ S)
  BY <1>1, FS_CardinalityType DEF ExistsBijection
<1>6. rest \in [1 .. m -> E \ S] /\ \A i, j \in 1 .. m : rest[i] = rest[j] => i = j
  BY <1>5 DEF Bijection, Injection, IsInjective
<1>7. order \in [1 .. n -> S] /\ \A i, j \in 1 .. n : i # j => order[i] # order[j]
  BY DEF SetToSeqs
<1> HIDE DEF n, m
<1> DEFINE longer == [k \in 1 .. n + m |-> IF k <= n THEN order[k] ELSE rest[k - n]]
<1>8. \A k \in 1 .. n + m : IF k <= n THEN k \in 1 .. n /\ longer[k] = order[k] /\ longer[k] \in S
                            ELSE k - n \in 1 .. m /\ longer[k] = rest[k - n] /\ longer[k] \in E \ S
  BY <1>2, <1>6, <1>7
<1>9. longer \in [1 .. n + m -> E]
  BY <1>2, <1>8
<1> HIDE DEF longer
<1>10. \A i, j \in 1 .. n + m : i # j => longer[i] # longer[j]
  <2> SUFFICES ASSUME NEW i \in 1 .. n + m, NEW j \in 1 .. n + m, i # j PROVE longer[i] # longer[j]
    OBVIOUS
  <2>1. CASE i <= n /\ j <= n
    BY <2>1, <1>7, <1>8
  <2>2. CASE ~(i <= n) /\ ~(j <= n)
    <3>1. i - n \in 1 .. m /\ j - n \in 1 .. m /\ i - n # j - n
      BY <2>2, <1>2, <1>8
    <3>2. QED BY <3>1, <2>2, <1>6, <1>8
  <2>3. CASE (i <= n /\ ~(j <= n)) \/ (~(i <= n) /\ j <= n)
    BY <2>3, <1>8
  <2>4. QED BY <2>1, <2>2, <2>3
<1>11. longer \in SetToSeqs(E)
  BY <1>4, <1>9, <1>10 DEF SetToSeqs
<1>12. longer \in Seq(E) /\ order \in Seq(S) /\ Len(order) = n /\ Len(longer) = n + m
  BY <1>2, <1>7, <1>9
<1>13. /\ \A k \in 1 .. n : longer[k] = order[k]
       /\ \A k \in n + 1 .. n + m : longer[k] \in E \ S
  BY <1>2, <1>8
<1>14. Prolongs(longer, order, E, S)
  BY <1>2, <1>12, <1>13 DEF Prolongs
<1>15. QED BY <1>11, <1>14

(* Scores of more products, with the others far below what counts, and bests that do not differ in it. *)
Widens(score, some, E, S, low) ==
  /\ score \in [E -> Nat] /\ some \in [S -> Nat]
  /\ \A p \in S : some[p] = score[p]
  /\ \A p \in E \ S : score[p] + 30 <= low
AsGood(c, b, low) == c = b \/ (b.score < low /\ c.score < low)

(* Products that are far below what counts change nothing that counts. *)
LEMMA PickAmongMore ==
  ASSUME NEW E \in SUBSET Products, NEW S \in SUBSET E, NEW score, NEW some, NEW low \in Nat, 0 < low,
         Widens(score, some, E, S, low), NEW b \in Pick(some)
  PROVE  \E c \in Pick(score) : AsGood(c, b, low)
<1>0. /\ score \in [E -> Nat] /\ some \in [S -> Nat] /\ \A p \in S : some[p] = score[p]
      /\ \A p \in E \ S : score[p] + 30 <= low
  BY DEF Widens
<1>1. IsFiniteSet(E)
  BY CatalogFacts, FS_Subset
<1>20. DOMAIN some = S /\ DOMAIN score = E
  BY <1>0
<1>2. PICK order \in SetToSeqs(S) : b = BestOf(some, order)
  BY <1>20 DEF Pick
<1>3. PICK longer \in SetToSeqs(E) : Prolongs(longer, order, E, S)
  BY <1>1, OrderExtends
<1>30. /\ longer \in Seq(E) /\ order \in Seq(S) /\ Len(order) <= Len(longer)
       /\ \A k \in 1 .. Len(order) : longer[k] = order[k]
       /\ \A k \in Len(order) + 1 .. Len(longer) : longer[k] \in E \ S
  BY <1>3 DEF Prolongs
<1> DEFINE n == Len(order)
           N == Len(longer)
<1>4. PICK f \in [0 .. n -> Leads(some, S)] : Led(some, order, f) /\ b = f[n]
  <2>1. order \in Seq(S) /\ some \in [S -> Nat]
    BY <1>0, <1>30
  <2>2. \E best \in [0 .. Len(order) -> Leads(some, S)] :
          Led(some, order, best) /\ BestOf(some, order) = best[Len(order)]
    BY ONLY <2>1, BestOfFacts
  <2>3. QED BY <2>2, <1>2
<1>5. PICK g \in [0 .. N -> Leads(score, E)] : Led(score, longer, g) /\ BestOf(score, longer) = g[N]
  <2>1. longer \in Seq(E) /\ score \in [E -> Nat]
    BY <1>0, <1>30
  <2>2. \E best \in [0 .. Len(longer) -> Leads(score, E)] :
          Led(score, longer, best) /\ BestOf(score, longer) = best[Len(longer)]
    BY ONLY <2>1, BestOfFacts
  <2>3. QED BY <2>2
<1>6. n \in Nat /\ N \in Nat /\ n <= N
  BY <1>30
<1>7. \A k \in 1 .. n : order[k] \in S /\ longer[k] = order[k] /\ score[longer[k]] = some[order[k]]
  BY <1>0, <1>30
<1>8. \A k \in n + 1 .. N : longer[k] \in E \ S
  BY <1>30
<1>9. f[0] = None /\ \A k \in 1 .. n :
        f[k] = IF Preferred(f[k - 1], order[k], some[order[k]]) THEN Leading(some, order[k]) ELSE f[k - 1]
  BY <1>4 DEF Led
<1>10. g[0] = None /\ \A k \in 1 .. N :
        g[k] = IF Preferred(g[k - 1], longer[k], score[longer[k]]) THEN Leading(score, longer[k]) ELSE g[k - 1]
  BY <1>5 DEF Led
<1> HIDE DEF n, N
<1>11. g[n] = f[n]
  <2> DEFINE P == {k \in 0 .. n : g[k] = f[k]}
  <2>1. 0 \in P
    BY <1>6, <1>9, <1>10
  <2>2. ASSUME NEW k \in 1 .. n, k - 1 \in P PROVE k \in P
    <3>1. k \in 1 .. N /\ k \in 0 .. n /\ g[k - 1] = f[k - 1]
      BY <1>6, <2>2
    <3>2. Leading(score, longer[k]) = Leading(some, order[k])
      BY <1>7 DEF Leading
    <3>3. QED BY <3>1, <3>2, <1>7, <1>9, <1>10
  <2> HIDE DEF P
  <2>3. \A k \in 0 .. n : k \in P
    BY <2>1, <2>2, <1>6, Climb
  <2>4. QED BY <2>3, <1>6 DEF P
<1>12. \A k \in 0 .. N : g[k].score \in Nat
  <2>1. ASSUME NEW l \in Leads(score, E) PROVE l.score \in Nat
    BY <1>0 DEF Leads, Leading, None
  <2>2. QED BY <1>5, <2>1
<1>13. ASSUME NEW k \in n + 1 .. N, g[k - 1] = b \/ (b.score < low /\ g[k - 1].score < low)
       PROVE  g[k] = b \/ (b.score < low /\ g[k].score < low)
  <2> DEFINE s == score[longer[k]]
             h == g[k - 1]
  <2>1. k \in 1 .. N /\ k - 1 \in 0 .. N /\ longer[k] \in E \ S
    BY <1>6, <1>8
  <2>2. s \in Nat /\ s + 30 <= low /\ h.score \in Nat
    BY <1>0, <2>1, <1>12
  <2>3. g[k] = IF Preferred(h, longer[k], s) THEN Leading(score, longer[k]) ELSE h
    BY <2>1, <1>10
  <2>4. Leading(score, longer[k]).score = s
    BY DEF Leading
  <2>5. Preferred(h, longer[k], s) => s > h.score \/ h.score < s + 30
    BY DEF Preferred
  <2> HIDE DEF s, h
  <2>6. CASE h.score < low
    <3>1. b.score < low
      BY <1>13, <2>6 DEF h
    <3>2. g[k].score < low
      BY <2>2, <2>3, <2>4, <2>6
    <3>3. QED BY <3>1, <3>2
  <2>7. CASE ~(h.score < low)
    <3>1. ~Preferred(h, longer[k], s)
      BY <2>2, <2>5, <2>7
    <3>2. QED BY <3>1, <2>3, <1>13, <2>7 DEF h
  <2>8. QED BY <2>6, <2>7
<1>14. g[N] = b \/ (b.score < low /\ g[N].score < low)
  <2> DEFINE P == {k \in 0 .. N : k < n \/ g[k] = b \/ (b.score < low /\ g[k].score < low)}
  <2>1. 0 \in P
    <3>1. n = 0 \/ 0 < n
      BY <1>6
    <3>2. n = 0 => g[0] = b
      BY <1>4, <1>11 DEF n
    <3>3. QED BY <3>1, <3>2, <1>6
  <2>2. ASSUME NEW k \in 1 .. N, k - 1 \in P PROVE k \in P
    <3>1. CASE k < n
      BY <3>1
    <3>2. CASE k = n
      BY <3>2, <1>4, <1>11 DEF n
    <3>3. CASE k > n
      BY <3>3, <2>2, <1>6, <1>13
    <3>4. QED BY <3>1, <3>2, <3>3, <1>6
  <2> HIDE DEF P
  <2>3. \A k \in 0 .. N : k \in P
    BY <2>1, <2>2, <1>6, Climb
  <2>4. QED BY <2>3, <1>6 DEF P
<1>15. g[N] \in Pick(score)
  <2>1. DOMAIN score = E
    BY <1>20
  <2>2. QED BY <2>1, <1>5 DEF Pick
<1>16. QED BY <1>14, <1>15 DEF AsGood

--------------------------------------------------------------------------------
(* The first of the most specific products of some is one of them. *)
LEMMA MostSpecificFacts ==
  ASSUME NEW X \in SUBSET Products, X # {}
  PROVE  Min(MostSpecific(X)) \in X
<1>1. IsFiniteSet(X)
  BY CatalogFacts, FS_Subset
<1> DEFINE f == [p \in X |-> ProductSpecificity(p)]
<1>2. f \in [X -> Nat] /\ \A p \in X : f[p] = ProductSpecificity(p)
  BY SpecificityNat
<1> HIDE DEF f
<1>3. \E x \in X : \A y \in X : f[y] <= f[x]
  BY <1>1, <1>2, Highmost
<1>4. MostSpecific(X) # {} /\ MostSpecific(X) \in SUBSET X
  BY <1>2, <1>3 DEF MostSpecific
<1>5. MostSpecific(X) \in SUBSET (1 .. Len(Catalog)) /\ Len(Catalog) \in Nat
  BY <1>4, CatalogFacts
<1>6. Min(MostSpecific(X)) \in MostSpecific(X)
  BY <1>4, <1>5, FirstOf
<1>7. QED BY <1>4, <1>6

(* Products of the exact name have a word of it. *)
LEMMA ExactFacts ==
  ASSUME NEW offer \in Offers, NEW E \in SUBSET Products
  PROVE  /\ ExactNames(offer, E) \in SUBSET E
         /\ \A p \in ExactNames(offer, E) : TextWords(p) \cap ToSet(offer.name) # {}
<1>1. ASSUME NEW p \in ExactNames(offer, E)
      PROVE  TextWords(p) \cap ToSet(offer.name) # {}
  <2>1. offer.name \in Text /\ p \in Products
    BY FamilyAssumption DEF ShopOffer, ExactNames
  <2>2. PICK t \in Names(p) : Key(offer.name) = Key(t) /\ Key(t) # <<>>
    BY DEF ExactNames
  <2>3. Key(offer.name) \in Text /\ ToSet(Key(offer.name)) \subseteq ToSet(offer.name)
    BY <2>1, TextFacts
  <2>4. ToSet(Key(offer.name)) # {}
    BY <2>2, <2>3, TextFacts
  <2>5. ToSet(Key(t)) \subseteq TextWords(p)
    BY DEF TextWords, AllWords
  <2>6. QED BY <2>2, <2>3, <2>4, <2>5
<1>2. QED BY <1>1 DEF ExactNames

(* The best by name, and the best by URL, is a candidate. *)
LEMMA ByTextFacts ==
  ASSUME NEW offer \in Offers, NEW E \in SUBSET Products, NEW S \in SUBSET E,
         NEW text \in ByText(offer, ExactNames(offer, E), S)
  PROVE  /\ text.score \in Nat
         /\ text.product # 0 => text.product \in ExactNames(offer, E) \cup S
<1> DEFINE exact == ExactNames(offer, E)
           score == [q \in S |-> TextScore(offer, q)]
<1>1. exact \in SUBSET Products /\ S \in SUBSET Products
  BY ExactFacts
<1> HIDE DEF exact
<1>2. CASE exact # {}
  <2>1. Min(MostSpecific(exact)) \in exact
    BY <1>1, <1>2, MostSpecificFacts
  <2>2. text = [product |-> Min(MostSpecific(exact)), score |-> 1000,
                specificity |-> ProductSpecificity(Min(MostSpecific(exact)))]
    BY <1>2 DEF ByText, exact
  <2>3. text.score = 1000 /\ text.product \in exact
    BY <2>1, <2>2
  <2>4. QED BY <2>3 DEF exact
<1>3. CASE exact = {}
  <2>1. score \in [S -> Nat]
    BY <1>1, TextScoreFacts
  <2>2. text \in Pick(score)
    BY <1>3 DEF ByText, exact
  <2> HIDE DEF score
  <2>3. QED BY <1>1, <2>1, <2>2, PickFacts
<1>4. QED BY <1>2, <1>3

LEMMA UrlPicked ==
  ASSUME NEW offer \in Offers, NEW E \in SUBSET Products,
         NEW url \in Pick([p \in E |-> UrlCandidateScore(offer, p)])
  PROVE  url.score \in Nat /\ (url.product = 0 => url.score = 0) /\ (url.product # 0 => url.product \in E)
<1> DEFINE score == [p \in E |-> UrlCandidateScore(offer, p)]
<1>1. score \in [E -> Nat]
  BY UrlScoreFacts
<1>2. url \in Pick(score)
  OBVIOUS
<1> HIDE DEF score
<1>3. url.score \in Nat /\ (url.product = 0 => url = None) /\ (url.product # 0 => url.product \in E)
  BY <1>1, <1>2, PickFacts
<1>4. QED BY <1>3 DEF None

(* The ways a product of the catalogue is found by name or URL. *)
CatalogWays == {"exact_name", "token_score", "url_identity"}

(* An answer is of a candidate. *)
LEMMA DecideFacts ==
  ASSUME NEW offer \in Offers, NEW E \in SUBSET Products, NEW S \in SUBSET E, NEW U \in SUBSET E,
         NEW a \in Decide(offer, E, S, U)
  PROVE  \/ a = NoAnswer
         \/ a.way \in CatalogWays /\ a.product \in ExactNames(offer, E) \cup S \cup U
<1> DEFINE exact == ExactNames(offer, E)
           sure == {p \in exact : UrlCandidateScore(offer, p) >= 720}
           rivals(text) == Rivals(text, U)
<1>0. exact \in SUBSET (1 .. Len(Catalog)) /\ Len(Catalog) \in Nat /\ 0 \notin Products
  BY ExactFacts, CatalogFacts
<1>1. CASE Cardinality(exact) = 1 /\ sure # {}
  <2>1. a = Answer(Min(exact), "exact_name")
    BY <1>1 DEF Decide
  <2>2. Min(exact) \in exact
    <3>1. exact # {}
      BY <1>1
    <3> HIDE DEF exact
    <3>2. QED BY <3>1, <1>0, FirstOf
  <2>3. QED BY <2>1, <2>2 DEF Answer, CatalogWays
<1>2. CASE ~(Cardinality(exact) = 1 /\ sure # {})
  <2>1. PICK text \in ByText(offer, exact, S) :
          \E url \in Pick([p \in Rivals(text, U) |-> UrlCandidateScore(offer, p)]) : a = Settle(text, url)
    BY <1>2 DEF Decide
  <2>2. PICK url \in Pick([p \in Rivals(text, U) |-> UrlCandidateScore(offer, p)]) : a = Settle(text, url)
    BY <2>1
  <2>3. text.score \in Nat /\ (text.product # 0 => text.product \in exact \cup S)
    BY ByTextFacts
  <2>4. Rivals(text, U) \in SUBSET U /\ Rivals(text, U) \in SUBSET Products
    BY DEF Rivals
  <2>5. url.score \in Nat /\ (url.product = 0 => url.score = 0) /\ (url.product # 0 => url.product \in Rivals(text, U))
    BY <2>4, UrlPicked
  <2> HIDE DEF exact
  <2>6. CASE a = Answer(url.product, "url_identity") /\ url.score >= 720
    BY <2>4, <2>5, <2>6 DEF Answer, CatalogWays, exact
  <2>7. CASE a = TextAnswer(text) /\ text.product # 0
    BY <2>3, <2>7 DEF TextAnswer, Answer, CatalogWays, exact
  <2>8. CASE a = NoAnswer
    BY <2>8
  <2>9. QED BY <2>2, <2>6, <2>7, <2>8 DEF Settle
<1>3. QED BY <1>1, <1>2

(* Fewer candidates, as long as what is left out has no word of the row: the same answer. *)
LEMMA DecideAmongMore ==
  ASSUME NEW offer \in Offers, NEW E \in SUBSET Products, NEW S \in SUBSET E, NEW U \in SUBSET E,
         \A p \in E \ S : TextScore(offer, p) <= 450,
         \A p \in E \ U : UrlCandidateScore(offer, p) = 0,
         NEW a \in Decide(offer, E, S, U)
  PROVE  a \in Decide(offer, E, E, E)
<1> DEFINE exact == ExactNames(offer, E)
           sure == {p \in exact : UrlCandidateScore(offer, p) >= 720}
           urls(text, of) == Pick([p \in Rivals(text, of) |-> UrlCandidateScore(offer, p)])
<1>1. CASE Cardinality(exact) = 1 /\ sure # {}
  BY <1>1 DEF Decide
<1>2. CASE ~(Cardinality(exact) = 1 /\ sure # {})
  <2>1. /\ Decide(offer, E, S, U) = UNION {{Settle(text, url) : url \in urls(text, U)} : text \in ByText(offer, exact, S)}
        /\ Decide(offer, E, E, E) = UNION {{Settle(text, url) : url \in urls(text, E)} : text \in ByText(offer, exact, E)}
    BY <1>2 DEF Decide
  <2> HIDE DEF urls, sure
  <2>2. PICK text \in ByText(offer, exact, S) : \E url \in urls(text, U) : a = Settle(text, url)
    BY <2>1
  <2>3. PICK url \in urls(text, U) : a = Settle(text, url)
    BY <2>2
  <2>4. \E more \in ByText(offer, exact, E) : more = text \/ (text.score < 480 /\ more.score < 480)
    <3>1. CASE exact # {}
      <4>1. ByText(offer, exact, E) = ByText(offer, exact, S)
        BY <3>1 DEF ByText
      <4>2. QED BY <4>1
    <3>2. CASE exact = {}
      <4> DEFINE some == [q \in S |-> TextScore(offer, q)]
                 score == [q \in E |-> TextScore(offer, q)]
      <4>1. ByText(offer, exact, E) = Pick(score) /\ text \in Pick(some)
        BY <3>2 DEF ByText
      <4>2. some \in [S -> Nat] /\ score \in [E -> Nat]
        BY TextScoreFacts
      <4>3. \A p \in E \ S : score[p] + 30 <= 480
        <5>1. \A p \in E \ S : score[p] = TextScore(offer, p) /\ score[p] \in Nat /\ TextScore(offer, p) <= 450
          BY <4>2
        <5> HIDE DEF score
        <5>2. QED BY <5>1
      <4>4. \A p \in S : some[p] = score[p]
        OBVIOUS
      <4> DEFINE low == 480
      <4>5. low \in Nat /\ 0 < low /\ \A p \in E \ S : score[p] + 30 <= low
        BY <4>3
      <4> HIDE DEF some, score, low
      <4>6. Widens(score, some, E, S, low)
        BY <4>2, <4>4, <4>5 DEF Widens
      <4>7. E \in SUBSET Products /\ S \in SUBSET E /\ low \in Nat /\ 0 < low /\ text \in Pick(some)
        BY <4>1, <4>5
      <4>8. \E c \in Pick(score) : AsGood(c, text, low)
        BY ONLY <4>6, <4>7, PickAmongMore
      <4>9. QED BY <4>1, <4>8 DEF low, AsGood
    <3>3. QED BY <3>1, <3>2
  <2>5. PICK more \in ByText(offer, exact, E) : more = text \/ (text.score < 480 /\ more.score < 480)
    BY <2>4
  <2>6. text.score \in Nat /\ more.score \in Nat
    BY ByTextFacts
  <2>7. Rivals(text, U) \in SUBSET Rivals(more, E) /\ Rivals(more, E) \in SUBSET Products
        /\ \A p \in Rivals(more, E) \ Rivals(text, U) : p \in E \ U
    <3>1. CASE more = text
      BY <3>1 DEF Rivals
    <3>2. CASE text.score < 480 /\ more.score < 480
      <4>1. ~(text.score >= 940) /\ ~(more.score >= 940)
        BY <3>2, <2>6
      <4>2. Rivals(text, U) = U /\ Rivals(more, E) = E
        BY <4>1 DEF Rivals
      <4>3. QED BY <4>2
    <3>3. QED BY <3>1, <3>2, <2>5
  <2>8. \E other \in urls(more, E) : other = url \/ (url.score < 30 /\ other.score < 30)
    <3> DEFINE few == Rivals(text, U)
               many == Rivals(more, E)
               some == [p \in few |-> UrlCandidateScore(offer, p)]
               score == [p \in many |-> UrlCandidateScore(offer, p)]
    <3>1. urls(more, E) = Pick(score) /\ url \in Pick(some)
      BY DEF urls
    <3> HIDE DEF few, many
    <3>2. many \in SUBSET Products /\ few \in SUBSET many /\ \A p \in many \ few : p \in E \ U
      BY <2>7 DEF few, many
    <3>3. some \in [few -> Nat] /\ score \in [many -> Nat]
      BY <3>2, UrlScoreFacts
    <3> DEFINE low == 30
    <3>4. low \in Nat /\ 0 < low /\ \A p \in many \ few : score[p] + 30 <= low
      BY <3>2
    <3>5. \A p \in few : some[p] = score[p]
      BY <3>2
    <3> HIDE DEF some, score, low
    <3>6. Widens(score, some, many, few, low)
      BY <3>3, <3>4, <3>5 DEF Widens
    <3>7. \E c \in Pick(score) : AsGood(c, url, low)
      BY ONLY <3>1, <3>2, <3>4, <3>6, PickAmongMore
    <3>8. QED BY <3>1, <3>7 DEF low, AsGood
  <2>9. PICK other \in urls(more, E) : other = url \/ (url.score < 30 /\ other.score < 30)
    BY <2>8
  <2>10. url.score \in Nat /\ other.score \in Nat
    <3>1. Rivals(text, U) \in SUBSET Products
      BY <2>7
    <3>2. url.score \in Nat
      BY <3>1, UrlPicked DEF urls
    <3>3. other.score \in Nat
      BY <2>7, UrlPicked DEF urls
    <3>4. QED BY <3>2, <3>3
  <2>11. Settle(more, other) = Settle(text, url)
    <3>1. CASE url.score >= 720
      <4>1. other = url
        BY <3>1, <2>9, <2>10
      <4>2. CASE more = text
        BY <4>1, <4>2
      <4>3. CASE text.score < 480 /\ more.score < 480
        <5>1. url.score >= text.score + 120 /\ url.score >= more.score + 120
          BY <3>1, <4>3, <2>6, <2>10
        <5>2. QED BY <3>1, <4>1, <5>1 DEF Settle
      <4>4. QED BY <4>2, <4>3, <2>5
    <3>2. CASE ~(url.score >= 720)
      <4>1. ~(other.score >= 720)
        BY <3>2, <2>9, <2>10
      <4>2. CASE more = text
        BY <3>2, <4>1, <4>2 DEF Settle
      <4>3. CASE text.score < 480 /\ more.score < 480
        <5>1. text.score < 860 /\ more.score < 860
          BY <4>3, <2>6
        <5>2. QED BY <3>2, <4>1, <5>1 DEF Settle
      <4>4. QED BY <4>2, <4>3, <2>5
    <3>3. QED BY <3>1, <3>2
  <2>12. QED BY <2>1, <2>3, <2>5, <2>9, <2>11
<1>3. QED BY <1>1, <1>2

(* The candidates of an index: products with one of the words; all of them, if no word is frequent. *)
LEMMA PostingsFacts ==
  ASSUME NEW words, NEW wordsOf
  PROVE  /\ \A p \in Postings(words, wordsOf) : p \in Products /\ \E w \in words : w \in wordsOf[p]
         /\ (\A w \in words : Cardinality({p \in Products : w \in wordsOf[p]}) <= Selective)
              => \A p \in Products : (\E w \in words : w \in wordsOf[p]) => p \in Postings(words, wordsOf)
<1> DEFINE posting(w) == {p \in Products : w \in wordsOf[p]}
           lists == {posting(w) : w \in words} \ {{}}
           selective == {l \in lists : Cardinality(l) <= Selective}
<1>1. Postings(words, wordsOf) = UNION (IF selective # {} THEN selective ELSE lists)
  BY DEF Postings
<1>2. ASSUME NEW p \in Postings(words, wordsOf)
      PROVE  p \in Products /\ \E w \in words : w \in wordsOf[p]
  <2>1. PICK l \in lists : p \in l
    BY <1>1
  <2>2. PICK w \in words : l = posting(w)
    BY <2>1
  <2>3. QED BY <2>1, <2>2
<1>3. ASSUME \A w \in words : Cardinality({p \in Products : w \in wordsOf[p]}) <= Selective,
             NEW p \in Products, NEW w \in words, w \in wordsOf[p]
      PROVE  p \in Postings(words, wordsOf)
  <2>1. p \in posting(w) /\ posting(w) \in lists
    BY <1>3
  <2>2. Cardinality(posting(w)) <= Selective
    BY <1>3
  <2> HIDE DEF posting, lists
  <2>3. posting(w) \in selective
    BY <2>1, <2>2
  <2>4. QED BY <1>1, <2>1, <2>3
<1>4. QED BY <1>2, <1>3

(* The products that a row is compared with are of its brand or of none. *)
LEMMA EligibleFacts ==
  ASSUME NEW offer \in Offers, NEW query \in Queries
  PROVE  /\ Compatible(offer) \in SUBSET Products
         /\ \A e \in EligibleSets(offer, query) : e \in SUBSET Compatible(offer)
         /\ offer.brand # "none" => EligibleSets(offer, query) = {Compatible(offer)}
<1> DEFINE words == ToSet(Key(query))
           lists == {{p \in Products : w \in TextWords(p)} : w \in words} \ {{}}
           selective == {l \in lists : Cardinality(l) <= Selective}
           rarest == {l \in selective : \A m \in selective : Cardinality(l) <= Cardinality(m)}
<1>1. EligibleSets(offer, query) =
        IF offer.brand # "none" \/ Cardinality(words) < 2 \/ selective = {} THEN {Compatible(offer)} ELSE rarest
  BY DEF EligibleSets
<1>2. Compatible(offer) \in SUBSET Products /\ (offer.brand = "none" => Compatible(offer) = Products)
  BY DEF Compatible
<1>3. \A e \in rarest : e \in SUBSET Products
  OBVIOUS
<1> HIDE DEF words, lists, selective, rarest
<1>4. QED BY <1>1, <1>2, <1>3

(* What the indexes answer is a candidate with a word of the row, and, if no word is passed *)
(* over, what a comparison with all of the candidates answers.                             *)
LEMMA ByIndexFacts ==
  ASSUME NEW offer \in Offers, NEW E \in SUBSET Products, NEW a \in ByIndex(offer, E)
  PROVE  /\ \/ a = NoAnswer
            \/ /\ a.way \in CatalogWays /\ a.product \in E
               /\ (TextWords(a.product) \cup UrlWords(a.product))
                    \cap (ToSet(offer.name) \cup AllWords(ToSet(offer.url))) # {}
         /\ EveryPostingCounts(offer) => a \in ByScan(offer, E)
<1> DEFINE asked == ToSet(Key(offer.name))
           urlWords == AllWords(ToSet(offer.url)) \ {offer.brand}
           textOf == [p \in Products |-> TextWords(p)]
           urlOf == [p \in Products |-> UrlWords(p)]
           S == E \cap Postings(asked, textOf)
           U == E \cap Postings(urlWords, urlOf)
<1>1. a \in Decide(offer, E, S, U)
  BY DEF ByIndex
<1>2. asked \subseteq ToSet(offer.name)
  BY FamilyAssumption, TextFacts DEF ShopOffer
<1>3. /\ \A p \in Products : textOf[p] = TextWords(p) /\ urlOf[p] = UrlWords(p)
      /\ \A w : {p \in Products : w \in textOf[p]} = {p \in Products : w \in TextWords(p)}
      /\ \A w : {p \in Products : w \in urlOf[p]} = {p \in Products : w \in UrlWords(p)}
  OBVIOUS
<1> HIDE DEF textOf, urlOf, asked
<1>4. /\ \A p \in S : \E w \in asked : w \in textOf[p]
      /\ \A p \in U : \E w \in urlWords : w \in urlOf[p]
  BY PostingsFacts
<1>5. S \in SUBSET E /\ U \in SUBSET E
  OBVIOUS
<1>6. \/ a = NoAnswer
      \/ /\ a.way \in CatalogWays /\ a.product \in E
         /\ (TextWords(a.product) \cup UrlWords(a.product))
              \cap (ToSet(offer.name) \cup AllWords(ToSet(offer.url))) # {}
  <2> SUFFICES ASSUME a # NoAnswer
               PROVE  /\ a.way \in CatalogWays /\ a.product \in E
                      /\ (TextWords(a.product) \cup UrlWords(a.product))
                           \cap (ToSet(offer.name) \cup AllWords(ToSet(offer.url))) # {}
    OBVIOUS
  <2> HIDE DEF S, U
  <2>1. a.way \in CatalogWays /\ a.product \in ExactNames(offer, E) \cup S \cup U
    BY <1>1, <1>5, DecideFacts
  <2>2. ExactNames(offer, E) \in SUBSET E /\ \A p \in ExactNames(offer, E) : TextWords(p) \cap ToSet(offer.name) # {}
    BY ExactFacts
  <2>3. a.product \in E
    BY <2>1, <2>2, <1>5
  <2>4. CASE a.product \in ExactNames(offer, E)
    BY <2>1, <2>2, <2>3, <2>4
  <2>5. CASE a.product \in S
    <3>1. PICK w \in asked : w \in TextWords(a.product)
      BY <2>3, <2>5, <1>3, <1>4
    <3>2. QED BY <3>1, <2>1, <2>3, <1>2
  <2>6. CASE a.product \in U
    <3>1. PICK w \in urlWords : w \in UrlWords(a.product)
      BY <2>3, <2>6, <1>3, <1>4
    <3>2. QED BY <3>1, <2>1, <2>3
  <2>7. QED BY <2>1, <2>4, <2>5, <2>6
<1>7. ASSUME EveryPostingCounts(offer) PROVE a \in ByScan(offer, E)
  <2>1. \A w \in asked : Cardinality({p \in Products : w \in textOf[p]}) <= Selective
    BY <1>2, <1>3, <1>7 DEF EveryPostingCounts
  <2>2. \A w \in urlWords : Cardinality({p \in Products : w \in urlOf[p]}) <= Selective
    BY <1>3, <1>7 DEF EveryPostingCounts
  <2> HIDE DEF urlWords
  <2>3. \A p \in Products : (\E w \in asked : w \in textOf[p]) => p \in Postings(asked, textOf)
    BY <2>1, PostingsFacts
  <2>4. \A p \in Products : (\E w \in urlWords : w \in urlOf[p]) => p \in Postings(urlWords, urlOf)
    BY <2>2, PostingsFacts
  <2>5. \A p \in E \ S : TextScore(offer, p) <= 450
    <3> SUFFICES ASSUME NEW p \in E \ S PROVE TextScore(offer, p) <= 450
      OBVIOUS
    <3>1. TextWords(p) \cap asked = {}
      BY <2>3, <1>3
    <3>2. QED BY <3>1, TextScoreFacts DEF asked
  <2>6. \A p \in E \ U : UrlCandidateScore(offer, p) = 0
    <3> SUFFICES ASSUME NEW p \in E \ U PROVE UrlCandidateScore(offer, p) = 0
      OBVIOUS
    <3>1. UrlWords(p) \cap urlWords = {}
      BY <2>4, <1>3
    <3>2. QED BY <3>1, UrlScoreFacts DEF urlWords
  <2> HIDE DEF S, U
  <2>7. a \in Decide(offer, E, E, E)
    BY <1>1, <1>5, <2>5, <2>6, DecideAmongMore
  <2>8. QED BY <2>7 DEF ByScan
<1>8. QED BY <1>6, <1>7

(* A comparison with every product gives answers. *)
LEMMA ScanAnswer ==
  ASSUME NEW offer, NEW E, NEW a \in ByScan(offer, E)
  PROVE  a = Answer(a.product, a.way)
<1>1. \A p, w : Answer(p, w) = Answer(Answer(p, w).product, Answer(p, w).way)
  BY DEF Answer
<1>2. \E p, w : a = Answer(p, w)
  <2>1. \A text, url : \E p, w : Settle(text, url) = Answer(p, w)
    BY DEF Settle, NoAnswer, TextAnswer
  <2>2. CASE \E p : a = Answer(p, "exact_name")
    BY <2>2
  <2>3. CASE \E text, url : a = Settle(text, url)
    BY <2>1, <2>3
  <2>4. QED BY <2>2, <2>3 DEF ByScan, Decide
<1>3. QED BY <1>1, <1>2

(* An answer of the catalogue: the only product with the gtin of the row, or what the indexes find. *)
LEMMA BestMatchFacts ==
  ASSUME NEW offer \in Offers, NEW query \in Queries, NEW a \in BestMatches(offer, query), a.product # 0
  PROVE  \/ a.way = "gtin" /\ offer.gtin \in Catalog[a.product].gtins
         \/ \E e \in EligibleSets(offer, query) : a \in ByIndex(offer, e)
<1> DEFINE known == {p \in Products : offer.gtin \in Catalog[p].gtins}
<1>1. CASE Cardinality(known) = 1
  <2>1. a = Answer(Min(known), "gtin")
    BY <1>1 DEF BestMatches
  <2>2. known \in SUBSET (1 .. Len(Catalog)) /\ Len(Catalog) \in Nat
    BY CatalogFacts
  <2>3. known # {}
    BY <1>1, FS_EmptySet
  <2> HIDE DEF known
  <2>4. Min(known) \in known
    BY <2>2, <2>3, FirstOf
  <2>5. QED BY <2>1, <2>4 DEF Answer, known
<1>2. CASE Cardinality(known) # 1
  <2>1. CASE offer.name = <<>>
    BY <1>2, <2>1 DEF BestMatches, NoAnswer, Answer
  <2>2. CASE offer.name # <<>>
    BY <1>2, <2>2 DEF BestMatches
  <2>3. QED BY <2>1, <2>2
<1>3. QED BY <1>1, <1>2

FamilyAnswer(offer, query, variant) ==
  /\ FamilyFor(query) # 0
  /\ MatchInFamily(offer, query, FamilyFor(query)) # Nothing
  /\ variant = MatchInFamily(offer, query, FamilyFor(query))
CatalogAnswer(offer, query, way, variant) ==
  \E a \in BestMatches(offer, query) : a.product # 0 /\ way = a.way /\ variant.variant = a.product

(* What an answer stands on. *)
LEMMA AnswerFacts ==
  ASSUME NEW offer \in Offers, NEW query \in Queries, NEW a \in Answers(offer, query)
  PROVE  \/ a.way = "rejected"
         \/ a.way = "family" /\ FamilyAnswer(offer, query, a.variant)
         \/ a.way \in CatalogWays \cup {"gtin"} /\ CatalogAnswer(offer, query, a.way, a.variant)
<1> DEFINE f == FamilyFor(query)
<1>1. CASE a = Rejected
  BY <1>1 DEF Rejected, Matched
<1>2. CASE f # 0 /\ a \in OfFamily(MatchInFamily(offer, query, f)) /\ a # Rejected
  <2>1. MatchInFamily(offer, query, f) # Nothing
    BY <1>2 DEF OfFamily
  <2>2. a.way = "family" /\ a.variant = MatchInFamily(offer, query, f)
    BY <2>1, <1>2 DEF OfFamily, Matched
  <2>3. QED BY <1>2, <2>1, <2>2 DEF FamilyAnswer
<1>3. CASE a \in OfCatalog(BestMatches(offer, query)) /\ a # Rejected
  <2>1. PICK b \in BestMatches(offer, query) :
          b.product # 0 /\ a = Matched(b.way, Catalog[b.product].id, [family |-> 0, variant |-> b.product])
    BY <1>3 DEF OfCatalog
  <2>2. a.way = b.way /\ a.variant.variant = b.product
    BY <2>1 DEF Matched
  <2>3. b.way \in CatalogWays \cup {"gtin"}
    <3>1. CASE b.way = "gtin"
      BY <3>1
    <3>2. CASE \E e \in EligibleSets(offer, query) : b \in ByIndex(offer, e)
      <4>1. PICK e \in EligibleSets(offer, query) : b \in ByIndex(offer, e)
        BY <3>2
      <4>2. e \in SUBSET Products
        BY <4>1, EligibleFacts
      <4>3. b = NoAnswer \/ b.way \in CatalogWays
        BY <4>1, <4>2, ByIndexFacts
      <4>4. QED BY <4>3, <2>1 DEF NoAnswer, Answer
    <3>3. QED BY <2>1, <3>1, <3>2, BestMatchFacts
  <2>4. QED BY <2>1, <2>2, <2>3 DEF CatalogAnswer
<1>4. QED BY <1>1, <1>2, <1>3 DEF Answers

--------------------------------------------------------------------------------
(* The inductive invariant: a row that was matched has one of the answers for its query. *)
MatcherIInv ==
  \/ matching = Unasked
  \/ \E offer \in Offers, query \in Queries : \E a \in Answers(offer, query) :
       matching = [offer |-> offer, query |-> query, way |-> a.way, id |-> a.id, variant |-> a.variant]

(* A row is matched once, with an answer for its query. *)
LEMMA MatcherStep == MatcherIInv /\ [MatcherNext]_matching => MatcherIInv'
<1> SUFFICES ASSUME MatcherIInv, [MatcherNext]_matching PROVE MatcherIInv'
  OBVIOUS
<1>1. CASE NextRow
  BY <1>1 DEF NextRow, MatcherIInv, Unasked
<1>2. ASSUME NEW offer \in Offers, NEW query \in Queries, MatchOffer(offer, query)
      PROVE  MatcherIInv'
  <2>1. PICK a \in Answers(offer, query) :
          matching' = [offer |-> offer, query |-> query, way |-> a.way, id |-> a.id, variant |-> a.variant]
    BY <1>2 DEF MatchOffer
  <2>2. QED BY <2>1 DEF MatcherIInv
<1>3. CASE UNCHANGED matching
  BY <1>3 DEF MatcherIInv
<1>4. QED BY <1>1, <1>2, <1>3 DEF MatcherNext

(* A variant of the family way: of a family that was asked for or a sibling, and eligible in it. *)
LEMMA FamilyAnswerFacts ==
  ASSUME NEW offer \in Offers, NEW query \in Queries, NEW variant, FamilyAnswer(offer, query, variant)
  PROVE  /\ FamilyFor(query) \in DOMAIN Registry /\ variant.family \in DOMAIN Registry
         /\ variant.variant = VariantFor(offer, Registry[variant.family]) /\ variant.variant # 0
         /\ variant.variant \in EligibleVariants(offer, Registry[variant.family])
         /\ IsBroad(query, Registry[FamilyFor(query)])
              /\ (\E i \in Siblings(offer, query, FamilyFor(query)) : MatchFamily(offer, query, i) # Nothing)
              => variant.family # FamilyFor(query)
<1> DEFINE f == FamilyFor(query)
<1>1. f \in DOMAIN Registry
  BY AskedFamily DEF FamilyAnswer
<1>2. PICK g \in DOMAIN Registry :
           /\ MatchInFamily(offer, query, f) = MatchFamily(offer, query, g)
           /\ IsBroad(query, Registry[f])
                /\ (\E i \in Siblings(offer, query, f) : MatchFamily(offer, query, i) # Nothing) => g # f
  BY <1>1, FamilyChosen
<1>3. variant = MatchFamily(offer, query, g) /\ MatchFamily(offer, query, g) # Nothing
  BY <1>2 DEF FamilyAnswer
<1>4. /\ variant.family = g /\ variant.variant = VariantFor(offer, Registry[g])
      /\ VariantFor(offer, Registry[g]) # 0
  BY <1>3, FittingFacts
<1>5. VariantFor(offer, Registry[g]) \in EligibleVariants(offer, Registry[g]) \cup {0}
  BY VariantEligible, RegistryFacts
<1> HIDE DEF f
<1>6. QED BY <1>1, <1>2, <1>4, <1>5 DEF f

(* A name without a URL and without words of an audience that is one of a single variant: that variant. *)
LEMMA PlainName ==
  ASSUME NEW offer \in Offers, NEW family \in Family, offer.url = <<>>,
         ToSet(offer.name) \cap (HerWords \cup HisWords) = {}, VariantFor(offer, family) # 0,
         NEW v \in DOMAIN family.variants,
         Named(family, DOMAIN family.variants, NameOf(offer, family)) = {v}
  PROVE  VariantFor(offer, family) = v
<1> DEFINE candidate == NameOf(offer, family)
           eligible == EligibleVariants(offer, family)
           exact == Named(family, eligible, candidate)
           named == IF exact # {} THEN Min(exact) ELSE ReadName(family, eligible, candidate)
           best == UrlBest(offer, family, eligible)
<1>1. ToSet(candidate) \subseteq ToSet(offer.name)
  <2>1. offer.name \in Text
    BY FamilyAssumption DEF ShopOffer
  <2>2. Key(offer.name) \in Text /\ ToSet(Key(offer.name)) \subseteq ToSet(offer.name)
    BY <2>1, TextFacts
  <2>3. QED BY <2>2, WithoutFacts DEF NameOf
<1>2. Audience(candidate) = "none"
  <2>1. ToSet(candidate) \cap HerWords = {} /\ ToSet(candidate) \cap HisWords = {}
    BY <1>1
  <2> HIDE DEF candidate
  <2>2. QED BY <2>1 DEF Audience
<1>3. eligible = DOMAIN family.variants
  BY <1>2 DEF EligibleVariants
<1>4. exact = {v}
  BY <1>3
<1>5. named = v
  <2>1. v \in Nat /\ {v} # {} /\ {v} \in SUBSET Nat
    BY DEF Family
  <2>2. Min({v}) = v
    BY <2>1, LeastOf
  <2>3. QED BY <1>4, <2>2
<1>6. ~UrlConflicts(offer, family, eligible, named)
  BY DEF UrlConflicts, ToSet
<1>7. Cardinality(exact) = 1
  BY <1>4, FS_Singleton
<1>8. VariantFor(offer, family) = Verdict(offer, family, eligible, exact, named, best)
  BY DEF VariantFor
<1> HIDE DEF exact, named, best, eligible
<1>9. VariantFor(offer, family) \in {0, named}
  BY <1>6, <1>7, <1>8 DEF Verdict
<1>10. QED BY <1>5, <1>9

(* What a matched row says of the way it was answered. *)
LEMMA FamilyWay ==
  ASSUME MatcherIInv, ByFamily
  PROVE  /\ matching.offer \in Offers /\ matching.query \in Queries
         /\ FamilyAnswer(matching.offer, matching.query, matching.variant)
<1>0. PICK offer \in Offers, query \in Queries : \E a \in Answers(offer, query) :
        matching = [offer |-> offer, query |-> query, way |-> a.way, id |-> a.id, variant |-> a.variant]
  BY DEF MatcherIInv, ByFamily, Unasked
<1>1. PICK a \in Answers(offer, query) :
        matching = [offer |-> offer, query |-> query, way |-> a.way, id |-> a.id, variant |-> a.variant]
  BY <1>0
<1>2. matching.offer = offer /\ matching.query = query /\ matching.way = a.way /\ matching.variant = a.variant
  BY <1>1
<1>3. a.way = "family"
  BY <1>2 DEF ByFamily
<1>4. FamilyAnswer(offer, query, a.variant)
  BY <1>3, AnswerFacts DEF CatalogWays
<1>5. QED BY <1>2, <1>4

LEMMA CatalogWay ==
  ASSUME MatcherIInv, ByCatalog
  PROVE  /\ matching.offer \in Offers /\ matching.query \in Queries
         /\ CatalogAnswer(matching.offer, matching.query, matching.way, matching.variant)
<1>0. PICK offer \in Offers, query \in Queries : \E a \in Answers(offer, query) :
        matching = [offer |-> offer, query |-> query, way |-> a.way, id |-> a.id, variant |-> a.variant]
  BY DEF MatcherIInv, ByCatalog, Unasked
<1>1. PICK a \in Answers(offer, query) :
        matching = [offer |-> offer, query |-> query, way |-> a.way, id |-> a.id, variant |-> a.variant]
  BY <1>0
<1>2. matching.offer = offer /\ matching.query = query /\ matching.way = a.way /\ matching.variant = a.variant
  BY <1>1
<1>3. a.way \notin {"rejected", "family"}
  BY <1>2 DEF ByCatalog
<1>4. CatalogAnswer(offer, query, a.way, a.variant)
  BY <1>3, AnswerFacts
<1>5. QED BY <1>2, <1>4

(* The inductive invariant has everything that is promised of the matcher. *)
LEMMA MatcherSafe == MatcherIInv => MatcherInv
<1> SUFFICES ASSUME MatcherIInv PROVE MatcherInv
  OBVIOUS
<1>1. MatcherType
  <2>1. CASE matching = Unasked
    BY <2>1 DEF MatcherType, Unasked
  <2>2. ASSUME NEW offer \in Offers, NEW query \in Queries, NEW a \in Answers(offer, query),
               matching = [offer |-> offer, query |-> query, way |-> a.way, id |-> a.id, variant |-> a.variant]
        PROVE  MatcherType
    <3>1. a.way \in {"rejected", "family", "gtin"} \cup CatalogWays
      BY AnswerFacts
    <3>2. QED BY <3>1, <2>2 DEF MatcherType, CatalogWays
  <2>3. QED BY <2>1, <2>2 DEF MatcherIInv
<1>2. AudienceIsKept
  <2> SUFFICES ASSUME ByFamily
               PROVE  LET family == Registry[matching.variant.family]
                      IN Audience(NameOf(matching.offer, family)) = "none"
                           \/ AudienceOf(family.variants[matching.variant.variant])
                                \in {"none", Audience(NameOf(matching.offer, family))}
    BY DEF AudienceIsKept
  <2>1. matching.variant.variant \in EligibleVariants(matching.offer, Registry[matching.variant.family])
    BY FamilyWay, FamilyAnswerFacts
  <2>2. QED BY <2>1 DEF EligibleVariants
<1>3. SiblingsStayApart
  <2> SUFFICES ASSUME ByFamily, IsBroad(matching.query, Registry[Asked]), NEW i \in DOMAIN Registry \ {Asked},
                      NEW a \in Registry[i].aliases,
                      Len(a) > Len(Key(matching.query)), Phrase(Key(matching.query), a),
                      Phrase(a, Key(matching.offer.name)),
                      Registry[i].brand = Registry[Asked].brand,
                      MatchAlone(matching.offer, matching.query, i) # Nothing
               PROVE  matching.variant.family # Asked
    BY DEF SiblingsStayApart
  <2>1. i \in Siblings(matching.offer, matching.query, Asked)
    BY DEF Siblings
  <2>2. MatchFamily(matching.offer, matching.query, i) # Nothing
    BY DEF MatchAlone
  <2>3. QED BY <2>1, <2>2, FamilyWay, FamilyAnswerFacts DEF Asked
<1>4. PlainNamesResolve
  <2> SUFFICES ASSUME ByFamily, matching.variant.family = Asked, matching.offer.url = <<>>,
                      ToSet(matching.offer.name) \cap (Concentrations \cup HerWords \cup HisWords) = {},
                      NEW v \in DOMAIN Registry[Asked].variants,
                      Named(Registry[Asked], DOMAIN Registry[Asked].variants,
                            NameOf(matching.offer, Registry[Asked])) = {v}
               PROVE  matching.variant.variant = v
    BY DEF PlainNamesResolve
  <2>1. /\ matching.offer \in Offers /\ Asked \in DOMAIN Registry
        /\ matching.variant.variant = VariantFor(matching.offer, Registry[Asked]) /\ matching.variant.variant # 0
    BY FamilyWay, FamilyAnswerFacts DEF Asked
  <2>2. Registry[Asked] \in Family
    BY <2>1, RegistryFacts
  <2>3. ToSet(matching.offer.name) \cap (HerWords \cup HisWords) = {}
    OBVIOUS
  <2>4. VariantFor(matching.offer, Registry[Asked]) = v
    BY <2>1, <2>2, <2>3, PlainName
  <2>5. QED BY <2>1, <2>4
<1>5. IndexesLoseNothing
  <2> SUFFICES ASSUME ByCatalog, EveryPostingCounts(matching.offer), matching.way # "gtin",
                      matching.offer.brand # "none"
               PROVE  Answer(matching.variant.variant, matching.way) \in
                        ByScan(matching.offer, Compatible(matching.offer))
    BY DEF IndexesLoseNothing, AnsweredByScan
  <2>1. /\ matching.offer \in Offers /\ matching.query \in Queries
        /\ CatalogAnswer(matching.offer, matching.query, matching.way, matching.variant)
    BY CatalogWay
  <2>2. PICK b \in BestMatches(matching.offer, matching.query) :
          b.product # 0 /\ matching.way = b.way /\ matching.variant.variant = b.product
    BY <2>1 DEF CatalogAnswer
  <2>3. PICK e \in EligibleSets(matching.offer, matching.query) : b \in ByIndex(matching.offer, e)
    BY <2>1, <2>2, BestMatchFacts
  <2>4. e = Compatible(matching.offer) /\ e \in SUBSET Products
    BY <2>1, <2>3, EligibleFacts
  <2>5. b \in ByScan(matching.offer, Compatible(matching.offer))
    BY <2>1, <2>3, <2>4, ByIndexFacts
  <2>6. b = Answer(b.product, b.way)
    BY <2>4, <2>5, ScanAnswer, <2>1
  <2>7. QED BY <2>2, <2>5, <2>6
<1>6. AnswersAreGrounded
  <2> SUFFICES ASSUME ByCatalog
               PROVE  LET p == matching.variant.variant IN
                      \/ matching.offer.gtin \in Catalog[p].gtins
                      \/ /\ p \in Compatible(matching.offer)
                         /\ (TextWords(p) \cup UrlWords(p))
                              \cap (ToSet(matching.offer.name) \cup AllWords(ToSet(matching.offer.url))) # {}
    BY DEF AnswersAreGrounded
  <2>1. /\ matching.offer \in Offers /\ matching.query \in Queries
        /\ CatalogAnswer(matching.offer, matching.query, matching.way, matching.variant)
    BY CatalogWay
  <2>2. PICK b \in BestMatches(matching.offer, matching.query) :
          b.product # 0 /\ matching.way = b.way /\ matching.variant.variant = b.product
    BY <2>1 DEF CatalogAnswer
  <2>3. CASE matching.offer.gtin \in Catalog[b.product].gtins
    BY <2>2, <2>3
  <2>4. CASE \E e \in EligibleSets(matching.offer, matching.query) : b \in ByIndex(matching.offer, e)
    <3>1. PICK e \in EligibleSets(matching.offer, matching.query) : b \in ByIndex(matching.offer, e)
      BY <2>4
    <3>2. e \in SUBSET Compatible(matching.offer) /\ e \in SUBSET Products
      BY <2>1, <3>1, EligibleFacts
    <3>3. b # NoAnswer
      BY <2>2 DEF NoAnswer, Answer
    <3>4. b.product \in e /\ (TextWords(b.product) \cup UrlWords(b.product))
             \cap (ToSet(matching.offer.name) \cup AllWords(ToSet(matching.offer.url))) # {}
      BY <2>1, <3>1, <3>2, <3>3, ByIndexFacts
    <3>5. QED BY <2>2, <3>2, <3>4
  <2>5. QED BY <2>1, <2>2, <2>3, <2>4, BestMatchFacts
<1>7. QED BY <1>1, <1>2, <1>3, <1>4, <1>5, <1>6 DEF MatcherInv

(* For every registry, catalogue, offer and query: a variant is never one of the other    *)
(* audience, a sibling's offer is not the queried family's, a plain registered name is its *)
(* variant, an answer has a gtin or a word of its product, and the indexes lose nothing     *)
(* unless a word is so frequent that its products are passed over.                          *)
THEOREM MatcherInvariant == MatcherSpec => []MatcherInv
<1>1. MatcherSpec => []MatcherIInv
  <2>1. MatcherInit => MatcherIInv
    BY DEF MatcherInit, MatcherIInv
  <2>2. QED BY <2>1, MatcherStep, PTL DEF MatcherSpec
<1>2. QED BY <1>1, MatcherSafe, PTL
==============================================================================
