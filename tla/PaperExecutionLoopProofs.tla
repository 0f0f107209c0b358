---------------------- MODULE PaperExecutionLoopProofs ----------------------
(***************************************************************************)
(* Proofs about the PAPER execution loop, for every capacity, price set,   *)
(* fee, latency and slippage, and for every grid and tolerance of its      *)
(* rounding.                                                               *)
(*                                                                         *)
(* None of the properties is inductive as it stands.  Inv adds             *)
(*   Account: what memory and the disk hold is well formed, its fills are  *)
(*            in the ledger, and no working order has a fill in the ledger *)
(*            from a snapshot after its cursor;                            *)
(*   Ledger:  the key of every fill is among the saved processed keys;     *)
(*   Ahead:   memory has at least the processed keys of the disk, and does *)
(*            not work on an order the disk has as done.  (A throw can     *)
(*            leave memory ahead of the disk, so the two may differ.)      *)
(*   Held:    memory and the disk have every fill the ledger has of an     *)
(*            order they have, and these are what the order says was       *)
(*            filled and charged, within its quantity and its budget;      *)
(*   Replays: the cash of memory and of the disk is the replay of the      *)
(*            ledger, but for one unit for each of its fills.              *)
(*                                                                         *)
(* The calls differ in what they compute, not in how they change the       *)
(* account: each one is shown to be a Step, a save or an adoption of a     *)
(* state that Follows from memory, and the properties are shown of Step.   *)
(* Nothing is claimed of which states validateState accepts: it may refuse *)
(* what rounding made of a fill, and a refused save is a Step.             *)
(***************************************************************************)
EXTENDS PaperExecutionLoop, FiniteSetTheorems, WellFoundedInduction, TLAPS

-----------------------------------------------------------------------------
(* The lists of the account state.                                         *)

\* What Math.min of two amounts is.
LEMMA MinOfTwo ==
  ASSUME NEW a \in Int, NEW b \in Int
  PROVE  Min({a, b}) = IF a <= b THEN a ELSE b
BY DEF Min

\* What Math.max of two amounts is.
LEMMA MaxOfTwo ==
  ASSUME NEW a \in Int, NEW b \in Int
  PROVE  Max({a, b}) = IF a <= b THEN b ELSE a
BY DEF Max

\* The entries of a list.
LEMMA ToSetOf ==
  ASSUME NEW T, NEW s \in Seq(T)
  PROVE  /\ ToSet(s) \subseteq T /\ s \in Seq(ToSet(s))
         /\ \A x : x \in ToSet(s) <=> \E i \in 1..Len(s) : x = s[i]
<1>1. Len(s) \in Nat /\ DOMAIN s = 1..Len(s) /\ s \in [1..Len(s) -> T]
  OBVIOUS
<1>2. \A x : x \in ToSet(s) <=> \E i \in 1..Len(s) : x = s[i]
  BY <1>1 DEF ToSet
<1>3. ToSet(s) \subseteq T
  BY <1>1, <1>2
<1>4. s \in [1..Len(s) -> ToSet(s)]
  BY <1>1, <1>2
<1>5. s \in Seq(ToSet(s))
  BY <1>1, <1>4
<1> QED
  BY <1>2, <1>3, <1>5

\* The entries of a list are finitely many.
LEMMA ToSetFinite ==
  ASSUME NEW T, NEW s \in Seq(T)
  PROVE  IsFiniteSet(ToSet(s))
<1>1. Len(s) \in Nat /\ s \in [1..Len(s) -> T] /\ DOMAIN s = 1..Len(s)
  OBVIOUS
<1>2. s \in Surjection(1..Len(s), ToSet(s))
  BY <1>1 DEF Surjection, ToSet
<1>3. ExistsSurjection(1..Len(s), ToSet(s))
  BY <1>2 DEF ExistsSurjection
<1> QED
  BY <1>1, <1>3, FS_NatSurjection

\* [x, ...s] has the entries of s and x.
LEMMA Prepended ==
  ASSUME NEW T, NEW s \in Seq(T), NEW x \in T
  PROVE  /\ <<x>> \o s \in Seq(T) /\ Len(<<x>> \o s) = Len(s) + 1
         /\ ToSet(<<x>> \o s) = {x} \cup ToSet(s)
<1> DEFINE c == <<x>> \o s
<1>1. /\ c \in Seq(T) /\ Len(c) = Len(s) + 1 /\ c[1] = x
      /\ \A i \in 1..Len(s) : c[i + 1] = s[i]
      /\ \A i \in 2..Len(c) : c[i] = s[i - 1]
  OBVIOUS
<1> HIDE DEF c
<1>2. ASSUME NEW y \in ToSet(c) PROVE y \in {x} \cup ToSet(s)
  <2>1. PICK i \in 1..Len(c) : y = c[i]
    BY <1>1, ToSetOf
  <2>2. CASE i = 1
    BY <1>1, <2>1, <2>2
  <2>3. CASE i # 1
    <3>1. i \in 2..Len(c) /\ i - 1 \in 1..Len(s)
      BY <1>1, <2>3
    <3>2. y = s[i - 1]
      BY <1>1, <2>1, <3>1
    <3>3. \E j \in 1..Len(s) : y = s[j]
      BY <3>1, <3>2, Zenon
    <3> QED
      BY <3>3, ToSetOf
  <2> QED
    BY <2>2, <2>3
<1>3. ASSUME NEW y \in {x} \cup ToSet(s) PROVE y \in ToSet(c)
  <2>1. CASE y = x
    <3>1. 1 \in 1..Len(c)
      BY <1>1
    <3> QED
      BY <1>1, <2>1, <3>1, ToSetOf
  <2>2. CASE y \in ToSet(s)
    <3>1. PICK i \in 1..Len(s) : y = s[i]
      BY <2>2, ToSetOf
    <3>2. i + 1 \in 1..Len(c)
      BY <1>1
    <3> QED
      BY <1>1, <3>1, <3>2, ToSetOf
  <2> QED
    BY <2>1, <2>2
<1>4. ToSet(c) = {x} \cup ToSet(s)
  BY <1>2, <1>3
<1> QED
  BY <1>1, <1>4 DEF c

\* slice(0, 1_000) is within the capacity and adds nothing.
LEMMA Sliced ==
  ASSUME NEW T, NEW s \in Seq(T)
  PROVE  /\ Slice(s) \in Seq(T) /\ Len(Slice(s)) <= Capacity /\ Len(Slice(s)) <= Len(s)
         /\ ToSet(Slice(s)) \subseteq ToSet(s)
<1> USE AmountAssumption
<1> DEFINE m == Min({Len(s), Capacity})
           c == SubSeq(s, 1, m)
<1>1. m \in Nat /\ m <= Len(s) /\ m <= Capacity
  BY MinOfTwo
<1> HIDE DEF m
<1>2. c \in Seq(T) /\ Len(c) = m /\ \A i \in 1..m : c[i] = s[i] /\ i \in 1..Len(s)
  BY <1>1
<1> HIDE DEF c
<1>3. ASSUME NEW y \in ToSet(c) PROVE y \in ToSet(s)
  <2>1. PICK i \in 1..m : y = c[i]
    BY <1>2, ToSetOf
  <2> QED
    BY <1>2, <2>1, ToSetOf
<1>4. Slice(s) = c
  BY DEF Slice, c, m
<1> QED
  BY <1>1, <1>2, <1>3, <1>4

\* map with a replacement: the other entries stay, and none of them has its key.
LEMMA Replaced ==
  ASSUME NEW T, NEW s \in Seq(T), NEW w \in T
  PROVE  /\ Replacing(s, w) \in Seq(T) /\ Len(Replacing(s, w)) = Len(s)
         /\ \A v \in ToSet(Replacing(s, w)) : v = w \/ (v \in ToSet(s) /\ v.key # w.key)
<1> DEFINE c == Replacing(s, w)
<1>1. c = [i \in 1..Len(s) |-> IF s[i].key = w.key THEN w ELSE s[i]]
  BY DEF Replacing
<1>2. c \in Seq(T) /\ Len(c) = Len(s)
  BY <1>1
<1> HIDE DEF c
<1>3. ASSUME NEW v \in ToSet(c) PROVE v = w \/ (v \in ToSet(s) /\ v.key # w.key)
  <2>1. PICK i \in 1..Len(s) : v = c[i]
    BY <1>2, ToSetOf
  <2> QED
    BY <1>1, <2>1, ToSetOf
<1> QED
  BY <1>2, <1>3 DEF c

\* The rank of an entry among those that stay numbers them 1, 2, 3, ...
LEMMA Ranks ==
  ASSUME NEW K, IsFiniteSet(K), K \subseteq Int
  PROVE  /\ \A n \in 1..Cardinality(K) : \E i \in K : Cardinality({j \in K : j <= i}) = n
         /\ \A i \in K : Cardinality({j \in K : j <= i}) \in 1..Cardinality(K)
         /\ \A i, k \in K : Cardinality({j \in K : j <= i}) = Cardinality({j \in K : j <= k}) => i = k
<1> DEFINE rank == [i \in K |-> Cardinality({j \in K : j <= i})]
<1>1. ASSUME NEW i \in K
      PROVE  /\ IsFiniteSet({j \in K : j <= i})
             /\ Cardinality({j \in K : j <= i}) \in 1..Cardinality(K)
  <2> DEFINE S == {j \in K : j <= i}
  <2>1. S \in SUBSET K /\ i \in S
    OBVIOUS
  <2> HIDE DEF S
  <2>2. IsFiniteSet(S) /\ Cardinality(S) <= Cardinality(K)
    BY <2>1, FS_Subset
  <2>3. Cardinality(S) \in Nat /\ Cardinality(K) \in Nat
    BY <2>2, FS_CardinalityType
  <2>4. Cardinality(S) # 0
    BY <2>1, <2>2, FS_EmptySet
  <2>5. IsFiniteSet(S) /\ Cardinality(S) \in 1..Cardinality(K)
    BY <2>2, <2>3, <2>4
  <2> QED
    BY <2>5 DEF S
<1>2. ASSUME NEW i \in K, NEW k \in K, i < k
      PROVE  Cardinality({j \in K : j <= i}) # Cardinality({j \in K : j <= k})
  <2> DEFINE S == {j \in K : j <= i}
             R == {j \in K : j <= k}
  <2>0. i \in Int /\ k \in Int /\ \A j \in K : j \in Int
    OBVIOUS
  <2>a. ~(k <= i) /\ k <= k /\ \A j \in K : j <= i => j <= k
    BY <1>2, <2>0
  <2>1. S \in SUBSET R /\ k \in R /\ k \notin S
    BY <2>a, Zenon
  <2>2. IsFiniteSet(R)
    BY <1>1
  <2> HIDE DEF S, R
  <2>3. Cardinality(S) # Cardinality(R)
    BY <2>1, <2>2, FS_Subset
  <2> QED
    BY <2>3 DEF S, R
<1>3. rank \in [K -> 1..Cardinality(K)]
  BY <1>1
<1>4. \A i, k \in K : rank[i] = rank[k] => i = k
  BY <1>2
<1>5. Cardinality(K) \in Nat
  BY FS_CardinalityType
<1>6. IsFiniteSet(1..Cardinality(K)) /\ Cardinality(1..Cardinality(K)) = Cardinality(K)
  BY <1>5, FS_Interval
<1> DEFINE N == 1..Cardinality(K)
<1>7. rank \in Injection(K, N)
  BY <1>3, <1>4 DEF Injection, IsInjective
<1> HIDE DEF rank, N
<1>8. rank \in Surjection(K, N)
  BY <1>6, <1>7, FS_Injection DEF N
<1>9. \A n \in N : \E i \in K : rank[i] = n
  BY <1>8 DEF Surjection
<1>10. \A i \in K : rank[i] = Cardinality({j \in K : j <= i})
  BY DEF rank
<1>11. \A n \in N : \E i \in K : Cardinality({j \in K : j <= i}) = n
  BY <1>9, <1>10
<1>12. \A i, k \in K : Cardinality({j \in K : j <= i}) = Cardinality({j \in K : j <= k}) => i = k
  BY <1>4, <1>10
<1> QED
  BY <1>1, <1>11, <1>12 DEF N

\* filter keeps the entries with another key, each one once.
LEMMA FilteredList ==
  ASSUME NEW T, NEW s \in Seq(T), NEW k
  PROVE  /\ Without(s, k) \in Seq(T) /\ Len(Without(s, k)) <= Len(s)
         /\ \A v : v \in ToSet(Without(s, k)) <=> v \in ToSet(s) /\ v.key # k
<1> DEFINE K == {i \in 1..Len(s) : s[i].key # k}
           at(n) == CHOOSE i \in K : Cardinality({j \in K : j <= i}) = n
           c == Without(s, k)
<1>1. DOMAIN s = 1..Len(s) /\ Len(s) \in Nat
  OBVIOUS
<1>2. IsFiniteSet(1..Len(s)) /\ Cardinality(1..Len(s)) = Len(s) /\ K \in SUBSET (1..Len(s))
  BY <1>1, FS_Interval, SMTT(30)
<1>3. c = [n \in 1..Cardinality(K) |-> s[at(n)]]
  BY <1>1 DEF Without
<1> HIDE DEF c
<1>4. \A i \in K : i \in 1..Len(s) /\ s[i].key # k
  OBVIOUS
<1>5. IsFiniteSet(K) /\ Cardinality(K) \in Nat /\ Cardinality(K) <= Len(s)
  BY <1>2, FS_Subset, FS_CardinalityType
<1> HIDE DEF K
<1>a. K \subseteq Int
  BY <1>2
<1>b. /\ \A n \in 1..Cardinality(K) : \E i \in K : Cardinality({j \in K : j <= i}) = n
      /\ \A i \in K : Cardinality({j \in K : j <= i}) \in 1..Cardinality(K)
      /\ \A i, m \in K : Cardinality({j \in K : j <= i}) = Cardinality({j \in K : j <= m}) => i = m
  BY <1>5, <1>a, Ranks
<1>6. ASSUME NEW n \in 1..Cardinality(K) PROVE at(n) \in K
  <2>1. \E i \in K : Cardinality({j \in K : j <= i}) = n
    BY <1>b
  <2> QED
    BY <2>1, Zenon
<1>c. ASSUME NEW i \in K PROVE \E n \in 1..Cardinality(K) : at(n) = i
  <2> DEFINE n == Cardinality({j \in K : j <= i})
  <2>1. n \in 1..Cardinality(K)
    BY <1>b
  <2>2. Cardinality({j \in K : j <= at(n)}) = n /\ at(n) \in K
    BY Zenon
  <2>3. at(n) = i
    BY <1>b, <2>2, Zenon
  <2> QED
    BY <2>1, <2>3, Zenon
<1> HIDE DEF at
<1>7. \A n \in 1..Cardinality(K) : s[at(n)] \in T /\ s[at(n)] \in ToSet(s) /\ s[at(n)].key # k
  BY <1>4, <1>6, ToSetOf
<1>8. c \in Seq(T) /\ Len(c) = Cardinality(K)
  BY <1>3, <1>5, <1>7
<1>9. ASSUME NEW v \in ToSet(c) PROVE v \in ToSet(s) /\ v.key # k
  <2>1. PICK n \in 1..Cardinality(K) : v = c[n]
    BY <1>8, ToSetOf
  <2> QED
    BY <1>3, <1>7, <2>1
<1>10. ASSUME NEW v \in ToSet(s), v.key # k PROVE v \in ToSet(c)
  <2>1. PICK i \in 1..Len(s) : v = s[i]
    BY ToSetOf
  <2>2. i \in K
    BY <1>10, <2>1 DEF K
  <2>3. PICK n \in 1..Cardinality(K) : at(n) = i
    BY <1>c, <2>2
  <2>4. v = c[n]
    BY <1>3, <2>1, <2>3
  <2> QED
    BY <1>8, <2>4, ToSetOf
<1> QED
  BY <1>5, <1>8, <1>9, <1>10 DEF c

\* What filter keeps.
LEMMA Filtered ==
  ASSUME NEW T, NEW s \in Seq(T), NEW k
  PROVE  /\ Without(s, k) \in Seq(T) /\ Len(Without(s, k)) <= Len(s)
         /\ \A v \in ToSet(Without(s, k)) : v \in ToSet(s) /\ v.key # k
BY FilteredList

\* A list of keys without repeats does not have its first key again.
LEMMA FirstOnce ==
  ASSUME NEW s \in Seq(Keys), NEW k \in Keys,
         Cardinality(ToSet(<<k>> \o s)) = Len(<<k>> \o s)
  PROVE  k \notin ToSet(s)
<1> SUFFICES ASSUME k \in ToSet(s) PROVE FALSE
  OBVIOUS
<1>0. /\ ToSet(<<k>> \o s) = {k} \cup ToSet(s) /\ Len(<<k>> \o s) = Len(s) + 1
  BY Prepended
<1>a. Len(s) \in Nat
  OBVIOUS
<1>1. ToSet(<<k>> \o s) = ToSet(s) /\ Len(<<k>> \o s) = Len(s) + 1 /\ Len(s) \in Nat
  BY <1>0, <1>a, Zenon
<1>2. s \in Surjection(1..Len(s), ToSet(s))
  <2>1. s \in [1..Len(s) -> ToSet(s)] /\ \A x \in ToSet(s) : \E i \in 1..Len(s) : s[i] = x
    BY ToSetOf
  <2> QED
    BY <2>1 DEF Surjection
<1>3. ExistsSurjection(1..Len(s), ToSet(s))
  BY <1>2 DEF ExistsSurjection
<1>4. Cardinality(ToSet(s)) <= Len(s)
  BY <1>1, <1>3, FS_SurjCardinalityBound
<1> QED
  BY <1>1, <1>4

\* The newest entry is never cut.
LEMMA FirstKept ==
  ASSUME NEW T, NEW s \in Seq(T), NEW x \in T
  PROVE  x \in ToSet(Slice(<<x>> \o s))
<1> DEFINE c == <<x>> \o s
           m == Min({Len(c), Capacity})
<1>1. c \in Seq(T) /\ Len(c) = Len(s) + 1 /\ c[1] = x /\ Len(s) \in Nat
  OBVIOUS
<1> HIDE DEF c
<1>2. m \in Nat /\ 1 <= m /\ m <= Len(c)
  BY <1>1, AmountAssumption, MinOfTwo
<1> HIDE DEF m
<1>3. SubSeq(c, 1, m) \in Seq(T) /\ Len(SubSeq(c, 1, m)) = m /\ SubSeq(c, 1, m)[1] = x
  BY <1>1, <1>2
<1>4. Slice(c) = SubSeq(c, 1, m)
  BY DEF Slice, m
<1>5. 1 \in 1..Len(Slice(c)) /\ Slice(c) \in Seq(T) /\ Slice(c)[1] = x
  BY <1>2, <1>3, <1>4
<1>6. x \in ToSet(Slice(c))
  BY <1>5, ToSetOf
<1> QED
  BY <1>6 DEF c

\* A list of fills without repeated ids does not have its first fill again.
LEMMA FirstIdOnce ==
  ASSUME NEW T, NEW s \in Seq(T), NEW x \in T,
         Cardinality({f.id : f \in ToSet(<<x>> \o s)}) = Len(<<x>> \o s)
  PROVE  x \notin ToSet(s)
<1> SUFFICES ASSUME x \in ToSet(s) PROVE FALSE
  OBVIOUS
<1> DEFINE I == {f.id : f \in ToSet(s)}
           g == [i \in 1..Len(s) |-> s[i].id]
<1>1. ToSet(<<x>> \o s) = {x} \cup ToSet(s) /\ Len(<<x>> \o s) = Len(s) + 1
  BY Prepended
<1>a. Len(s) \in Nat
  OBVIOUS
<1>2. Len(s) \in Nat /\ ToSet(<<x>> \o s) = ToSet(s)
  BY <1>1, <1>a, Zenon
<1>3. Cardinality(I) = Len(s) + 1
  BY <1>1, <1>2
<1>4. g \in Surjection(1..Len(s), I)
  <2>1. \A y : y \in ToSet(s) <=> \E i \in 1..Len(s) : y = s[i]
    BY ToSetOf
  <2>2. g \in [1..Len(s) -> I] /\ \A y \in I : \E i \in 1..Len(s) : g[i] = y
    BY <2>1
  <2> QED
    BY <2>2 DEF Surjection
<1>5. ExistsSurjection(1..Len(s), I)
  BY <1>4 DEF ExistsSurjection
<1>6. Cardinality(I) <= Len(s)
  BY <1>2, <1>5, FS_SurjCardinalityBound
<1> QED
  BY <1>2, <1>3, <1>6

-----------------------------------------------------------------------------
(* Sums over fills.  A fold has no induction rule here: it is shown to be   *)
(* the number of units its elements have, the only function that adds up   *)
(* the weights one after the other.                                        *)

\* the units that the weights v give the elements of T
Units(T, v) == {u \in T \X Nat : 1 <= u[2] /\ u[2] <= v[u[1]]}
Block(x, v) == {x} \X (1..v[x])

\* An element has as many units as its weight.
LEMMA BlockSize ==
  ASSUME NEW x, NEW v, v[x] \in Nat
  PROVE  IsFiniteSet(Block(x, v)) /\ Cardinality(Block(x, v)) = v[x]
<1> DEFINE N == 1..v[x]
           B == Block(x, v)
           g == [n \in N |-> <<x, n>>]
<1>1. IsFiniteSet(N) /\ Cardinality(N) = v[x]
  BY FS_Interval, SMTT(30)
<1>2. g \in [N -> B] /\ (\A m, n \in N : g[m] = g[n] => m = n) /\ \A b \in B : \E n \in N : g[n] = b
  BY DEF Block
<1> HIDE DEF g, N, B
<1>3. g \in Bijection(N, B)
  BY <1>2 DEF Bijection, Injection, IsInjective, Surjection
<1>4. ExistsBijection(N, B)
  BY <1>3 DEF ExistsBijection
<1> QED
  BY <1>1, <1>4, FS_Bijection DEF B

\* A finite set has finitely many units.
LEMMA UnitsFinite ==
  ASSUME NEW T, IsFiniteSet(T), NEW v, \A x \in T : v[x] \in Nat
  PROVE  IsFiniteSet(Units(T, v))
<1> DEFINE g == [x \in T |-> Block(x, v)]
           B == {Block(x, v) : x \in T}
<1>1. g \in Surjection(T, B)
  <2>1. g \in [T -> B] /\ \A b \in B : \E x \in T : g[x] = b
    OBVIOUS
  <2> QED
    BY <2>1 DEF Surjection
<1>2. IsFiniteSet(B)
  BY <1>1, FS_Surjection
<1>3. \A b \in B : IsFiniteSet(b)
  BY BlockSize
<1>4. IsFiniteSet(UNION B)
  BY <1>2, <1>3, FS_UNION
<1>5. ASSUME NEW u \in Units(T, v) PROVE u \in UNION B
  <2>1. PICK x \in T, n \in Nat : u = <<x, n>> /\ 1 <= n /\ n <= v[x]
    BY DEF Units
  <2>2. u \in Block(x, v)
    BY <2>1 DEF Block
  <2> QED
    BY <2>2
<1> QED
  BY <1>4, <1>5, FS_Subset

\* Taking an element out takes its units out.
LEMMA UnitsWithout ==
  ASSUME NEW T, IsFiniteSet(T), NEW v, \A x \in T : v[x] \in Nat, NEW x \in T
  PROVE  Cardinality(Units(T, v)) = v[x] + Cardinality(Units(T \ {x}, v))
<1> DEFINE U == Units(T \ {x}, v)
           B == Block(x, v)
<1>1. IsFiniteSet(T \ {x})
  BY FS_RemoveElement
<1>2. IsFiniteSet(U)
  BY <1>1, UnitsFinite
<1>3. IsFiniteSet(B) /\ Cardinality(B) = v[x] /\ v[x] \in Nat
  BY BlockSize
<1>4. Units(T, v) = B \cup U
  <2>1. ASSUME NEW u \in Units(T, v) PROVE u \in B \cup U
    <3>1. PICK y \in T, n \in Nat : u = <<y, n>> /\ 1 <= n /\ n <= v[y]
      BY DEF Units
    <3>2. CASE y = x
      BY <3>1, <3>2, <1>3 DEF Block
    <3>3. CASE y # x
      BY <3>1, <3>3 DEF Units
    <3> QED
      BY <3>2, <3>3
  <2>2. U \subseteq Units(T, v)
    BY DEF Units
  <2>3. B \subseteq Units(T, v)
    BY <1>3 DEF Units, Block
  <2> QED
    BY <2>1, <2>2, <2>3
<1>5. B \cap U = {}
  BY DEF Block, Units
<1>6. Cardinality(B \cap U) = 0
  BY <1>5, FS_EmptySet
<1>7. Cardinality(U) \in Nat
  BY <1>2, FS_CardinalityType
<1> HIDE DEF U, B
<1>8. Cardinality(B \cup U) = Cardinality(B) + Cardinality(U) - Cardinality(B \cap U)
  BY <1>2, <1>3, FS_Union
<1>9. Cardinality(Units(T, v)) = v[x] + Cardinality(U)
  BY <1>3, <1>4, <1>6, <1>7, <1>8
<1> QED
  BY <1>9 DEF U

pick(s) == CHOOSE x \in s : TRUE

\* A function that adds up the weights one element after the other.
Adds(S, v, g) ==
    g = [s \in SUBSET S |-> IF s = {} THEN 0 ELSE v[pick(s)] + g[s \ {pick(s)}]]

\* The number of units is such a function.
LEMMA AddsUnits ==
  ASSUME NEW S, IsFiniteSet(S), NEW v, \A x \in S : v[x] \in Nat
  PROVE  Adds(S, v, [s \in SUBSET S |-> Cardinality(Units(s, v))])
<1> DEFINE g == [s \in SUBSET S |-> Cardinality(Units(s, v))]
<1> SUFFICES ASSUME NEW s \in SUBSET S
             PROVE  g[s] = IF s = {} THEN 0 ELSE v[pick(s)] + g[s \ {pick(s)}]
  BY DEF Adds
<1>1. CASE s = {}
  <2>1. Units(s, v) = {}
    BY <1>1 DEF Units
  <2> QED
    BY <1>1, <2>1, FS_EmptySet
<1>2. CASE s # {}
  <2>1. pick(s) \in s
    BY <1>2 DEF pick
  <2>2. IsFiniteSet(s) /\ \A x \in s : v[x] \in Nat
    BY FS_Subset
  <2>3. s \ {pick(s)} \in SUBSET S
    OBVIOUS
  <2> QED
    BY <1>2, <2>1, <2>2, <2>3, UnitsWithout
<1> QED
  BY <1>1, <1>2

\* There is only one: the least set on which two of them differ has an element to take out.
LEMMA AddsOnce ==
  ASSUME NEW S, IsFiniteSet(S), NEW v, NEW g, NEW h, Adds(S, v, g), Adds(S, v, h), NEW r \in SUBSET S
  PROVE  g[r] = h[r]
<1> DEFINE Bad == {s \in SUBSET S : g[s] # h[s]}
<1> SUFFICES ASSUME Bad # {} PROVE FALSE
  OBVIOUS
<1>1. IsWellFoundedOn(StrictSubsetOrdering(S), SUBSET S)
  BY FS_StrictSubsetOrderingWellFounded, FS_FiniteSubsetsOfFinite
<1>2. Bad \subseteq SUBSET S
  OBVIOUS
<1> HIDE DEF Bad
<1>3. PICK s \in Bad : \A t \in Bad : ~(<<t, s>> \in StrictSubsetOrdering(S))
  BY <1>1, <1>2, WFMin
<1>4. /\ g[s] = IF s = {} THEN 0 ELSE v[pick(s)] + g[s \ {pick(s)}]
      /\ h[s] = IF s = {} THEN 0 ELSE v[pick(s)] + h[s \ {pick(s)}]
  BY <1>2 DEF Adds
<1>5. s # {} /\ g[s] # h[s]
  BY <1>4 DEF Bad
<1> DEFINE t == s \ {pick(s)}
<1>6. pick(s) \in s
  BY <1>5 DEF pick
<1>7. <<t, s>> \in StrictSubsetOrdering(S)
  BY <1>2, <1>6 DEF StrictSubsetOrdering
<1>8. t \in SUBSET S
  BY <1>2
<1>9. g[t] = h[t]
  BY <1>3, <1>7, <1>8 DEF Bad
<1> QED
  BY <1>4, <1>5, <1>9

\* A sum counts the units of its summands.
LEMMA SumCounts ==
  ASSUME NEW S, IsFiniteSet(S), NEW v \in [S -> Nat]
  PROVE  /\ SumFunction(v) = Cardinality(Units(S, v))
         /\ IsFiniteSet(Units(S, v)) /\ SumFunction(v) \in Nat
<1> DEFINE E(g) == g = [s \in SUBSET S |-> IF s = {} THEN 0
                          ELSE LET x == CHOOSE x \in s : TRUE IN v[x] + g[s \ {x}]]
           iter == CHOOSE g : E(g)
           c == [s \in SUBSET S |-> Cardinality(Units(s, v))]
<1>0. DOMAIN v = S /\ \A x \in S : v[x] \in Nat
  OBVIOUS
<1>1. SumFunction(v) = iter[S]
  BY <1>0 DEF SumFunction, SumFunctionOnSet, FoldFunctionOnSet, MapThenFoldSet
<1>2. ASSUME NEW g PROVE E(g) <=> Adds(S, v, g)
  BY DEF Adds, pick
<1>3. Adds(S, v, c)
  BY <1>0, AddsUnits
<1> HIDE DEF c, E
<1>4. E(iter)
  BY <1>2, <1>3
<1>5. iter[S] = c[S]
  BY <1>2, <1>3, <1>4, AddsOnce
<1>6. SumFunction(v) = Cardinality(Units(S, v))
  BY <1>1, <1>5 DEF c
<1>7. IsFiniteSet(Units(S, v))
  BY <1>0, UnitsFinite
<1> QED
  BY <1>6, <1>7, FS_CardinalityType

\* Weights that agree on a set give it the same units.
LEMMA SameUnits ==
  ASSUME NEW T, NEW v, NEW u, \A x \in T : v[x] = u[x]
  PROVE  Units(T, v) = Units(T, u)
BY DEF Units

\* One more summand adds its amount, or nothing when it was there.
LEMMA SumAdded ==
  ASSUME NEW F, IsFiniteSet(F), NEW f, NEW v \in [F -> Nat], NEW u \in [F \cup {f} -> Nat],
         \A x \in F : v[x] = u[x]
  PROVE  /\ SumFunction(v) \in Nat /\ SumFunction(u) \in Nat
         /\ f \notin F => SumFunction(u) = SumFunction(v) + u[f]
         /\ f \in F => SumFunction(u) = SumFunction(v)
<1> DEFINE G == F \cup {f}
<1>1. IsFiniteSet(G) /\ f \in G
  BY FS_AddElement
<1>2. /\ SumFunction(v) = Cardinality(Units(F, v)) /\ SumFunction(v) \in Nat
      /\ SumFunction(u) = Cardinality(Units(G, u)) /\ SumFunction(u) \in Nat
  BY <1>1, SumCounts
<1>3. Units(F, v) = Units(F, u)
  BY SameUnits
<1>4. ASSUME f \in F PROVE SumFunction(u) = SumFunction(v)
  <2>1. G = F
    BY <1>4
  <2> QED
    BY <1>2, <1>3, <2>1
<1>5. ASSUME f \notin F PROVE SumFunction(u) = SumFunction(v) + u[f]
  <2>1. G \ {f} = F
    BY <1>5
  <2>2. \A x \in G : u[x] \in Nat
    OBVIOUS
  <2>3. Cardinality(Units(G, u)) = u[f] + Cardinality(Units(G \ {f}, u)) /\ u[f] \in Nat
    BY <1>1, <2>2, UnitsWithout
  <2> HIDE DEF G
  <2> QED
    BY <1>2, <1>3, <2>1, <2>3
<1> QED
  BY <1>2, <1>4, <1>5

-----------------------------------------------------------------------------
(* Rounding.                                                               *)

\* A rounded amount is an amount.
LEMMA RoundType ==
  ASSUME NEW n \in Nat, NEW d \in Nat \ {0}
  PROVE  Round(n, d) \in Nat
<1> DEFINE a == 2 * n + d
           b == 2 * d
<1>2. a \in Nat /\ b \in Nat /\ b > 0
  OBVIOUS
<1> HIDE DEF a, b
<1>3. a \div b \in Nat
  BY <1>2
<1> QED
  BY <1>3 DEF a, b, Round

\* Rounding goes to one of the two neighbours: down to the quotient, or up by one.
LEMMA RoundNear ==
  ASSUME NEW n \in Nat, NEW d \in Nat \ {0}
  PROVE  /\ n \div d \in Nat /\ n \div d <= Round(n, d) /\ Round(n, d) <= n \div d + 1
         /\ n % d = 0 => Round(n, d) = n \div d
<1> DEFINE m == n \div d
           r == n % d
           k == Round(n, d)
           h == (2 * n + d) % (2 * d)
<1>1. m \in Nat /\ r \in Nat /\ r < d /\ n = d * m + r
  OBVIOUS
<1>2. k \in Nat /\ h \in Nat /\ h < 2 * d /\ 2 * n + d = (2 * d) * k + h
  <2> DEFINE a == 2 * n + d
             b == 2 * d
  <2>1. a \in Nat /\ b \in Nat /\ b > 0
    OBVIOUS
  <2>2. k = a \div b /\ h = a % b
    BY DEF Round
  <2> HIDE DEF a, b, k, h
  <2>3. k \in Nat /\ h \in Nat /\ h < b /\ a = b * k + h
    BY <2>1, <2>2
  <2> QED
    BY <2>3 DEF a, b
<1> HIDE DEF m, r, k, h
\* 2 d k + h = 2 d m + 2 r + d
<1> DEFINE e == k - m
<1>3. e \in Int /\ k = m + e
  BY <1>1, <1>2
<1> HIDE DEF e
<1>4. (2 * d) * k = 2 * (d * m) + 2 * (d * e) /\ d * e \in Int /\ d * m \in Int
  BY <1>1, <1>3
<1>5. 2 * (d * e) + h = 2 * r + d
  BY <1>1, <1>2, <1>4
<1>6. ASSUME e <= -1 PROVE FALSE
  <2>1. d * e <= d * (-1)
    BY <1>3, <1>6
  <2>2. d * e <= -d
    BY <2>1
  <2> QED
    BY <1>1, <1>2, <1>4, <1>5, <2>2
<1>7. ASSUME e >= 2 PROVE FALSE
  <2>1. d * e >= d * 2
    BY <1>3, <1>7
  <2>2. d * e >= 2 * d
    BY <2>1
  <2> QED
    BY <1>1, <1>2, <1>4, <1>5, <2>2
<1>8. e = 0 \/ e = 1
  BY <1>3, <1>6, <1>7
<1>9. ASSUME r = 0 PROVE e = 0
  <2>1. ASSUME e = 1 PROVE FALSE
    <3>1. d * e = d
      BY <2>1
    <3> QED
      BY <1>1, <1>2, <1>5, <1>9, <3>1
  <2> QED
    BY <1>8, <2>1
<1>10. m \in Nat /\ m <= k /\ k <= m + 1 /\ (r = 0 => k = m)
  BY <1>1, <1>2, <1>3, <1>8, <1>9
<1> QED
  BY <1>10 DEF m, r, k

\* What is not above b before it is rounded is not above b after.
LEMMA RoundWithin ==
  ASSUME NEW n \in Nat, NEW d \in Nat \ {0}, NEW b \in Nat, n <= b * d
  PROVE  Round(n, d) <= b
<1> DEFINE m == n \div d
           r == n % d
<1>1. m \in Nat /\ r \in Nat /\ r < d /\ n = d * m + r
  OBVIOUS
<1>2. m <= Round(n, d) /\ Round(n, d) <= m + 1 /\ (r = 0 => Round(n, d) = m) /\ Round(n, d) \in Nat
  BY RoundNear, RoundType
<1> HIDE DEF m, r
<1>3. d * m \in Nat /\ b * d = d * b /\ d * b \in Nat
  BY <1>1
<1>4. ASSUME m > b PROVE FALSE
  <2>1. m >= b + 1
    BY <1>1, <1>4
  <2>2. d * m >= d * (b + 1)
    BY <1>1, <2>1
  <2>3. d * (b + 1) = d * b + d
    OBVIOUS
  <2> QED
    BY <1>1, <1>3, <2>2, <2>3
<1>5. ASSUME m = b PROVE r = 0
  BY <1>1, <1>3, <1>5
<1> QED
  BY <1>1, <1>2, <1>4, <1>5

\* The notional of a fill as the loop rounds it and as the ledger cuts it off.
LEMMA TimesNear ==
  ASSUME NEW q \in Nat, NEW price \in Nat
  PROVE  LET cut == (q * price) \div Scale
         IN  Times(q, price) \in Nat /\ cut \in Nat /\ cut <= Times(q, price) /\ Times(q, price) <= cut + 1
<1>1. q * price \in Nat /\ Scale \in Nat \ {0}
  BY AmountAssumption
<1> QED
  BY <1>1, RoundNear, RoundType DEF Times

-----------------------------------------------------------------------------
(* The sums of the model.                                                  *)

Amounts(f) == f.qty \in Nat /\ f.price \in Nat /\ f.fee \in Nat

\* What a fill contributes to each sum is an amount.
LEMMA Contributions ==
  ASSUME NEW f, Amounts(f)
  PROVE  /\ f.qty \in Nat /\ f.fee \in Nat
         /\ Times(f.qty, f.price) \in Nat /\ (f.qty * f.price) \div Scale \in Nat
BY TimesNear DEF Amounts

\* Sums of amounts are amounts.
LEMMA SumTypes ==
  ASSUME NEW F, IsFiniteSet(F), \A g \in F : Amounts(g)
  PROVE  Quantity(F) \in Nat /\ Fees(F) \in Nat /\ Charged(F) \in Nat /\ Worth(F) \in Nat
<1>1. /\ [f \in F |-> f.qty] \in [F -> Nat] /\ [f \in F |-> f.fee] \in [F -> Nat]
      /\ [f \in F |-> Times(f.qty, f.price)] \in [F -> Nat]
      /\ [f \in F |-> (f.qty * f.price) \div Scale] \in [F -> Nat]
  BY Contributions
<1> QED
  BY <1>1, SumCounts DEF Quantity, Fees, Charged, Worth

\* A new fill adds its quantity, its fee, what it was charged and what it is worth.
LEMMA FillAdded ==
  ASSUME NEW F, IsFiniteSet(F), \A g \in F : Amounts(g), NEW f, Amounts(f), f \notin F
  PROVE  /\ Quantity(F \cup {f}) = Quantity(F) + f.qty
         /\ Fees(F \cup {f}) = Fees(F) + f.fee
         /\ Charged(F \cup {f}) = Charged(F) + Times(f.qty, f.price)
         /\ Worth(F \cup {f}) = Worth(F) + (f.qty * f.price) \div Scale
<1> DEFINE G == F \cup {f}
<1>0. \A g \in G : Amounts(g)
  OBVIOUS
<1>1. Quantity(G) = Quantity(F) + f.qty
  <2> DEFINE v == [g \in F |-> g.qty]
             u == [g \in G |-> g.qty]
  <2>1. v \in [F -> Nat] /\ u \in [G -> Nat] /\ u[f] = f.qty /\ \A x \in F : v[x] = u[x]
    BY <1>0, Contributions
  <2>2. Quantity(F) = SumFunction(v) /\ Quantity(G) = SumFunction(u)
    BY DEF Quantity
  <2> HIDE DEF v, u
  <2> QED
    BY <2>1, <2>2, SumAdded
<1>2. Fees(G) = Fees(F) + f.fee
  <2> DEFINE v == [g \in F |-> g.fee]
             u == [g \in G |-> g.fee]
  <2>1. v \in [F -> Nat] /\ u \in [G -> Nat] /\ u[f] = f.fee /\ \A x \in F : v[x] = u[x]
    BY <1>0, Contributions
  <2>2. Fees(F) = SumFunction(v) /\ Fees(G) = SumFunction(u)
    BY DEF Fees
  <2> HIDE DEF v, u
  <2> QED
    BY <2>1, <2>2, SumAdded
<1>3. Charged(G) = Charged(F) + Times(f.qty, f.price)
  <2> DEFINE v == [g \in F |-> Times(g.qty, g.price)]
             u == [g \in G |-> Times(g.qty, g.price)]
  <2>1. v \in [F -> Nat] /\ u \in [G -> Nat] /\ u[f] = Times(f.qty, f.price) /\ \A x \in F : v[x] = u[x]
    BY <1>0, Contributions
  <2>2. Charged(F) = SumFunction(v) /\ Charged(G) = SumFunction(u)
    BY DEF Charged
  <2> HIDE DEF v, u
  <2> QED
    BY <2>1, <2>2, SumAdded
<1>4. Worth(G) = Worth(F) + (f.qty * f.price) \div Scale
  <2> DEFINE v == [g \in F |-> (g.qty * g.price) \div Scale]
             u == [g \in G |-> (g.qty * g.price) \div Scale]
  <2>1. v \in [F -> Nat] /\ u \in [G -> Nat] /\ u[f] = (f.qty * f.price) \div Scale /\ \A x \in F : v[x] = u[x]
    BY <1>0, Contributions
  <2>2. Worth(F) = SumFunction(v) /\ Worth(G) = SumFunction(u)
    BY DEF Worth
  <2> HIDE DEF v, u
  <2> QED
    BY <2>1, <2>2, SumAdded
<1> QED
  BY <1>1, <1>2, <1>3, <1>4

\* Fewer fills have a smaller quantity.
LEMMA QuantityStrict ==
  ASSUME NEW G, IsFiniteSet(G), \A g \in G : g.qty \in Nat \ {0},
         NEW F \in SUBSET G, Quantity(F) = Quantity(G)
  PROVE  F = G
<1> DEFINE v == [f \in F |-> f.qty]
           u == [f \in G |-> f.qty]
           U == Units(F, u)
           V == Units(G, u)
<1>1. v \in [F -> Nat] /\ u \in [G -> Nat] /\ (\A x \in F : v[x] = u[x]) /\ \A x \in G : u[x] \in Nat \ {0}
  OBVIOUS
<1>2. Quantity(F) = SumFunction(v) /\ Quantity(G) = SumFunction(u)
  BY DEF Quantity
<1> HIDE DEF v, u
<1>3. IsFiniteSet(F)
  BY FS_Subset
<1>a. U = Units(F, v)
  BY <1>1, SameUnits
<1>b. SumFunction(v) = Cardinality(Units(F, v)) /\ SumFunction(u) = Cardinality(V) /\ IsFiniteSet(V)
  BY <1>1, <1>3, SumCounts
<1>4. Cardinality(U) = Cardinality(V) /\ IsFiniteSet(V)
  BY <1>2, <1>a, <1>b
<1>5. U \in SUBSET V
  BY DEF Units
<1>6. U = V
  BY <1>4, <1>5, FS_Subset
<1>7. ASSUME NEW g \in G PROVE g \in F
  <2>1. <<g, 1>> \in V
    BY <1>1 DEF Units
  <2> QED
    BY <1>6, <2>1 DEF Units
<1> QED
  BY <1>7

\* No fills, nothing filled, charged or paid.
LEMMA NoFills == Quantity({}) = 0 /\ Fees({}) = 0 /\ Charged({}) = 0 /\ Worth({}) = 0
<1>1. IsFiniteSet({}) /\ Cardinality({}) = 0
  BY FS_EmptySet
<1>2. ASSUME NEW v \in [{} -> Nat] PROVE SumFunction(v) = 0
  <2>1. Units({}, v) = {}
    BY DEF Units
  <2> QED
    BY <1>1, <2>1, SumCounts
<1>3. /\ [f \in {} |-> f.qty] \in [{} -> Nat] /\ [f \in {} |-> f.fee] \in [{} -> Nat]
      /\ [f \in {} |-> Times(f.qty, f.price)] \in [{} -> Nat]
      /\ [f \in {} |-> (f.qty * f.price) \div Scale] \in [{} -> Nat]
  OBVIOUS
<1> QED
  BY <1>2, <1>3 DEF Quantity, Fees, Charged, Worth

\* What one more fill does to the replayed cash and quantity.
LEMMA ReplayAdded ==
  ASSUME NEW L, IsFiniteSet(L), \A g \in L : Amounts(g),
         NEW f, Amounts(f), f.side \in Sides, f \notin L
  PROVE  LET m == (f.qty * f.price) \div Scale
         IN  /\ ReplayCash(L) \in Int /\ ReplayCash(L \cup {f}) \in Int
             /\ ReplayCash(L \cup {f}) =
                  IF f.side = "BUY" THEN ReplayCash(L) - m - f.fee ELSE ReplayCash(L) + m - f.fee
<1> DEFINE m == (f.qty * f.price) \div Scale
           B == Bought(L)
           S == Sold(L)
<1>1. Capital \in Nat /\ m \in Nat /\ f.fee \in Nat
  BY AmountAssumption, Contributions
<1>2. IsFiniteSet(B) /\ IsFiniteSet(S)
  BY FS_Subset DEF Bought, Sold
<1>3. (\A g \in B : Amounts(g)) /\ (\A g \in S : Amounts(g)) /\ f \notin B /\ f \notin S
  BY DEF Bought, Sold
<1>4. /\ f.side = "BUY" => Bought(L \cup {f}) = B \cup {f} /\ Sold(L \cup {f}) = S
      /\ f.side # "BUY" => Bought(L \cup {f}) = B /\ Sold(L \cup {f}) = S \cup {f}
  BY DEF Sides, Bought, Sold
<1> HIDE DEF m, B, S
<1>5. Worth(B) \in Nat /\ Worth(S) \in Nat /\ Fees(L) \in Nat
  BY <1>2, <1>3, SumTypes
<1>6. Worth(B \cup {f}) = Worth(B) + m /\ Worth(S \cup {f}) = Worth(S) + m /\ Fees(L \cup {f}) = Fees(L) + f.fee
  BY <1>2, <1>3, FillAdded DEF m
<1>7. ReplayCash(L) = Capital - Worth(B) + Worth(S) - Fees(L)
  BY DEF ReplayCash, B, S
<1>8. CASE f.side = "BUY"
  <2>1. ReplayCash(L \cup {f}) = Capital - (Worth(B) + m) + Worth(S) - (Fees(L) + f.fee)
    BY <1>4, <1>6, <1>8 DEF ReplayCash
  <2>2. ReplayCash(L \cup {f}) = ReplayCash(L) - m - f.fee /\ ReplayCash(L) \in Int /\ ReplayCash(L \cup {f}) \in Int
    BY <1>1, <1>5, <1>7, <2>1
  <2> QED
    BY <1>8, <2>2 DEF m
<1>9. CASE f.side # "BUY"
  <2>1. ReplayCash(L \cup {f}) = Capital - Worth(B) + (Worth(S) + m) - (Fees(L) + f.fee)
    BY <1>4, <1>6, <1>9 DEF ReplayCash
  <2>2. ReplayCash(L \cup {f}) = ReplayCash(L) + m - f.fee /\ ReplayCash(L) \in Int /\ ReplayCash(L \cup {f}) \in Int
    BY <1>1, <1>5, <1>7, <2>1
  <2> QED
    BY <1>9, <2>2 DEF m
<1> QED
  BY <1>8, <1>9

\* The loop and the ledger move the cash by amounts one unit apart at most.
LEMMA CashDrift ==
  ASSUME NEW L, IsFiniteSet(L), \A g \in L : Amounts(g),
         NEW f, Amounts(f), f.side \in Sides, f \notin L,
         NEW s, s.cash \in Int, Within(s.cash, ReplayCash(L), Cardinality(L))
  PROVE  Within(CashAfter(s, f.side, f.qty, f.price, f.fee), ReplayCash(L \cup {f}), Cardinality(L \cup {f}))
<1> DEFINE m == (f.qty * f.price) \div Scale
           x == Times(f.qty, f.price)
           a == ReplayCash(L)
           b == ReplayCash(L \cup {f})
           c == Cardinality(L)
<1>1. m \in Nat /\ x \in Nat /\ m <= x /\ x <= m + 1 /\ f.fee \in Nat
  BY TimesNear DEF Amounts
<1>2. a \in Int /\ b \in Int /\ b = IF f.side = "BUY" THEN a - m - f.fee ELSE a + m - f.fee
  BY ReplayAdded
<1>3. c \in Nat /\ Cardinality(L \cup {f}) = c + 1
  BY FS_AddElement, FS_CardinalityType
<1>4. CashAfter(s, f.side, f.qty, f.price, f.fee) =
        IF f.side = "BUY" THEN s.cash - x - f.fee ELSE s.cash + x - f.fee
  BY DEF CashAfter
<1>5. s.cash - a <= c /\ a - s.cash <= c
  BY DEF Within
<1> HIDE DEF m, x, a, b, c
<1>6. Within(IF f.side = "BUY" THEN s.cash - x - f.fee ELSE s.cash + x - f.fee, b, c + 1)
  BY <1>1, <1>2, <1>3, <1>5 DEF Within
<1> QED
  BY <1>3, <1>4, <1>6 DEF b

\* What a budget buys is within the budget.
LEMMA WithinBudget ==
  ASSUME NEW b \in Int, NEW p \in Nat \ {0}, NEW n \in Nat, n <= b \div p
  PROVE  n * p <= b
<1> DEFINE d == b \div p
           r == b % p
<1>1. d \in Int /\ r \in Nat /\ b = p * d + r
  OBVIOUS
<1> HIDE DEF d, r
<1>2. n <= d
  BY DEF d
<1>3. p * n <= p * d
  BY <1>1, <1>2
<1>4. p * n = n * p /\ p * n \in Nat /\ p * d \in Int
  BY <1>1
<1> QED
  BY <1>1, <1>3, <1>4

-----------------------------------------------------------------------------
(* The inductive invariant.                                                *)

Fields == {"cash", "qty", "orders", "fills", "working", "keys", "at"}
Workings ==
    [key : Keys, side : Sides, strategy : BOOLEAN, limit : Int, requested : Int, filled : Nat,
     ticks : Nat, alloc : Int, budget : Int, cursor : Nat]

\* an account state computed by the time now, before it is validated
StateType(s, now) ==
    /\ DOMAIN s = Fields
    /\ s.cash \in Int /\ s.qty \in Int /\ s.at \in 0..now
    /\ s.orders \in Seq(ToSet(s.orders)) /\ Len(s.orders) <= Capacity
    /\ s.working \in Seq(Workings) /\ Len(s.working) <= Capacity
    /\ s.fills \in Seq(ToSet(s.fills))
    /\ s.keys \in Seq(Keys)

FillType(f) ==
    /\ f.key \in Keys /\ f.side \in Sides /\ f.qty \in Nat \ {0} /\ f.price \in Nat \ {0}
    /\ f.fee \in Nat /\ f.quote \in Nat

\* the ledger has no fill of the order from a snapshot after its cursor
Cursor(w) == \A f \in ledger : f.key = w.key => f.quote <= w.cursor

\* an account state that memory or the disk holds
Account(s) ==
    /\ StateType(s, clock)
    /\ s.cash >= 0 /\ s.qty >= 0
    /\ ToSet(s.fills) \subseteq ledger
    /\ \A w \in ToSet(s.working) : w.filled < w.requested /\ Cursor(w)

Ledger == \A f \in ledger : FillType(f) /\ f.key \in ToSet(disk.keys)

\* Memory may hold an order that is not saved, but none whose key is.
Ahead ==
    /\ ToSet(disk.keys) \subseteq ToSet(mem.keys)
    /\ \A w \in ToSet(mem.working) : w.key \in ToSet(disk.keys) => w.key \in KeysOf(disk.working)

\* The fills L of the order e are within what it asks for, and within its budget and a tolerance.
Paid(e, L) ==
    LET F == FillsOf(L, e.key)
    IN  /\ Quantity(F) <= e.requested
        /\ e.strategy /\ e.side = "BUY" => Charged(F) <= e.alloc + Overrun

\* What is left of a budget is what was not charged: the tolerance is used with the last of it.
Budgeted(w, L) ==
    w.strategy /\ w.side = "BUY" /\ w.budget > 0 => w.budget + Charged(FillsOf(L, w.key)) = w.alloc

\* The state has all the fills of the order, and they are what it says was filled.
Entry(e, amount, s) ==
    /\ e.key \in ToSet(s.keys)
    /\ FillsOf(ledger, e.key) \subseteq ToSet(s.fills)
    /\ Quantity(FillsOf(ledger, e.key)) = amount
    /\ Paid(e, ledger)

WorkingHeld(w, s) == Entry(w, w.filled, s) /\ Budgeted(w, ledger)

Held(s) ==
    /\ \A o \in ToSet(s.orders) : Entry(o, o.qty, s)
    /\ \A w \in ToSet(s.working) : WorkingHeld(w, s)

\* The ledger explains the cash up to its rounding, and the quantity.
Replays(s) ==
    /\ Within(s.cash, ReplayCash(ledger), Cardinality(ledger))
    /\ s.qty = ReplayQty(ledger)

Inv ==
    /\ clock \in 1..MaxClock
    /\ Account(mem) /\ Account(disk)
    /\ Held(mem) /\ Held(disk)
    /\ IsFiniteSet(ledger) /\ Replays(mem) /\ Replays(disk)
    /\ Ledger /\ Ahead /\ SnapshotUsedOnce

-----------------------------------------------------------------------------
(* What a call makes of the account state.                                 *)

\* an order of a new key, or one that memory is working on, not set back
Carried(v) ==
    \/ v.key \notin ToSet(mem.keys)
    \/ \E w \in ToSet(mem.working) : w.key = v.key /\ w.cursor <= v.cursor

Follows(s) ==
    /\ StateType(s, clock)
    /\ ToSet(mem.keys) \subseteq ToSet(s.keys)
    /\ \A v \in ToSet(s.working) : Carried(v)

\* a fill of an order of a new key, or of one that memory is working on, from no
\* snapshot that was used for it before
Fresh(f, s) ==
    /\ FillType(f)
    /\ f.key \notin ToSet(mem.keys) \/ f.key \in KeysOf(mem.working)
    /\ f.quote = 0 \/ \A g \in ledger : g.key = f.key => g.quote < f.quote
    /\ \A v \in ToSet(s.working) : v.key = f.key => f.quote <= v.cursor

\* One fill at most is new, and the cash moves by its rounded notional and its fee.
Filled(s) ==
    \/ ToSet(s.fills) \subseteq ToSet(mem.fills) /\ s.cash = mem.cash
    \/ \E f :
        /\ Fresh(f, s) /\ f \notin ledger /\ f \in ToSet(s.fills)
        /\ ToSet(s.fills) \subseteq ToSet(mem.fills) \cup {f}
        /\ s.cash = CashAfter(mem, f.side, f.qty, f.price, f.fee)

\* e fits with the ledger as it is after s is saved
Fits(e, s) ==
    LET L == ledger \cup ToSet(s.fills)
    IN  FillsOf(L, e.key) \subseteq ToSet(s.fills) /\ Paid(e, L)

\* The orders of s are those of b or fit, and no order of b both gained and lost a fill.
KeptFrom(b, s) ==
    /\ \A o \in ToSet(s.orders) : o \in ToSet(b.orders) \/ Fits(o, s)
    /\ \A w \in ToSet(s.working) :
        w \in ToSet(b.working) \/ (Fits(w, s) /\ Budgeted(w, ledger \cup ToSet(s.fills)))
    /\ \A e \in ToSet(b.orders) \cup ToSet(b.working) :
        \/ FillsOf(ToSet(s.fills), e.key) \subseteq FillsOf(ToSet(b.fills), e.key)
        \/ FillsOf(ToSet(b.fills), e.key) \subseteq FillsOf(ToSet(s.fills), e.key)

Kept(s) == \E b : Held(b) /\ b.fills = mem.fills /\ KeptFrom(b, s)

\* the state is saved and adopted
Saved(s) ==
    /\ validateState(s) /\ LedgerAccepts(s) /\ Follows(s) /\ Filled(s) /\ Kept(s)
    /\ mem' = s /\ disk' = s /\ ledger' = ledger \cup ToSet(s.fills) /\ clock' = clock

\* deterministicFill can have nothing to fill, or a price of zero or less.
Throws == FillDiv > 2 \/ \E price \in Prices : price <= Slippage

\* the state is adopted only
Adopted(s) ==
    /\ Throws
    /\ Follows(s) /\ s.fills = mem.fills /\ s.cash = mem.cash /\ s.qty = mem.qty
    /\ \A w \in ToSet(s.working) : w.filled < w.requested
    /\ Held(s)
    /\ mem' = s /\ UNCHANGED <<disk, ledger, clock>>

Step ==
    \/ \E s : Saved(s)
    \/ \E s : Adopted(s)
    \/ UNCHANGED <<mem, disk, ledger, clock>>
    \/ Restart
    \/ Tick

\* save: a state that follows from memory is saved, or nothing changes.
LEMMA PersistStep ==
  ASSUME NEW op, NEW next, Persist(op, next),
         validateState(next) => Follows(next) /\ Filled(next) /\ Kept(next)
  PROVE  Step
BY DEF Persist, Refused, Step, Saved

\* What an order's own snapshots say of a fill the ledger has.
LEMMA CarriedCursor ==
  ASSUME Inv, NEW v, Carried(v), v.cursor \in Nat
  PROVE  Cursor(v)
<1> SUFFICES ASSUME NEW f \in ledger, f.key = v.key PROVE f.quote <= v.cursor
  BY DEF Cursor
<1>1. f.key \in ToSet(mem.keys) /\ f.quote \in Nat
  BY DEF Inv, Ledger, Ahead, FillType
<1>2. PICK w \in ToSet(mem.working) : w.key = v.key /\ w.cursor <= v.cursor
  BY <1>1 DEF Carried
<1>3. w \in Workings /\ Cursor(w)
  BY ToSetOf DEF Inv, Account, StateType
<1>4. w.cursor \in Nat /\ f.quote <= w.cursor
  BY <1>2, <1>3 DEF Workings, Cursor
<1> QED
  BY <1>1, <1>2, <1>4

\* The fills of an order that a state has all of.
LEMMA EntrySums ==
  ASSUME Inv, NEW s, s.fills = mem.fills, NEW k, FillsOf(ledger, k) \subseteq ToSet(s.fills)
  PROVE  LET F == FillsOf(ledger, k)
         IN  /\ IsFiniteSet(F) /\ F = FillsOf(ToSet(s.fills), k)
             /\ \A f \in F : f.qty \in Nat \ {0} /\ Amounts(f)
             /\ Quantity(F) \in Nat /\ Charged(F) \in Nat
<1> DEFINE F == FillsOf(ledger, k)
<1>1. IsFiniteSet(ToSet(s.fills)) /\ ToSet(s.fills) \subseteq ledger
  BY ToSetFinite DEF Inv, Account, StateType
<1>2. IsFiniteSet(F)
  BY <1>1, FS_Subset
<1>3. F = FillsOf(ToSet(s.fills), k)
  BY <1>1 DEF FillsOf
<1>4. \A f \in F : f.qty \in Nat \ {0} /\ Amounts(f)
  BY DEF Inv, Ledger, FillType, FillsOf, Amounts
<1> HIDE DEF F
<1>5. Quantity(F) \in Nat /\ Charged(F) \in Nat
  BY <1>2, <1>4, SumTypes
<1> QED
  BY <1>2, <1>3, <1>4, <1>5 DEF F

\* What is saved has all the fills of its orders again: those of an order that did not change
\* cannot have changed, because validateState compares their quantity with the order's.
LEMMA SavedHeld == ASSUME Inv, NEW s, Saved(s) PROVE Held(s)'
<1> DEFINE L == ledger \cup ToSet(s.fills)
<1>1. PICK b : Held(b) /\ b.fills = mem.fills /\ KeptFrom(b, s)
  BY DEF Saved, Kept
<1>2. ledger' = L /\ validateState(s) /\ StateType(s, clock)
  BY DEF Saved, Follows
<1>3. IsFiniteSet(ToSet(s.fills))
  BY <1>2, ToSetFinite DEF StateType
<1>4. ASSUME NEW f \in L PROVE f.qty \in Nat \ {0}
  <2>1. FillType(f)
    BY DEF Saved, Filled, Fresh, Inv, Ledger, Account
  <2> QED
    BY <2>1 DEF FillType
<1> DEFINE F(e) == FillsOf(ledger, e.key)
           G(e) == FillsOf(ToSet(s.fills), e.key)
           Same(e, amount) ==
             /\ Entry(e, amount, b)
             /\ G(e) \subseteq FillsOf(ToSet(b.fills), e.key) \/ FillsOf(ToSet(b.fills), e.key) \subseteq G(e)
<1>5. ASSUME NEW e, NEW amount, Quantity(G(e)) = amount, Same(e, amount)
      PROVE  F(e) = G(e) /\ FillsOf(L, e.key) = F(e)
  <2>1. FillsOf(ledger, e.key) \subseteq ToSet(b.fills) /\ Quantity(F(e)) = amount
    BY <1>5 DEF Entry
  <2>2. /\ IsFiniteSet(F(e)) /\ F(e) = FillsOf(ToSet(b.fills), e.key)
        /\ \A f \in F(e) : f.qty \in Nat \ {0}
    BY <1>1, <2>1, EntrySums
  <2>3. IsFiniteSet(G(e))
    BY <1>3, FS_Subset DEF FillsOf
  <2>4. \A f \in G(e) : f.qty \in Nat \ {0}
    BY <1>4 DEF FillsOf
  <2>5. F(e) \in SUBSET G(e) \/ G(e) \in SUBSET F(e)
    BY <1>5, <2>2
  <2>6. Quantity(F(e)) = Quantity(G(e))
    BY <1>5, <2>1
  <2>7. F(e) = G(e)
    <3> HIDE DEF F, G
    <3> QED
      BY <2>2, <2>3, <2>4, <2>5, <2>6, QuantityStrict
  <2> QED
    BY <2>7 DEF FillsOf
<1>a. ASSUME NEW e, NEW amount, Quantity(G(e)) = amount, Fits(e, s) \/ Same(e, amount)
      PROVE  FillsOf(L, e.key) = G(e) /\ Paid(e, L)
  <2>1. CASE Fits(e, s)
    BY <2>1 DEF Fits, FillsOf
  <2>2. CASE Same(e, amount)
    <3>1. FillsOf(L, e.key) = G(e) /\ FillsOf(L, e.key) = F(e)
      BY <1>5, <1>a, <2>2
    <3> QED
      BY <2>2, <3>1 DEF Entry, Paid
  <2> QED
    BY <1>a, <2>1, <2>2
<1> HIDE DEF L
<1>6. ASSUME NEW o \in ToSet(s.orders) PROVE Entry(o, o.qty, s)'
  <2>1. Quantity(G(o)) = o.qty /\ o.key \in ToSet(s.keys)
    BY <1>2 DEF validateState, OrderReconciles, KeysOf
  <2>2. Fits(o, s) \/ Same(o, o.qty)
    BY <1>1 DEF KeptFrom, Held
  <2>3. FillsOf(L, o.key) = G(o) /\ Paid(o, L)
    BY <1>a, <2>1, <2>2
  <2> QED
    BY <1>2, <2>1, <2>3 DEF Entry, FillsOf
<1>7. ASSUME NEW w \in ToSet(s.working) PROVE WorkingHeld(w, s)'
  <2>1. Quantity(G(w)) = w.filled /\ w.key \in ToSet(s.keys)
    BY <1>2 DEF validateState, WorkingReconciles, KeysOf
  <2>2. (Fits(w, s) /\ Budgeted(w, L)) \/ (Same(w, w.filled) /\ Budgeted(w, ledger))
    BY <1>1 DEF KeptFrom, Held, WorkingHeld, L
  <2>3. FillsOf(L, w.key) = G(w) /\ Paid(w, L)
    BY <1>a, <2>1, <2>2
  <2>4. Entry(w, w.filled, s)'
    BY <1>2, <2>1, <2>3 DEF Entry, FillsOf
  <2>5. Budgeted(w, L)
    <3>1. ASSUME Same(w, w.filled), Budgeted(w, ledger) PROVE Budgeted(w, L)
      <4>1. FillsOf(L, w.key) = F(w)
        BY <1>5, <2>1, <3>1
      <4> QED
        BY <3>1, <4>1 DEF Budgeted
    <3> QED
      BY <2>2, <3>1
  <2> QED
    BY <1>2, <2>4, <2>5 DEF WorkingHeld, Budgeted
<1> QED
  BY <1>6, <1>7 DEF Held

\* A state is held as long as the ledger does not change.
LEMMA SameLedger == ASSUME NEW s, Held(s), ledger' = ledger PROVE Held(s)'
BY DEF Held, WorkingHeld, Entry, Paid, Budgeted, FillsOf

\* What is saved is explained by the ledger it is saved with.
LEMMA SavedReplays == ASSUME Inv, NEW s, Saved(s) PROVE IsFiniteSet(ledger') /\ Replays(s)'
<1>1. Filled(s) /\ LedgerAccepts(s) /\ ledger' = ledger \cup ToSet(s.fills)
  BY DEF Saved
<1>2. /\ IsFiniteSet(ledger) /\ ToSet(mem.fills) \subseteq ledger /\ mem.cash \in Int
      /\ Within(mem.cash, ReplayCash(ledger), Cardinality(ledger))
  BY DEF Inv, Account, StateType, Replays
<1>3. s.qty = ReplayQty(ledger')
  BY <1>1 DEF LedgerAccepts
<1>4. CASE ToSet(s.fills) \subseteq ToSet(mem.fills) /\ s.cash = mem.cash
  <2>1. ledger' = ledger
    BY <1>1, <1>2, <1>4
  <2> QED
    BY <1>2, <1>3, <1>4, <2>1 DEF Replays
<1>5. ASSUME NEW f, FillType(f), f \notin ledger, f \in ToSet(s.fills),
             ToSet(s.fills) \subseteq ToSet(mem.fills) \cup {f},
             s.cash = CashAfter(mem, f.side, f.qty, f.price, f.fee)
      PROVE  IsFiniteSet(ledger') /\ Replays(s)'
  <2>1. ledger' = ledger \cup {f}
    BY <1>1, <1>2, <1>5
  <2>2. \A g \in ledger \cup {f} : Amounts(g) /\ g.side \in Sides
    BY <1>5 DEF Inv, Ledger, FillType, Amounts
  <2>3. Within(s.cash, ReplayCash(ledger \cup {f}), Cardinality(ledger \cup {f}))
    BY <1>2, <1>5, <2>2, CashDrift
  <2>4. IsFiniteSet(ledger \cup {f})
    BY <1>2, FS_AddElement
  <2> QED
    BY <1>3, <2>1, <2>3, <2>4 DEF Replays
<1> QED
  BY <1>1, <1>4, <1>5 DEF Filled, Fresh

\* A save preserves the invariant.
LEMMA SavedInv == ASSUME Inv, NEW s, Saved(s) PROVE Inv'
<1>1. /\ StateType(s, clock) /\ s.cash >= 0 /\ s.qty >= 0
      /\ \A w \in ToSet(s.working) : w.filled < w.requested
      /\ \A f \in ToSet(s.fills) : f.key \in ToSet(s.keys)
      /\ ToSet(mem.keys) \subseteq ToSet(s.keys)
      /\ \A v \in ToSet(s.working) : Carried(v)
  BY DEF Saved, Follows, validateState, WorkingReconciles
<1>2. /\ mem' = s /\ disk' = s /\ ledger' = ledger \cup ToSet(s.fills) /\ clock' = clock
      /\ Filled(s)
  BY DEF Saved
<1>3. ToSet(mem.fills) \subseteq ledger
  BY DEF Inv, Account
<1>4. ASSUME NEW w \in ToSet(s.working) PROVE w \in Workings /\ Cursor(w)
  <2>1. w \in Workings
    BY <1>1, ToSetOf DEF StateType
  <2>2. w.cursor \in Nat
    BY <2>1 DEF Workings
  <2> QED
    BY <1>1, <2>1, <2>2, CarriedCursor
<1>5. \/ ledger' = ledger
      \/ \E f : Fresh(f, s) /\ ledger' = ledger \cup {f} /\ f \in ToSet(s.fills)
  BY <1>2, <1>3 DEF Filled
<1>6. /\ \A f \in ledger' : FillType(f) /\ f.key \in ToSet(s.keys)
      /\ SnapshotUsedOnce'
      /\ \A w \in ToSet(s.working) : \A f \in ledger' : f.key = w.key => f.quote <= w.cursor
  <2>1. \A f \in ledger : FillType(f) /\ f.key \in ToSet(s.keys)
    BY <1>1 DEF Inv, Ledger, Ahead
  <2>2. CASE ledger' = ledger
    BY <1>4, <2>1, <2>2 DEF Inv, SnapshotUsedOnce, Cursor
  <2>3. ASSUME NEW f, Fresh(f, s), ledger' = ledger \cup {f}, f \in ToSet(s.fills)
        PROVE  /\ \A g \in ledger' : FillType(g) /\ g.key \in ToSet(s.keys)
               /\ SnapshotUsedOnce'
               /\ \A w \in ToSet(s.working) : \A g \in ledger' : g.key = w.key => g.quote <= w.cursor
    <3>1. FillType(f) /\ f.key \in ToSet(s.keys)
      BY <1>1, <2>3 DEF Fresh
    <3>2. \A w \in ToSet(s.working) : \A g \in ledger' : g.key = w.key => g.quote <= w.cursor
      BY <1>4, <2>3 DEF Fresh, Cursor
    <3>3. ASSUME NEW g \in ledger, g.key = f.key, f.quote > 0 \/ g.quote > 0 PROVE f.quote # g.quote
      <4>1. f.quote \in Nat /\ g.quote \in Nat
        BY <2>1, <3>1 DEF FillType
      <4> QED
        BY <2>3, <3>3, <4>1 DEF Fresh
    <3>4. SnapshotUsedOnce'
      BY <2>3, <3>3 DEF Inv, SnapshotUsedOnce
    <3> QED
      BY <2>1, <2>3, <3>1, <3>2, <3>4
  <2> QED
    BY <1>5, <2>2, <2>3
<1>7. Account(s)'
  BY <1>1, <1>2, <1>6 DEF Account, Cursor
<1>8. Ahead'
  BY <1>2 DEF Ahead, KeysOf
<1>9. Held(mem)' /\ Held(disk)'
  <2>1. Held(s)'
    BY SavedHeld
  <2> QED
    BY <1>2, <2>1 DEF Held, WorkingHeld, Entry
<1>a. IsFiniteSet(ledger') /\ Replays(mem)' /\ Replays(disk)'
  BY <1>2, SavedReplays DEF Replays
<1>10. Account(mem)' /\ Account(disk)'
  BY <1>2, <1>7 DEF Account, StateType
<1>11. Ledger' /\ clock' \in 1..MaxClock
  BY <1>2, <1>6 DEF Inv, Ledger
<1> QED
  BY <1>6, <1>8, <1>9, <1>10, <1>11, <1>a DEF Inv

\* So does a throw that leaves an unsaved order in memory.
LEMMA AdoptedInv == ASSUME Inv, NEW s, Adopted(s) PROVE Inv'
<1>1. /\ StateType(s, clock) /\ s.fills = mem.fills /\ s.cash = mem.cash /\ s.qty = mem.qty
      /\ \A w \in ToSet(s.working) : w.filled < w.requested
      /\ ToSet(mem.keys) \subseteq ToSet(s.keys)
      /\ \A v \in ToSet(s.working) : Carried(v)
      /\ mem' = s /\ disk' = disk /\ ledger' = ledger /\ clock' = clock
  BY DEF Adopted, Follows
<1>2. ASSUME NEW w \in ToSet(s.working) PROVE Cursor(w)
  <2>1. w \in Workings
    BY <1>1, ToSetOf DEF StateType
  <2>2. w.cursor \in Nat
    BY <2>1 DEF Workings
  <2> QED
    BY <1>1, <2>2, CarriedCursor
<1>3. Account(s)
  BY <1>1, <1>2 DEF Inv, Account
<1>4. Account(disk) /\ Ledger /\ SnapshotUsedOnce /\ clock \in 1..MaxClock
  BY DEF Inv
<1>5. Account(mem)' /\ Account(disk)' /\ Ledger' /\ SnapshotUsedOnce'
  BY <1>1, <1>3, <1>4 DEF Account, Cursor, Ledger, SnapshotUsedOnce
<1>6. Ahead'
  <2>1. ToSet(disk.keys) \subseteq ToSet(s.keys)
    BY <1>1 DEF Inv, Ahead
  <2>2. ASSUME NEW v \in ToSet(s.working), v.key \in ToSet(disk.keys)
        PROVE  v.key \in KeysOf(disk.working)
    BY <1>1, <2>2 DEF Inv, Ahead, Carried
  <2> QED
    BY <1>1, <2>1, <2>2 DEF Ahead
<1>7. Held(mem)' /\ Held(disk)'
  <2>1. Held(s) /\ Held(disk)
    BY DEF Adopted, Inv
  <2> QED
    BY <1>1, <2>1, SameLedger DEF Held, WorkingHeld, Entry
<1>8. IsFiniteSet(ledger') /\ Replays(mem)' /\ Replays(disk)'
  BY <1>1 DEF Inv, Replays
<1> QED
  BY <1>1, <1>4, <1>5, <1>6, <1>7, <1>8 DEF Inv

\* The invariant is inductive.
LEMMA StepInv == ASSUME Inv, Step PROVE Inv'
<1>0. ASSUME ledger' = ledger, disk' = disk, mem' \in {mem, disk}
      PROVE  /\ Held(mem)' /\ Held(disk)'
             /\ IsFiniteSet(ledger') /\ Replays(mem)' /\ Replays(disk)'
  <2>1. Held(mem) /\ Held(disk)
    BY DEF Inv
  <2>2. IsFiniteSet(ledger') /\ Replays(mem)' /\ Replays(disk)'
    BY <1>0 DEF Inv, Replays
  <2> QED
    BY <1>0, <2>1, <2>2 DEF Held, WorkingHeld, Entry, Paid, Budgeted, FillsOf
<1>1. CASE \E s : Saved(s)
  BY <1>1, SavedInv
<1>2. CASE \E s : Adopted(s)
  BY <1>2, AdoptedInv
<1>3. CASE UNCHANGED <<mem, disk, ledger, clock>>
  BY <1>0, <1>3 DEF Inv, Account, Cursor, Ledger, Ahead, SnapshotUsedOnce
<1>4. CASE Restart
  <2>1. mem' = disk /\ disk' = disk /\ ledger' = ledger /\ clock' = clock
    BY <1>4 DEF Restart
  <2>2. Ahead'
    BY <2>1 DEF Ahead, KeysOf
  <2> QED
    BY <1>0, <2>1, <2>2 DEF Inv, Account, Cursor, Ledger, SnapshotUsedOnce
<1>5. CASE Tick
  <2>1. /\ mem' = mem /\ disk' = disk /\ ledger' = ledger
        /\ clock' = clock + 1 /\ clock < MaxClock /\ clock \in 1..MaxClock
    BY <1>5 DEF Tick, Inv
  <2>2. clock' \in 1..MaxClock /\ \A n \in 0..clock : n \in 0..clock'
    BY <2>1, AmountAssumption
  <2>3. \A s : StateType(s, clock) => StateType(s, clock')
    BY <2>2 DEF StateType
  <2> QED
    BY <1>0, <2>1, <2>2, <2>3 DEF Inv, Account, Cursor, Ledger, Ahead, SnapshotUsedOnce
<1> QED
  BY <1>1, <1>2, <1>3, <1>4, <1>5 DEF Step

\* What a step leaves of a key whose order is done.
LEMMA StepResolved ==
  ASSUME Inv, Step, NEW k \in Keys, Resolved(k)
  PROVE  Resolved(k)' /\ FillsOf(ledger', k) = FillsOf(ledger, k)
<1>0. k \in ToSet(disk.keys) /\ k \in ToSet(mem.keys) /\ k \notin KeysOf(disk.working)
  BY DEF Inv, Ahead, Resolved
<1>1. ASSUME NEW w \in ToSet(mem.working) PROVE w.key # k
  BY <1>0, <1>1 DEF Inv, Ahead
<1>2. ASSUME NEW s, Saved(s) PROVE Resolved(k)' /\ FillsOf(ledger', k) = FillsOf(ledger, k)
  <2>1. /\ Follows(s) /\ Filled(s) /\ disk' = s /\ ledger' = ledger \cup ToSet(s.fills)
    BY <1>2 DEF Saved
  <2>2. k \in ToSet(s.keys)
    BY <1>0, <2>1 DEF Follows
  <2>3. ASSUME NEW v \in ToSet(s.working) PROVE v.key # k
    BY <1>0, <1>1, <2>1 DEF Follows, Carried
  <2>4. Resolved(k)'
    BY <2>1, <2>2, <2>3 DEF Resolved, KeysOf
  <2>5. ToSet(mem.fills) \subseteq ledger
    BY DEF Inv, Account
  <2>6. ASSUME NEW f, Fresh(f, s) PROVE f.key # k
    BY <1>0, <1>1, <2>6 DEF Fresh, KeysOf
  <2>7. \A f \in ToSet(s.fills) : f.key = k => f \in ledger
    BY <2>1, <2>5, <2>6 DEF Filled
  <2>8. FillsOf(ledger', k) = FillsOf(ledger, k)
    BY <2>1, <2>7 DEF FillsOf
  <2> QED
    BY <2>4, <2>8
<1>3. CASE disk' = disk /\ ledger' = ledger
  BY <1>3 DEF Resolved
<1>4. (\E s : Saved(s)) \/ (disk' = disk /\ ledger' = ledger)
  BY DEF Step, Adopted, Restart, Tick
<1> QED
  BY <1>2, <1>3, <1>4

-----------------------------------------------------------------------------
(* What the states that calls compute have in common.                      *)

\* Memory follows from itself.
LEMMA MemFollows == ASSUME Inv PROVE Follows(mem)
<1>1. \A v \in ToSet(mem.working) : v \in Workings
  BY ToSetOf DEF Inv, Account, StateType
<1>2. \A v \in ToSet(mem.working) : v.cursor <= v.cursor
  BY <1>1 DEF Workings
<1> QED
  BY <1>2 DEF Inv, Account, Follows, Carried

\* An entry is replaced in the list of working orders.
LEMMA ReplacedFollows ==
  ASSUME Inv, NEW s, Follows(s), NEW w \in Workings, Carried(w)
  PROVE  Follows([s EXCEPT !.working = Replacing(s.working, w), !.at = clock])
<1> DEFINE n == [s EXCEPT !.working = Replacing(s.working, w), !.at = clock]
<1>1. StateType(s, clock) /\ ToSet(mem.keys) \subseteq ToSet(s.keys) /\ \A v \in ToSet(s.working) : Carried(v)
  BY DEF Follows
<1>2. /\ Replacing(s.working, w) \in Seq(Workings) /\ Len(Replacing(s.working, w)) = Len(s.working)
      /\ \A v \in ToSet(Replacing(s.working, w)) : Carried(v)
  BY <1>1, Replaced DEF StateType
<1>3. /\ DOMAIN n = Fields /\ n.cash = s.cash /\ n.qty = s.qty /\ n.orders = s.orders /\ n.fills = s.fills
      /\ n.keys = s.keys /\ n.working = Replacing(s.working, w) /\ n.at = clock
  BY <1>1 DEF StateType, Fields
<1>4. clock \in 0..clock
  BY AmountAssumption DEF Inv
<1> HIDE DEF n
<1>5. Follows(n)
  BY <1>1, <1>2, <1>3, <1>4 DEF Follows, StateType
<1> QED
  BY <1>5 DEF n

\* A new order is the first of the list.
LEMMA OpenedFollows ==
  ASSUME Inv, NEW w \in Workings, w.key \notin ToSet(mem.keys)
  PROVE  LET n == [mem EXCEPT !.working = Slice(<<w>> \o mem.working),
                              !.keys = <<w.key>> \o mem.keys, !.at = clock]
         IN  /\ Follows(n) /\ n.fills = mem.fills /\ n.cash = mem.cash /\ n.qty = mem.qty
             /\ ToSet(n.working) \subseteq {w} \cup ToSet(mem.working)
<1> DEFINE n == [mem EXCEPT !.working = Slice(<<w>> \o mem.working),
                            !.keys = <<w.key>> \o mem.keys, !.at = clock]
<1>1. StateType(mem, clock) /\ \A v \in ToSet(mem.working) : Carried(v)
  BY MemFollows DEF Follows
<1>2. /\ mem.working \in Seq(Workings) /\ mem.keys \in Seq(Keys) /\ w.key \in Keys
  BY <1>1 DEF StateType, Workings
<1> DEFINE c == <<w>> \o mem.working
           d == <<w.key>> \o mem.keys
<1>3. c \in Seq(Workings) /\ ToSet(c) = {w} \cup ToSet(mem.working)
  BY <1>2, Prepended
<1>4. d \in Seq(Keys) /\ ToSet(d) = {w.key} \cup ToSet(mem.keys)
  BY <1>2, Prepended
<1> HIDE DEF c, d
<1>5. /\ Slice(c) \in Seq(Workings) /\ Len(Slice(c)) <= Capacity
      /\ ToSet(Slice(c)) \subseteq {w} \cup ToSet(mem.working)
  BY <1>3, Sliced
<1>6. /\ DOMAIN n = Fields /\ n.cash = mem.cash /\ n.qty = mem.qty /\ n.orders = mem.orders
      /\ n.fills = mem.fills /\ n.keys = d /\ n.working = Slice(c) /\ n.at = clock
  BY <1>1 DEF StateType, Fields, c, d
<1>7. clock \in 0..clock
  BY AmountAssumption DEF Inv
<1> HIDE DEF n
<1>8. \A v \in ToSet(n.working) : Carried(v)
  BY <1>1, <1>5, <1>6 DEF Carried
<1>9. Follows(n)
  BY <1>1, <1>4, <1>5, <1>6, <1>7, <1>8 DEF Follows, StateType
<1> QED
  BY <1>5, <1>6, <1>9 DEF n

\* Cash and position after a fill are amounts.
LEMMA AmountsAfter ==
  ASSUME NEW s, s.cash \in Int, s.qty \in Int, NEW side, NEW q \in Nat, NEW price \in Nat, NEW fee \in Nat
  PROVE  CashAfter(s, side, q, price, fee) \in Int /\ QtyAfter(s, side, q) \in Int
<1>1. Times(q, price) \in Nat
  BY TimesNear
<1> QED
  BY <1>1 DEF CashAfter, QtyAfter

\* A terminal record is put before the others.
LEMMA OrdersAfter ==
  ASSUME NEW orders, orders \in Seq(ToSet(orders)), NEW o
  PROVE  /\ Slice(<<o>> \o orders) \in Seq(ToSet(Slice(<<o>> \o orders)))
         /\ Len(Slice(<<o>> \o orders)) <= Capacity
         /\ ToSet(Slice(<<o>> \o orders)) \subseteq {o} \cup ToSet(orders)
<1> DEFINE T == {o} \cup ToSet(orders)
           c == <<o>> \o orders
<1>1. orders \in Seq(T) /\ o \in T
  OBVIOUS
<1> HIDE DEF T
<1>2. c \in Seq(T)
  BY <1>1, Prepended
<1> HIDE DEF c
<1>3. Slice(c) \in Seq(T) /\ Len(Slice(c)) <= Capacity
  BY <1>2, Sliced
<1>4. Slice(c) \in Seq(ToSet(Slice(c))) /\ ToSet(Slice(c)) \subseteq T
  BY <1>3, ToSetOf
<1> QED
  BY <1>3, <1>4 DEF c, T

\* The same, with an older record of the key taken out first.
LEMMA OrdersReplaced ==
  ASSUME NEW orders, orders \in Seq(ToSet(orders)), NEW o, NEW k
  PROVE  LET c == Slice(<<o>> \o Without(orders, k))
         IN  /\ c \in Seq(ToSet(c)) /\ Len(c) <= Capacity
             /\ ToSet(c) \subseteq {o} \cup ToSet(orders)
<1>1. Without(orders, k) \in Seq(ToSet(orders))
  BY Filtered
<1>2. Without(orders, k) \in Seq(ToSet(Without(orders, k))) /\ ToSet(Without(orders, k)) \subseteq ToSet(orders)
  BY <1>1, ToSetOf
<1> QED
  BY <1>2, OrdersAfter

\* A fill of a working order, at once whole, in part, or up to its budget.
LEMMA FillFollows ==
  ASSUME Inv, NEW s, Follows(s), s.fills = mem.fills, s.cash = mem.cash,
         NEW w \in Workings, Carried(w), NEW rest \in Workings, rest.key = w.key, Carried(rest),
         NEW f, FillType(f), f.key = w.key, f.side = w.side, f \notin ledger,
         f.quote = 0 \/ w.cursor < f.quote, f.quote <= rest.cursor, NEW status
  PROVE  LET n == AfterFill(s, w, f, status, rest) IN Follows(n) /\ Filled(n)
<1> DEFINE n == AfterFill(s, w, f, status, rest)
<1>1. StateType(s, clock) /\ ToSet(mem.keys) \subseteq ToSet(s.keys) /\ \A v \in ToSet(s.working) : Carried(v)
  BY DEF Follows
<1>2. /\ DOMAIN n = Fields /\ n.cash = CashAfter(s, w.side, f.qty, f.price, f.fee)
      /\ n.qty = QtyAfter(s, w.side, f.qty) /\ n.keys = s.keys /\ n.at = clock /\ n.fills = <<f>> \o s.fills
      /\ n.working = IF status = "PARTIALLY_FILLED" THEN Replacing(s.working, rest)
                                                    ELSE Without(s.working, w.key)
      /\ \/ n.orders = s.orders
         \/ \E o : n.orders = Slice(<<o>> \o Without(s.orders, w.key))
  BY DEF AfterFill, Fields
<1> HIDE DEF n
<1>3. n.cash \in Int /\ n.qty \in Int /\ n.at \in 0..clock
  <2>1. s.cash \in Int /\ s.qty \in Int /\ f.qty \in Nat /\ f.price \in Nat /\ f.fee \in Nat
    BY <1>1 DEF StateType, FillType
  <2>2. clock \in 0..clock
    BY AmountAssumption DEF Inv
  <2> QED
    BY <1>2, <2>1, <2>2, AmountsAfter
<1>4. n.orders \in Seq(ToSet(n.orders)) /\ Len(n.orders) <= Capacity
  BY <1>1, <1>2, OrdersReplaced DEF StateType
<1>5. n.fills \in Seq(ToSet(n.fills)) /\ ToSet(n.fills) = ToSet(mem.fills) \cup {f}
  <2> DEFINE T == {f} \cup ToSet(s.fills)
  <2>1. s.fills \in Seq(T) /\ f \in T
    BY <1>1 DEF StateType
  <2> HIDE DEF T
  <2>2. n.fills \in Seq(T) /\ ToSet(n.fills) = {f} \cup ToSet(s.fills)
    BY <1>2, <2>1, Prepended
  <2> QED
    BY <2>2, ToSetOf
<1>6. /\ n.working \in Seq(Workings) /\ Len(n.working) <= Capacity
      /\ \A v \in ToSet(n.working) : Carried(v) /\ (v.key = f.key => v = rest)
  <2>0. s.working \in Seq(Workings) /\ Len(s.working) <= Capacity /\ Len(s.working) \in Nat
    BY <1>1 DEF StateType
  <2>1. CASE status = "PARTIALLY_FILLED"
    BY <1>1, <1>2, <2>0, <2>1, Replaced
  <2>2. CASE status # "PARTIALLY_FILLED"
    <3>1. n.working \in Seq(Workings) /\ Len(n.working) <= Len(s.working)
          /\ \A v \in ToSet(n.working) : v \in ToSet(s.working) /\ v.key # w.key
      BY <1>2, <2>0, <2>2, Filtered
    <3>2. Len(n.working) <= Capacity
      BY <2>0, <3>1, AmountAssumption
    <3> QED
      BY <1>1, <3>1, <3>2
  <2> QED
    BY <2>1, <2>2
<1>7. Follows(n)
  BY <1>1, <1>2, <1>3, <1>4, <1>5, <1>6 DEF Follows, StateType
<1>8. Fresh(f, n)
  <2>1. f.key \notin ToSet(mem.keys) \/ f.key \in KeysOf(mem.working)
    BY DEF Carried, KeysOf
  <2>2. ASSUME f.quote # 0, NEW g \in ledger, g.key = f.key PROVE g.quote < f.quote
    <3>1. w.cursor \in Nat /\ f.quote \in Nat /\ g.quote \in Nat
      BY DEF Workings, FillType, Inv, Ledger
    <3>2. g.quote <= w.cursor
      BY <2>2, <3>1, CarriedCursor DEF Cursor
    <3> QED
      BY <2>2, <3>1, <3>2
  <2>3. \A v \in ToSet(n.working) : v.key = f.key => f.quote <= v.cursor
    BY <1>6
  <2> QED
    BY <2>1, <2>2, <2>3 DEF Fresh
<1>9. Filled(n)
  <2>1. n.cash = CashAfter(mem, f.side, f.qty, f.price, f.fee)
    BY <1>2 DEF CashAfter
  <2> QED
    BY <1>5, <1>8, <2>1 DEF Filled
<1> QED
  BY <1>7, <1>9 DEF n

\* A working order is cancelled.
LEMMA CancelFollows ==
  ASSUME Inv, NEW s, Follows(s), s.fills = mem.fills, s.cash = mem.cash, NEW w, NEW price
  PROVE  LET n == Cancelled(s, w, price) IN Follows(n) /\ Filled(n)
<1> DEFINE n == Cancelled(s, w, price)
<1>1. StateType(s, clock) /\ ToSet(mem.keys) \subseteq ToSet(s.keys) /\ \A v \in ToSet(s.working) : Carried(v)
  BY DEF Follows
<1>2. /\ DOMAIN n = Fields /\ n.cash = s.cash /\ n.qty = s.qty /\ n.keys = s.keys /\ n.at = clock
      /\ n.fills = mem.fills /\ n.working = Without(s.working, w.key)
      /\ \E o : n.orders = Slice(<<o>> \o Without(s.orders, w.key))
  BY <1>1 DEF Cancelled, StateType, Fields
<1> HIDE DEF n
<1>3. n.orders \in Seq(ToSet(n.orders)) /\ Len(n.orders) <= Capacity
  BY <1>1, <1>2, OrdersReplaced DEF StateType
<1>4. /\ n.working \in Seq(Workings) /\ Len(n.working) <= Capacity
      /\ \A v \in ToSet(n.working) : Carried(v)
  <2>0. s.working \in Seq(Workings) /\ Len(s.working) <= Capacity /\ Len(s.working) \in Nat
    BY <1>1 DEF StateType
  <2>1. n.working \in Seq(Workings) /\ Len(n.working) <= Len(s.working)
        /\ \A v \in ToSet(n.working) : v \in ToSet(s.working)
    BY <1>2, <2>0, Filtered
  <2>2. Len(n.working) <= Capacity
    BY <2>0, <2>1, AmountAssumption
  <2> QED
    BY <1>1, <2>1, <2>2
<1>5. clock \in 0..clock
  BY AmountAssumption DEF Inv
<1>6. Follows(n)
  BY <1>1, <1>2, <1>3, <1>4, <1>5 DEF Follows, StateType
<1>7. Filled(n)
  BY <1>2 DEF Filled
<1> QED
  BY <1>6, <1>7 DEF n

-----------------------------------------------------------------------------
(* The fills that the orders of a computed state have.                     *)

\* the same order, later
SameTerms(v, w) ==
    /\ v.key = w.key /\ v.side = w.side /\ v.strategy = w.strategy
    /\ v.requested = w.requested /\ v.alloc = w.alloc

\* Without a new fill, an order that goes on or ends fits.
LEMMA SameFits ==
  ASSUME Inv, NEW s, NEW w, WorkingHeld(w, s), s.fills = mem.fills, NEW n, n.fills = mem.fills,
         NEW e, SameTerms(e, w)
  PROVE  Fits(e, n)
<1>1. ledger \cup ToSet(n.fills) = ledger
  BY DEF Inv, Account
<1>2. FillsOf(ledger, e.key) \subseteq ToSet(n.fills) /\ Paid(e, ledger)
  BY DEF WorkingHeld, Entry, Paid, SameTerms
<1> QED
  BY <1>1, <1>2 DEF Fits

\* An entry of the working orders is replaced.
LEMMA ReplacedKept ==
  ASSUME Inv, NEW s, Follows(s), s.fills = mem.fills, Held(s), NEW w, WorkingHeld(w, s),
         NEW v \in Workings, SameTerms(v, w), v.budget = w.budget
  PROVE  Kept([s EXCEPT !.working = Replacing(s.working, v), !.at = clock])
<1> DEFINE n == [s EXCEPT !.working = Replacing(s.working, v), !.at = clock]
<1>1. StateType(s, clock)
  BY DEF Follows
<1>2. n.orders = s.orders /\ n.fills = mem.fills /\ n.working = Replacing(s.working, v)
  BY <1>1 DEF StateType, Fields
<1> HIDE DEF n
<1>3. \A u \in ToSet(n.working) : u = v \/ u \in ToSet(s.working)
  BY <1>1, <1>2, Replaced DEF StateType
<1>4. Fits(v, n)
  BY <1>2, SameFits
<1>5. Budgeted(v, ledger \cup ToSet(n.fills))
  <2>1. ledger \cup ToSet(n.fills) = ledger
    BY <1>2 DEF Inv, Account
  <2> QED
    BY <2>1 DEF WorkingHeld, Budgeted, SameTerms
<1>6. KeptFrom(s, n)
  BY <1>2, <1>3, <1>4, <1>5 DEF KeptFrom
<1> QED
  BY <1>6 DEF Kept, n

\* A working order is cancelled.
LEMMA CancelKept ==
  ASSUME Inv, NEW s, Follows(s), s.fills = mem.fills, Held(s), NEW w, WorkingHeld(w, s), NEW price
  PROVE  Kept(Cancelled(s, w, price))
<1> DEFINE n == Cancelled(s, w, price)
           o == [Terminal(w, "CANCELLED", FillsOf(ToSet(s.fills), w.key), 0) EXCEPT !.price = price]
<1>1. StateType(s, clock)
  BY DEF Follows
<1>2. /\ n.fills = mem.fills /\ n.working = Without(s.working, w.key)
      /\ n.orders = Slice(<<o>> \o Without(s.orders, w.key))
  BY <1>1 DEF Cancelled, StateType, Fields
<1>3. SameTerms(o, w)
  BY DEF SameTerms, Terminal
<1> HIDE DEF n, o
<1>4. \A u \in ToSet(n.orders) : u = o \/ u \in ToSet(s.orders)
  BY <1>1, <1>2, OrdersReplaced DEF StateType
<1>5. \A u \in ToSet(n.working) : u \in ToSet(s.working)
  BY <1>1, <1>2, Filtered DEF StateType
<1>6. Fits(o, n)
  BY <1>2, <1>3, SameFits
<1>7. KeptFrom(s, n)
  BY <1>2, <1>4, <1>5, <1>6 DEF KeptFrom
<1> QED
  BY <1>7 DEF Kept, n

\* A working order is filled, within its rest, its budget and a tolerance.
LEMMA FillKept ==
  ASSUME Inv, NEW s, Follows(s), s.fills = mem.fills, Held(s), NEW w \in Workings, WorkingHeld(w, s),
         NEW rest \in Workings, SameTerms(rest, w), NEW f, FillType(f), f.key = w.key, f \notin ledger,
         f.qty <= w.requested - w.filled,
         w.strategy /\ w.side = "BUY" =>
           /\ w.budget > 0 /\ Times(f.qty, f.price) <= w.budget + Overrun
           /\ rest.budget = Max({0, w.budget - Times(f.qty, f.price)}),
         NEW status
  PROVE  Kept(AfterFill(s, w, f, status, rest))
<1> DEFINE n == AfterFill(s, w, f, status, rest)
           o == Terminal(w, status, FillsOf(ToSet(s.fills), w.key) \cup {f}, 0)
           F == FillsOf(ledger, w.key)
<1>1. StateType(s, clock)
  BY DEF Follows
<1>2. /\ n.fills = <<f>> \o s.fills
      /\ n.working = IF status = "PARTIALLY_FILLED" THEN Replacing(s.working, rest)
                                                    ELSE Without(s.working, w.key)
      /\ n.orders = s.orders \/ n.orders = Slice(<<o>> \o Without(s.orders, w.key))
  BY DEF AfterFill
<1>3. SameTerms(o, w)
  BY DEF SameTerms, Terminal
<1> HIDE DEF n, o
<1>4. ToSet(n.fills) = {f} \cup ToSet(s.fills)
  <2> DEFINE T == {f} \cup ToSet(s.fills)
  <2>1. s.fills \in Seq(T) /\ f \in T
    BY <1>1 DEF StateType
  <2> HIDE DEF T
  <2> QED
    BY <1>2, <2>1, Prepended
<1>5. F \subseteq ToSet(s.fills) /\ Quantity(F) = w.filled /\ Paid(w, ledger)
      /\ (w.strategy /\ w.side = "BUY" => w.budget + Charged(F) = w.alloc)
  BY DEF WorkingHeld, Entry, Budgeted
<1>6. /\ IsFiniteSet(F) /\ Quantity(F) \in Nat /\ Charged(F) \in Nat
      /\ \A g \in F : Amounts(g)
  BY <1>5, EntrySums
<1>7. f.qty \in Nat /\ Times(f.qty, f.price) \in Nat /\ Amounts(f) /\ f \notin F
  <2>1. Amounts(f) /\ f \notin F
    BY DEF FillType, Amounts, FillsOf
  <2> QED
    BY <2>1, Contributions
<1>8. FillsOf(ledger \cup ToSet(n.fills), w.key) = F \cup {f}
  <2>1. ToSet(s.fills) \subseteq ledger
    BY DEF Inv, Account
  <2> QED
    BY <1>4, <2>1 DEF FillsOf
<1>9. F \cup {f} \subseteq ToSet(n.fills)
  BY <1>4, <1>5
<1>10. w.requested \in Int /\ w.filled \in Nat /\ w.alloc \in Int /\ w.budget \in Int
  BY DEF Workings
<1> HIDE DEF F
<1>a. Quantity(F \cup {f}) = Quantity(F) + f.qty /\ Charged(F \cup {f}) = Charged(F) + Times(f.qty, f.price)
  BY <1>6, <1>7, FillAdded
<1>11. Quantity(F \cup {f}) <= w.requested
  BY <1>5, <1>7, <1>10, <1>a
<1>12. ASSUME w.strategy, w.side = "BUY"
       PROVE  /\ Charged(F \cup {f}) <= w.alloc + Overrun
              /\ rest.budget > 0 => rest.budget + Charged(F \cup {f}) = w.alloc
  <2> DEFINE m == Times(f.qty, f.price)
             c == Charged(F)
  <2>1. /\ m <= w.budget + Overrun /\ w.budget + c = w.alloc /\ m \in Nat /\ c \in Nat
        /\ rest.budget = Max({0, w.budget - m}) /\ Charged(F \cup {f}) = c + m
    BY <1>5, <1>6, <1>7, <1>12, <1>a
  <2>2. Overrun \in Nat
    BY AmountAssumption
  <2> HIDE DEF m, c
  <2>3. rest.budget = IF 0 <= w.budget - m THEN w.budget - m ELSE 0
    BY <1>10, <2>1, MaxOfTwo
  <2> QED
    BY <1>10, <2>1, <2>2, <2>3
<1>13. ASSUME NEW e, SameTerms(e, w) PROVE Fits(e, n)
  BY <1>8, <1>9, <1>11, <1>12, <1>13 DEF Fits, Paid, SameTerms
<1>14. \A u \in ToSet(n.orders) : u = o \/ u \in ToSet(s.orders)
  BY <1>1, <1>2, OrdersReplaced DEF StateType
<1>15. \A u \in ToSet(n.working) : u = rest \/ u \in ToSet(s.working)
  BY <1>1, <1>2, Filtered, Replaced DEF StateType
<1>16. \A k : FillsOf(ToSet(s.fills), k) \subseteq FillsOf(ToSet(n.fills), k)
  BY <1>4 DEF FillsOf
<1>b. Budgeted(rest, ledger \cup ToSet(n.fills))
  BY <1>8, <1>12 DEF Budgeted, SameTerms
<1>17. KeptFrom(s, n)
  BY <1>3, <1>13, <1>14, <1>15, <1>16, <1>b DEF KeptFrom
<1> QED
  BY <1>17 DEF Kept, n

\* The ledger has no fill of a key that was not processed.
LEMMA NewKey ==
  ASSUME Inv, NEW k, k \notin ToSet(mem.keys)
  PROVE  FillsOf(ledger, k) = {}
BY DEF Inv, Ledger, Ahead, FillsOf

\* A new order has nothing filled, nothing spent.
LEMMA OpenedHeld ==
  ASSUME Inv, NEW w \in Workings, w.key \notin ToSet(mem.keys),
         w.filled = 0, w.budget = w.alloc, 0 <= w.requested, 0 <= w.alloc
  PROVE  LET n == [mem EXCEPT !.working = Slice(<<w>> \o mem.working),
                              !.keys = <<w.key>> \o mem.keys, !.at = clock]
         IN  Held(n) /\ WorkingHeld(w, n)
<1> DEFINE n == [mem EXCEPT !.working = Slice(<<w>> \o mem.working),
                            !.keys = <<w.key>> \o mem.keys, !.at = clock]
<1>1. StateType(mem, clock) /\ Held(mem) /\ w.key \in Keys /\ w.alloc \in Int
  BY DEF Inv, Account, Workings
<1>2. n.orders = mem.orders /\ n.fills = mem.fills /\ n.keys = <<w.key>> \o mem.keys
  BY <1>1 DEF StateType, Fields
<1>3. ToSet(n.working) \subseteq {w} \cup ToSet(mem.working)
  BY OpenedFollows
<1>4. ToSet(n.keys) = {w.key} \cup ToSet(mem.keys)
  BY <1>1, <1>2, Prepended DEF StateType
<1> HIDE DEF n
<1>5. FillsOf(ledger, w.key) = {}
  BY NewKey
<1>6. WorkingHeld(w, n)
  <2>1. w.budget + 0 = w.alloc /\ 0 <= w.alloc + Overrun
    BY <1>1, AmountAssumption
  <2> QED
    BY <1>4, <1>5, <2>1, NoFills DEF WorkingHeld, Entry, Paid, Budgeted
<1>7. \A o \in ToSet(n.orders) : Entry(o, o.qty, n)
  BY <1>1, <1>2, <1>4 DEF Held, Entry
<1>8. \A v \in ToSet(n.working) : WorkingHeld(v, n)
  BY <1>1, <1>2, <1>3, <1>4, <1>6 DEF Held, WorkingHeld, Entry
<1> QED
  BY <1>6, <1>7, <1>8 DEF Held, n

\* A held state without a new fill is kept.
LEMMA HeldKept ==
  ASSUME Inv, NEW s, Held(s), s.fills = mem.fills
  PROVE  Kept(s)
BY DEF Kept, KeptFrom

\* a state that a strategy order is advanced from
Base(s) ==
    /\ Follows(s) /\ s.fills = mem.fills /\ s.cash = mem.cash /\ s.qty = mem.qty
    /\ \A v \in ToSet(s.working) : v.filled < v.requested
    /\ Held(s)

-----------------------------------------------------------------------------
(* The calls, one by one.                                                  *)

\* A fee is an amount.
LEMMA FeeTypes ==
  ASSUME NEW q \in Nat, NEW price \in Nat
  PROVE  WorkingFee(q, price) \in Nat /\ ExecuteFee(q, price) \in Nat
<1>1. Scale \in Nat \ {0} /\ FeeRate \in Nat /\ Times(q, price) \in Nat
  BY AmountAssumption, TimesNear
<1>2. Scale * Scale \in Nat \ {0}
  BY <1>1
<1>3. q * price * FeeRate \in Nat /\ Times(q, price) * FeeRate \in Nat
  BY <1>1
<1> QED
  BY <1>1, <1>2, <1>3, RoundType DEF WorkingFee, ExecuteFee

\* validateState refuses a fill whose id the state has already, and one without a price.
LEMMA FillNew ==
  ASSUME Inv, NEW s, Follows(s), s.fills = mem.fills, NEW w, WorkingHeld(w, s),
         NEW f, f.key = w.key, NEW status, NEW rest, validateState(AfterFill(s, w, f, status, rest))
  PROVE  f \notin ledger /\ f.price > 0
<1> DEFINE n == AfterFill(s, w, f, status, rest)
           T == {f} \cup ToSet(s.fills)
<1>1. n.fills = <<f>> \o s.fills
  BY DEF AfterFill
<1>2. Cardinality({g.id : g \in ToSet(n.fills)}) = Len(n.fills) /\ \A g \in ToSet(n.fills) : g.price > 0
  BY DEF validateState
<1>3. s.fills \in Seq(T) /\ f \in T
  BY DEF Follows, StateType
<1> HIDE DEF n, T
<1>4. f \in ToSet(n.fills)
  BY <1>1, <1>3, Prepended
<1>5. f \notin ToSet(s.fills)
  BY <1>1, <1>2, <1>3, FirstIdOnce
<1>6. f \notin ledger
  BY <1>5 DEF WorkingHeld, Entry, FillsOf
<1> QED
  BY <1>2, <1>4, <1>6

\* executeOrder.
LEMMA ExecuteStep ==
  ASSUME Inv, NEW k \in Keys, NEW side \in Sides, NEW q \in Quantities, NEW price \in Prices,
         Execute(k, side, q, price)
  PROVE  Step
<1> DEFINE p == ModeledPrice(side, price)
           w == [key |-> k, side |-> side, requested |-> q, alloc |-> 0, strategy |-> FALSE]
           fee == ExecuteFee(q, p)
           f == Fill([key |-> k, n |-> 0], w, q, p, fee, 0, 0)
           n == [cash |-> CashAfter(mem, side, q, p, fee),
                 qty |-> QtyAfter(mem, side, q),
                 orders |-> Slice(<<Terminal(w, "FILLED", {f}, p)>> \o mem.orders),
                 fills |-> Slice(<<f>> \o mem.fills),
                 working |-> mem.working,
                 keys |-> <<k>> \o mem.keys,
                 at |-> clock]
<1>1. k \notin ToSet(mem.keys) /\ p > 0 /\ Persist("execute", n)
  BY DEF Execute
<1>a. q \in Nat \ {0} /\ p \in Int /\ clock \in 0..clock
  BY AmountAssumption DEF ModeledPrice, Inv
<1> HIDE DEF p
<1>2. q \in Nat \ {0} /\ p \in Nat \ {0} /\ fee \in Nat /\ clock \in 0..clock
  BY <1>1, <1>a, FeeTypes
<1> HIDE DEF fee
<1>3. FillType(f) /\ f.key = k /\ f.quote = 0
  BY <1>2 DEF FillType, Fill
<1> DEFINE o == Terminal(w, "FILLED", {f}, p)
<1>o. /\ o.key = k /\ o.requested = q /\ o.strategy = FALSE
      /\ f.qty = q /\ f.price = p /\ f.side = side /\ f.fee = fee
  BY DEF Terminal, Fill
<1> HIDE DEF f, w
<1>4. /\ DOMAIN n = Fields /\ n.cash = CashAfter(mem, side, q, p, fee) /\ n.qty = QtyAfter(mem, side, q)
      /\ n.orders = Slice(<<o>> \o mem.orders)
      /\ n.fills = Slice(<<f>> \o mem.fills) /\ n.working = mem.working
      /\ n.keys = <<k>> \o mem.keys /\ n.at = clock
  BY DEF Fields
<1> HIDE DEF n, o
<1>5. StateType(mem, clock) /\ \A v \in ToSet(mem.working) : Carried(v)
  BY MemFollows DEF Follows
<1>6. n.cash \in Int /\ n.qty \in Int
  <2>1. mem.cash \in Int /\ mem.qty \in Int
    BY <1>5 DEF StateType
  <2> QED
    BY <1>2, <1>4, <2>1, AmountsAfter
<1>7. /\ n.orders \in Seq(ToSet(n.orders)) /\ Len(n.orders) <= Capacity
      /\ ToSet(n.orders) \subseteq {o} \cup ToSet(mem.orders)
  BY <1>4, <1>5, OrdersAfter DEF StateType
<1>8. n.keys \in Seq(Keys) /\ ToSet(mem.keys) \subseteq ToSet(n.keys)
  BY <1>4, <1>5, Prepended DEF StateType
<1>9. /\ n.fills \in Seq(ToSet(n.fills)) /\ ToSet(n.fills) \subseteq ToSet(mem.fills) \cup {f}
      /\ f \in ToSet(n.fills)
  <2> DEFINE T == {f} \cup ToSet(mem.fills)
             c == <<f>> \o mem.fills
  <2>1. mem.fills \in Seq(T) /\ f \in T
    BY <1>5 DEF StateType
  <2> HIDE DEF T
  <2>2. c \in Seq(T) /\ ToSet(c) = {f} \cup ToSet(mem.fills)
    BY <2>1, Prepended
  <2>6. f \in ToSet(Slice(c))
    BY <2>1, FirstKept
  <2> HIDE DEF c
  <2>3. Slice(c) \in Seq(T) /\ ToSet(Slice(c)) \subseteq ToSet(c)
    BY <2>2, Sliced
  <2>4. Slice(c) \in Seq(ToSet(Slice(c)))
    BY <2>3, ToSetOf
  <2>5. n.fills = Slice(c)
    BY <1>4 DEF c
  <2> QED
    BY <2>2, <2>3, <2>4, <2>5, <2>6
<1>10. Follows(n)
  BY <1>2, <1>4, <1>5, <1>6, <1>7, <1>8, <1>9 DEF Follows, StateType
<1>11. Fresh(f, n)
  <2>1. ASSUME NEW v \in ToSet(mem.working) PROVE 0 <= v.cursor
    <3>1. v \in Workings
      BY <1>5, ToSetOf DEF StateType
    <3> QED
      BY <3>1 DEF Workings
  <2> QED
    BY <1>1, <1>3, <1>4, <2>1 DEF Fresh
<1>b. f \notin ledger
  BY <1>1, <1>3, NewKey DEF FillsOf
<1>c. n.cash = CashAfter(mem, f.side, f.qty, f.price, f.fee)
  BY <1>4, <1>o
<1>12. Fits(o, n)
  <2> DEFINE F == FillsOf(ledger \cup ToSet(n.fills), k)
  <2>1. FillsOf(ledger, k) = {} /\ ToSet(mem.fills) \subseteq ledger
    BY <1>1, NewKey DEF Inv, Account
  <2>2. F \subseteq ToSet(n.fills) /\ F \subseteq {f}
    BY <1>9, <2>1 DEF FillsOf
  <2>3. Quantity({} \cup {f}) = Quantity({}) + f.qty
    <3>1. IsFiniteSet({}) /\ Amounts(f)
      BY <1>2, <1>o, FS_EmptySet DEF Amounts
    <3> QED
      BY <3>1, FillAdded
  <2>4. {} \cup {f} = {f} /\ (F = {} \/ F = {f})
    BY <2>2
  <2> HIDE DEF F
  <2>5. Quantity(F) <= q
    BY <1>2, <1>o, <2>3, <2>4, NoFills
  <2> QED
    BY <1>o, <2>2, <2>5 DEF Fits, Paid, F
<1>13. KeptFrom(mem, n)
  <2>1. ASSUME NEW e \in ToSet(mem.orders) \cup ToSet(mem.working)
        PROVE  FillsOf(ToSet(n.fills), e.key) \subseteq FillsOf(ToSet(mem.fills), e.key)
    <3>1. e.key # k
      BY <1>1 DEF Inv, Held, WorkingHeld, Entry
    <3> QED
      BY <1>3, <1>9, <3>1 DEF FillsOf
  <2> QED
    BY <1>4, <1>7, <1>12, <2>1 DEF KeptFrom
<1>14. Kept(n)
  BY <1>13 DEF Kept, Inv
<1>15. Filled(n)
  BY <1>9, <1>11, <1>b, <1>c DEF Filled
<1> QED
  BY <1>1, <1>10, <1>14, <1>15, PersistStep

\* openLimitOrder: validateState refuses a key that is processed already.
LEMMA OpenLimitStep ==
  ASSUME Inv, NEW k \in Keys, NEW side \in Sides, NEW q \in Quantities, NEW limit \in Prices,
         OpenLimit(k, side, q, limit)
  PROVE  Step
<1> DEFINE w == [key |-> k, side |-> side, strategy |-> FALSE, limit |-> limit,
                 requested |-> q, filled |-> 0, ticks |-> 0, alloc |-> 0,
                 budget |-> 0, cursor |-> 0]
           n == [mem EXCEPT !.working = Slice(<<w>> \o mem.working),
                            !.keys = <<k>> \o mem.keys, !.at = clock]
<1>1. Persist("open", n)
  BY DEF OpenLimit
<1>2. /\ w \in Workings /\ w.key = k
      /\ w.filled = 0 /\ w.budget = w.alloc /\ 0 <= w.requested /\ 0 <= w.alloc
  BY AmountAssumption DEF Workings
<1>3. StateType(mem, clock)
  BY DEF Inv, Account
<1>4. n.keys = <<k>> \o mem.keys
  BY <1>3 DEF StateType, Fields
<1> HIDE DEF w
<1>5. ASSUME validateState(n) PROVE Follows(n) /\ Filled(n) /\ Kept(n)
  <2>1. Cardinality(ToSet(n.keys)) = Len(n.keys)
    BY <1>5 DEF validateState, ProcessedOnce
  <2>2. k \notin ToSet(mem.keys)
    BY <1>3, <1>4, <2>1, FirstOnce DEF StateType
  <2>3. Follows(n) /\ n.fills = mem.fills /\ n.cash = mem.cash
    BY <1>2, <2>2, OpenedFollows
  <2>4. Held(n)
    BY <1>2, <2>2, OpenedHeld
  <2> HIDE DEF n
  <2>5. Kept(n)
    BY <2>3, <2>4, HeldKept
  <2> QED
    BY <2>3, <2>5 DEF Filled
<1> HIDE DEF n
<1> QED
  BY <1>1, <1>5, PersistStep

\* cancelWorkingOrder.
LEMMA CancelStep ==
  ASSUME Inv, NEW w \in ToSet(mem.working), Cancel(w)
  PROVE  Step
<1>1. PICK price : Persist("cancel", Cancelled(mem, w, price))
  BY DEF Cancel
<1>2. Follows(Cancelled(mem, w, price)) /\ Filled(Cancelled(mem, w, price))
  BY MemFollows, CancelFollows
<1>3. Held(mem) /\ WorkingHeld(w, mem)
  BY DEF Inv, Held
<1>4. Kept(Cancelled(mem, w, price))
  BY <1>3, MemFollows, CancelKept
<1> QED
  BY <1>1, <1>2, <1>4, PersistStep

\* A fill of half of the order or more is never rounded down to nothing.
LEMMA ModeledSome ==
  ASSUME NEW rem \in Nat \ {0}, NEW q \in Nat \ {0}, FillDiv <= 2
  PROVE  ModeledQty(rem, q) > 0
<1>1. FillDiv = 1 \/ FillDiv = 2
  BY AmountAssumption
<1>2. Round(q, FillDiv) \in Nat \ {0}
  <2>1. (2 * q + 1) \div 2 > 0 /\ (2 * q + 2) \div 4 > 0
    OBVIOUS
  <2>2. Round(q, FillDiv) > 0
    BY <1>1, <2>1 DEF Round
  <2> QED
    BY <2>2, RoundType, AmountAssumption
<1> QED
  BY <1>2, MinOfTwo DEF ModeledQty

\* What deterministicFill returns.
LEMMA ModeledTypes ==
  ASSUME NEW side \in Sides, NEW price \in Prices, NEW rem \in Int, NEW q \in Nat
  PROVE  ModeledPrice(side, price) \in Int /\ ModeledQty(rem, q) \in Int /\ ModeledQty(rem, q) <= rem
<1>1. Round(q, FillDiv) \in Nat
  BY RoundType, AmountAssumption
<1>2. ModeledQty(rem, q) \in Int /\ ModeledQty(rem, q) <= rem
  BY <1>1, MinOfTwo DEF ModeledQty
<1>3. ModeledPrice(side, price) \in Int
  BY AmountAssumption DEF ModeledPrice
<1> QED
  BY <1>2, <1>3

\* An order may be advanced from memory as it is.
LEMMA MemBase == ASSUME Inv PROVE Base(mem)
BY MemFollows DEF Inv, Account, Base

\* One field of a working order changes.
LEMMA WorkingUpdated ==
  ASSUME NEW w \in Workings
  PROVE  /\ \A x \in Nat : LET v == [w EXCEPT !.ticks = x]
                          IN  /\ v \in Workings /\ SameTerms(v, w) /\ v.key = w.key
                              /\ v.cursor = w.cursor /\ v.filled = w.filled /\ v.budget = w.budget
         /\ \A x \in Nat : LET v == [w EXCEPT !.filled = x]
                          IN  /\ v \in Workings /\ SameTerms(v, w) /\ v.key = w.key
                              /\ v.cursor = w.cursor /\ v.filled = x /\ v.budget = w.budget
         /\ \A x \in Int : LET v == [w EXCEPT !.budget = x]
                          IN  /\ v \in Workings /\ SameTerms(v, w) /\ v.key = w.key
                              /\ v.cursor = w.cursor /\ v.filled = w.filled /\ v.budget = x
         /\ \A x \in Nat : LET v == [w EXCEPT !.cursor = x]
                          IN  /\ v \in Workings /\ SameTerms(v, w) /\ v.key = w.key
                              /\ v.cursor = x /\ v.filled = w.filled /\ v.budget = w.budget
<1>1. \A x \in Nat : LET v == [w EXCEPT !.ticks = x]
                  IN  /\ v \in Workings /\ SameTerms(v, w) /\ v.key = w.key
                      /\ v.cursor = w.cursor /\ v.filled = w.filled /\ v.budget = w.budget
  BY DEF Workings, SameTerms
<1>2. \A x \in Nat : LET v == [w EXCEPT !.filled = x]
                  IN  /\ v \in Workings /\ SameTerms(v, w) /\ v.key = w.key
                      /\ v.cursor = w.cursor /\ v.filled = x /\ v.budget = w.budget
  BY DEF Workings, SameTerms
<1>3. \A x \in Int : LET v == [w EXCEPT !.budget = x]
                  IN  /\ v \in Workings /\ SameTerms(v, w) /\ v.key = w.key
                      /\ v.cursor = w.cursor /\ v.filled = w.filled /\ v.budget = x
  BY DEF Workings, SameTerms
<1>4. \A x \in Nat : LET v == [w EXCEPT !.cursor = x]
                  IN  /\ v \in Workings /\ SameTerms(v, w) /\ v.key = w.key
                      /\ v.cursor = x /\ v.filled = w.filled /\ v.budget = w.budget
  BY DEF Workings, SameTerms
<1> QED
  BY <1>1, <1>2, <1>3, <1>4

\* fillWorkingOrder.
LEMMA FillLimitStep ==
  ASSUME Inv, NEW w \in ToSet(mem.working), NEW q \in Quantities, NEW price \in Prices,
         NEW e \in Events \cup {0}, FillLimit(w, q, price, e)
  PROVE  Step
<1> DEFINE p == ModeledPrice(w.side, price)
           rem == w.requested - w.filled
           take == ModeledQty(Min({q, rem}), w.requested)
           f == Fill(IF e = 0 THEN NextFillId(mem, w.key) ELSE [key |-> None, n |-> e],
                     w, take, p, WorkingFee(take, p), 0, 0)
           ticked == [w EXCEPT !.ticks = w.ticks + 1]
           rest == [ticked EXCEPT !.filled = w.filled + take]
           status == IF take = rem THEN "FILLED" ELSE "PARTIALLY_FILLED"
<1>1. w \in Workings /\ w.filled < w.requested /\ Carried(w) /\ Follows(mem)
  BY MemFollows, ToSetOf DEF Inv, Account, StateType, Follows
<1>a. Held(mem) /\ WorkingHeld(w, mem) /\ ~w.strategy
  BY DEF Inv, Held, FillLimit
<1>b. w.ticks + 1 \in Nat
  BY <1>1 DEF Workings
<1>2. /\ ticked \in Workings /\ SameTerms(ticked, w) /\ ticked.key = w.key /\ ticked.cursor = w.cursor
      /\ ticked.filled = w.filled /\ ticked.budget = w.budget
  BY <1>1, <1>b, WorkingUpdated
<1>3. Carried(ticked)
  BY <1>1, <1>2 DEF Carried
<1>4. CASE Persist("tick", [mem EXCEPT !.working = Replacing(mem.working, ticked), !.at = clock])
  <2> DEFINE n == [mem EXCEPT !.working = Replacing(mem.working, ticked), !.at = clock]
  <2>1. Follows(n)
    BY <1>1, <1>2, <1>3, ReplacedFollows
  <2>2. n.fills = mem.fills /\ n.cash = mem.cash
    BY DEF Inv, Account, StateType, Fields
  <2>3. Kept(n)
    BY <1>1, <1>2, <1>a, ReplacedKept
  <2> HIDE DEF n
  <2> QED
    BY <1>4, <2>1, <2>2, <2>3, PersistStep DEF Filled, n
<1>5. CASE /\ take > 0 /\ p > 0
           /\ Persist("fill", AfterFill(mem, w, f, status, rest))
  <2>1. /\ w.requested \in Nat /\ w.filled \in Nat /\ w.cursor \in Nat /\ rem \in Int
        /\ w.side \in Sides /\ w.key \in Keys /\ q \in Int
    BY <1>1, AmountAssumption DEF Workings
  <2>2. Min({q, rem}) \in Int /\ Min({q, rem}) <= rem
    BY <2>1, MinOfTwo
  <2>b. p \in Int /\ take \in Int /\ take <= Min({q, rem})
    BY <2>1, <2>2, ModeledTypes
  <2>3. take \in Nat \ {0} /\ p \in Nat \ {0} /\ take <= rem
    BY <1>5, <2>1, <2>2, <2>b
  <2> HIDE DEF take, p, status
  <2>c. WorkingFee(take, p) \in Nat
    BY <2>3, FeeTypes
  <2>4. /\ FillType(f) /\ f.key = w.key /\ f.quote = 0 /\ f.qty = take
        /\ f.side = w.side /\ f.price = p
    BY <2>1, <2>3, <2>c DEF FillType, Fill
  <2> HIDE DEF f
  <2>a. w.filled + take \in Nat
    BY <2>1, <2>3
  <2> HIDE DEF ticked
  <2>5. rest \in Workings /\ rest.key = w.key /\ rest.cursor = w.cursor /\ SameTerms(rest, ticked)
    BY <1>2, <2>a, WorkingUpdated
  <2> HIDE DEF rest
  <2>6. Carried(rest) /\ f.quote <= rest.cursor
    BY <1>1, <2>1, <2>4, <2>5 DEF Carried
  <2>8. SameTerms(rest, w)
    BY <1>2, <2>5 DEF SameTerms
  <2> DEFINE n == AfterFill(mem, w, f, status, rest)
  <2>9. ASSUME validateState(n) PROVE Follows(n) /\ Filled(n) /\ Kept(n)
    <3>1. f \notin ledger
      BY <1>1, <1>a, <2>4, <2>9, FillNew
    <3>2. Follows(n) /\ Filled(n)
      BY <1>1, <2>4, <2>5, <2>6, <3>1, FillFollows
    <3>3. Kept(n)
      BY <1>1, <1>a, <2>3, <2>4, <2>5, <2>8, <3>1, FillKept
    <3> QED
      BY <3>2, <3>3
  <2>10. Persist("fill", n)
    BY <1>5 DEF rest, ticked, take, p, f, status
  <2> HIDE DEF n
  <2> QED
    BY <2>9, <2>10, PersistStep
<1> QED
  BY <1>4, <1>5 DEF FillLimit

-----------------------------------------------------------------------------
(* Strategy orders.                                                        *)

\* A saved latency tick, or a wait for liquidity.
LEMMA ReplacedStep ==
  ASSUME Inv, NEW s, Base(s), NEW v, WorkingHeld(v, s),
         NEW w \in Workings, Carried(w), SameTerms(w, v), w.budget = v.budget, NEW op,
         Persist(op, [s EXCEPT !.working = Replacing(s.working, w), !.at = clock])
  PROVE  Step
<1> DEFINE n == [s EXCEPT !.working = Replacing(s.working, w), !.at = clock]
<1>1. Follows(n)
  BY ReplacedFollows DEF Base
<1>2. n.fills = mem.fills /\ n.cash = mem.cash
  BY DEF Base, Follows, StateType, Fields
<1>3. Kept(n)
  BY ReplacedKept DEF Base
<1> HIDE DEF n
<1> QED
  BY <1>1, <1>2, <1>3, PersistStep DEF Filled, n

\* A cancelled strategy order is saved.
LEMMA CancelledStep ==
  ASSUME Inv, NEW s, Base(s), NEW w, WorkingHeld(w, s), NEW price, NEW op, Persist(op, Cancelled(s, w, price))
  PROVE  Step
<1>1. Follows(Cancelled(s, w, price)) /\ Filled(Cancelled(s, w, price))
  BY CancelFollows DEF Base
<1>2. Kept(Cancelled(s, w, price))
  BY CancelKept DEF Base
<1> QED
  BY <1>1, <1>2, PersistStep

\* The fill of a strategy order, from a snapshot after its cursor.
LEMMA StrategyFillStep ==
  ASSUME Inv, NEW s, Base(s), NEW w \in Workings, Carried(w), WorkingHeld(w, s),
         NEW t \in Ticks, ~Spent(w, t),
         NEW take \in Nat \ {0}, NEW price \in Nat, NEW asked, NEW limited,
         take <= w.requested - w.filled,
         w.side = "BUY" => w.budget > 0 /\ Times(take, price) <= w.budget + Overrun,
         StrategyFill(s, w, t, take, price, asked, limited)
  PROVE  Step
<1> DEFINE f == Fill(NextFillId(s, w.key), w, take, price, WorkingFee(take, price), t.quote, asked)
           budget == BudgetLeft(w, take, price)
           cursor == IF t.quote = 0 THEN w.cursor ELSE t.quote
           rest == [w EXCEPT !.filled = w.filled + take,
                             !.ticks = w.ticks + 1,
                             !.budget = budget,
                             !.cursor = cursor]
<1>1. PICK status : Persist("advance", AfterFill(s, w, f, status, rest))
  BY DEF StrategyFill
<1>2. /\ w.filled \in Nat /\ w.ticks \in Nat /\ w.budget \in Int /\ w.cursor \in Nat
      /\ w.key \in Keys /\ w.side \in Sides
  BY DEF Workings
<1>3. t.quote \in Nat /\ (t.quote = 0 => t.size = NoDepth)
  BY AmountAssumption DEF Ticks
<1>4. /\ cursor \in Nat /\ w.cursor <= cursor /\ t.quote <= cursor
      /\ t.quote = 0 \/ w.cursor < t.quote
  BY <1>2, <1>3 DEF Spent
<1>5. budget \in Int
  <2>1. Times(take, price) \in Nat
    BY TimesNear
  <2>2. w.budget - Times(take, price) \in Int
    BY <1>2, <2>1
  <2> QED
    BY <2>2, MaxOfTwo DEF BudgetLeft
<1>e. w.side = "BUY" => budget = Max({0, w.budget - Times(take, price)})
  BY DEF BudgetLeft
<1> HIDE DEF budget, cursor
<1>a. w.filled + take \in Nat /\ w.ticks + 1 \in Nat
  BY <1>2
<1>6. /\ rest \in Workings /\ rest.key = w.key /\ rest.cursor = cursor /\ SameTerms(rest, w)
      /\ rest.filled = w.filled + take /\ rest.budget = budget
  <2> DEFINE r1 == [w EXCEPT !.filled = w.filled + take]
             r2 == [r1 EXCEPT !.ticks = w.ticks + 1]
             r3 == [r2 EXCEPT !.budget = budget]
             r4 == [r3 EXCEPT !.cursor = cursor]
  <2>1. rest = r4
    OBVIOUS
  <2>2. r1 \in Workings /\ r1.key = w.key /\ SameTerms(r1, w) /\ r1.filled = w.filled + take
    BY <1>a, WorkingUpdated
  <2> HIDE DEF r1
  <2>3. r2 \in Workings /\ r2.key = w.key /\ SameTerms(r2, r1) /\ r2.filled = w.filled + take
    BY <1>a, <2>2, WorkingUpdated
  <2> HIDE DEF r2
  <2>4. /\ r3 \in Workings /\ r3.key = w.key /\ SameTerms(r3, r2)
        /\ r3.filled = w.filled + take /\ r3.budget = budget
    BY <1>5, <2>3, WorkingUpdated
  <2> HIDE DEF r3
  <2>5. /\ r4 \in Workings /\ r4.key = w.key /\ SameTerms(r4, r3) /\ r4.cursor = cursor
        /\ r4.filled = w.filled + take /\ r4.budget = budget
    BY <1>4, <2>4, WorkingUpdated
  <2>6. SameTerms(r4, w)
    BY <2>2, <2>3, <2>4, <2>5 DEF SameTerms
  <2> QED
    BY <2>1, <2>5, <2>6
<1>b. WorkingFee(take, price) \in Nat
  BY FeeTypes
<1>7. /\ f.price > 0 => FillType(f)
      /\ f.key = w.key /\ f.quote = t.quote /\ f.qty = take /\ f.price = price /\ f.side = w.side
  BY <1>2, <1>3, <1>b DEF FillType, Fill
<1> HIDE DEF rest, f
<1>8. Carried(rest)
  <2>1. CASE w.key \notin ToSet(mem.keys)
    BY <1>6, <2>1 DEF Carried
  <2>2. ASSUME NEW v \in ToSet(mem.working), v.key = w.key, v.cursor <= w.cursor PROVE Carried(rest)
    <3>1. v.cursor \in Nat
      <4>1. v \in Workings
        BY ToSetOf DEF Inv, Account, StateType
      <4> QED
        BY <4>1 DEF Workings
    <3>2. v.cursor <= rest.cursor
      BY <1>2, <1>4, <1>6, <2>2, <3>1
    <3> QED
      BY <1>6, <2>2, <3>2 DEF Carried
  <2> QED
    BY <2>1, <2>2 DEF Carried
<1> DEFINE n == AfterFill(s, w, f, status, rest)
<1>9. ASSUME validateState(n) PROVE Follows(n) /\ Filled(n) /\ Kept(n)
  <2>1. f \notin ledger /\ FillType(f)
    BY <1>7, <1>9, FillNew DEF Base
  <2>2. Follows(n) /\ Filled(n)
    BY <1>4, <1>6, <1>7, <1>8, <2>1, FillFollows DEF Base
  <2>3. w.side = "BUY" => rest.budget = Max({0, w.budget - Times(f.qty, f.price)})
    BY <1>6, <1>7, <1>e
  <2>4. Kept(n)
    BY <1>6, <1>7, <2>1, <2>3, FillKept DEF Base
  <2> QED
    BY <2>2, <2>4
<1> HIDE DEF n
<1> QED
  BY <1>1, <1>9, PersistStep DEF n

\* The cursor of an order only moves on.
LEMMA CarriedOn ==
  ASSUME Inv, NEW w \in Workings, Carried(w), NEW v \in Workings, v.key = w.key, w.cursor <= v.cursor
  PROVE  Carried(v)
<1>1. CASE w.key \notin ToSet(mem.keys)
  BY <1>1 DEF Carried
<1>2. ASSUME NEW u \in ToSet(mem.working), u.key = w.key, u.cursor <= w.cursor PROVE Carried(v)
  <2>1. u \in Workings
    BY ToSetOf DEF Inv, Account, StateType
  <2>2. u.cursor \in Nat /\ w.cursor \in Nat /\ v.cursor \in Nat
    BY <2>1 DEF Workings
  <2> QED
    BY <1>2, <2>2 DEF Carried
<1> QED
  BY <1>1, <1>2 DEF Carried

\* How much a budget buys is an amount, and costs no more than the budget once it is rounded.
LEMMA AffordableFits ==
  ASSUME NEW w \in Workings, NEW price \in Nat \ {0}
  PROVE  /\ Affordable(w, price) \in Int
         /\ \A n \in Nat \ {0} : w.side = "BUY" /\ n <= Affordable(w, price) =>
              w.budget > 0 /\ Times(n, price) <= w.budget
<1>1. w.budget \in Int /\ w.requested \in Int /\ Scale \in Nat \ {0}
  BY AmountAssumption DEF Workings
<1> DEFINE b == w.budget * Scale
<1>2. b \in Int /\ b \div price \in Int
  BY <1>1
<1>3. Affordable(w, price) = IF w.side = "BUY" THEN b \div price ELSE w.requested
  BY DEF Affordable
<1> HIDE DEF b
<1>4. ASSUME NEW n \in Nat \ {0}, n <= b \div price PROVE w.budget > 0 /\ Times(n, price) <= w.budget
  <2>1. n * price <= b
    BY <1>2, <1>4, WithinBudget
  <2>2. n * price \in Nat /\ n * price > 0
    OBVIOUS
  <2>3. ASSUME w.budget <= 0 PROVE FALSE
    <3>1. w.budget * Scale <= 0
      BY <1>1, <2>3
    <3> QED
      BY <1>2, <2>1, <2>2, <3>1 DEF b
  <2>4. w.budget \in Nat /\ w.budget > 0
    BY <1>1, <2>3
  <2> QED
    BY <1>1, <2>1, <2>2, <2>4, RoundWithin DEF Times, b
<1> QED
  BY <1>1, <1>2, <1>3, <1>4

\* What is taken from a level is nothing, or within what is still asked for.
LEMMA TakenWithin ==
  ASSUME NEW side \in Sides, NEW rem \in Int, NEW least, NEW money \in Int, NEW price \in Int,
         NEW size \in Nat, side = "BUY" => price > 0
  PROVE  LET take == Taken(side, rem, least, money, price, size)
         IN  take \in Int /\ (take = 0 \/ take <= rem)
<1>1. size \div FillDiv \in Int
  BY AmountAssumption
<1>2. Offered(rem, size) \in Int /\ Offered(rem, size) <= rem
  BY <1>1, MinOfTwo DEF Offered
<1>3. ASSUME side = "BUY"
      PROVE  /\ Min({Offered(rem, size), money \div price}) \in Int
             /\ Min({Offered(rem, size), money \div price}) <= rem
  <2>1. money \div price \in Int
    BY <1>3
  <2> QED
    BY <1>2, <2>1, MinOfTwo
<1> QED
  BY <1>2, <1>3 DEF Taken

\* A sweep takes no more than the rest of the order, at an average price that is an amount.
LEMMA SweepTypes ==
  ASSUME NEW w \in Workings, NEW t \in Ticks, t.size # NoDepth, NEW dust
  PROVE  LET swept == Sweep(w, t, dust)
         IN  swept.qty > 0 /\ swept.notional > 0 =>
               /\ swept.qty \in Nat \ {0} /\ swept.qty <= w.requested - w.filled
               /\ AveragePrice(swept) \in Nat
<1> DEFINE rem == w.requested - w.filled
           behind == IF w.side = "BUY" THEN t.best + LevelGap ELSE t.best - LevelGap
           size == IF behind > 0 THEN t.deeper ELSE 0
           money == w.budget * Scale
           first == Taken(w.side, rem, dust, money, t.best, t.size)
           left == money - first * t.best
           second == Taken(w.side, rem - first, 1, left, behind, size)
           total == first * t.best + second * behind
           swept == Sweep(w, t, dust)
<1>1. w.requested \in Int /\ w.filled \in Int /\ w.budget \in Int /\ w.side \in Sides
  BY DEF Workings
<1>2. Scale \in Nat \ {0} /\ LevelGap \in Nat \ {0} /\ Prices \subseteq Nat \ {0} /\ Sizes \subseteq Nat
  BY AmountAssumption
<1>3. t.best \in Prices /\ t.size \in Sizes /\ t.deeper \in Sizes \cup {0}
  BY DEF Ticks
<1>a. t.best \in Nat \ {0} /\ t.size \in Nat /\ (t.deeper \in Nat \/ t.deeper = 0)
  BY <1>2, <1>3, Zenon
<1>4. t.best \in Nat \ {0} /\ t.size \in Nat /\ t.deeper \in Nat
  BY <1>a
<1>5. behind \in Int /\ size \in Nat /\ (w.side = "BUY" => behind > 0)
  BY <1>2, <1>4
<1>6. rem \in Int /\ money \in Int
  BY <1>1, <1>2
<1>7. swept.qty = first + second /\ swept.notional = Round(total, Scale)
  BY DEF Sweep
<1> HIDE DEF behind, size, money, rem, swept
<1>8. first \in Int /\ (first = 0 \/ first <= rem)
  BY <1>1, <1>4, <1>6, TakenWithin
<1> HIDE DEF first
<1>9. left \in Int /\ rem - first \in Int
  BY <1>4, <1>6, <1>8
<1> HIDE DEF left
<1>10. second \in Int /\ (second = 0 \/ second <= rem - first)
  BY <1>1, <1>5, <1>9, TakenWithin
<1> HIDE DEF second
<1>11. first * t.best \in Int /\ second * behind \in Int
  BY <1>4, <1>5, <1>8, <1>10
<1>12. total \in Int
  BY <1>11
<1> HIDE DEF total
<1>13. Round(total, Scale) \in Int
  <2> DEFINE a == 2 * total + Scale
             b == 2 * Scale
  <2>1. a \in Int /\ b \in Nat /\ b > 0
    BY <1>2, <1>12
  <2> HIDE DEF a, b
  <2>2. a \div b \in Int
    BY <2>1
  <2> QED
    BY <2>2 DEF a, b, Round
<1>14. ASSUME swept.qty > 0, swept.notional > 0
       PROVE  swept.qty \in Nat \ {0} /\ swept.qty <= rem /\ AveragePrice(swept) \in Nat
  <2>1. swept.qty \in Nat \ {0} /\ swept.qty <= rem
    BY <1>6, <1>7, <1>8, <1>10, <1>14
  <2>2. swept.notional \in Nat
    BY <1>7, <1>13, <1>14
  <2>3. swept.notional * Scale \in Nat
    BY <1>2, <2>2
  <2> QED
    BY <2>1, <2>3, RoundType DEF AveragePrice
<1> QED
  BY <1>14 DEF rem, swept

\* advanceStrategyWorkingOrder, with depth.
LEMMA DepthStep ==
  ASSUME Inv, NEW s, Base(s), NEW w \in Workings, Carried(w), WorkingHeld(w, s),
         NEW t \in Ticks, ~Spent(w, t), t.size # NoDepth, AdvanceOnDepth(s, w, t)
  PROVE  Step
<1> DEFINE ticked == [w EXCEPT !.ticks = w.ticks + 1]
           waiting == [ticked EXCEPT !.cursor = t.quote]
<1>1. w.cursor \in Nat /\ w.ticks + 1 \in Nat /\ t.quote \in Nat /\ w.budget \in Int
  BY AmountAssumption DEF Workings, Ticks
<1>2. waiting \in Workings /\ Carried(waiting) /\ SameTerms(waiting, w) /\ waiting.budget = w.budget
  <2>1. /\ ticked \in Workings /\ ticked.key = w.key /\ ticked.cursor = w.cursor /\ SameTerms(ticked, w)
        /\ ticked.budget = w.budget
    BY <1>1, WorkingUpdated
  <2> HIDE DEF ticked
  <2>2. /\ waiting \in Workings /\ waiting.key = w.key /\ waiting.cursor = t.quote
        /\ SameTerms(waiting, ticked) /\ waiting.budget = w.budget
    BY <1>1, <2>1, WorkingUpdated
  <2> HIDE DEF waiting
  <2>3. w.cursor <= t.quote
    BY <1>1 DEF Spent
  <2>4. SameTerms(waiting, w)
    BY <2>1, <2>2 DEF SameTerms
  <2> QED
    BY <2>2, <2>3, <2>4, CarriedOn
<1>3. CASE Persist("advance", Cancelled(s, w, AverageSoFar(s, w, t)))
  BY <1>3, CancelledStep
<1>4. CASE Persist("advance", [s EXCEPT !.working = Replacing(s.working, waiting), !.at = clock])
  BY <1>2, <1>4, ReplacedStep
<1>5. CASE Refused("advance", "invalid")
  BY <1>5 DEF Refused, Step
<1>6. ASSUME NEW dust \in Dust, NEW swept, swept = Sweep(w, t, dust),
             ~(w.side = "BUY" /\ w.budget <= 1), swept.qty > 0, swept.notional > 0,
             w.side = "BUY" => Times(swept.qty, AveragePrice(swept)) <= w.budget + Overrun,
             StrategyFill(s, w, t, swept.qty, AveragePrice(swept), w.requested - w.filled,
                          swept.limited)
      PROVE  Step
  <2> DEFINE price == AveragePrice(swept)
  <2>1. swept.qty \in Nat \ {0} /\ swept.qty <= w.requested - w.filled /\ price \in Nat
    BY <1>6, SweepTypes
  <2>2. w.side = "BUY" => w.budget > 0
    BY <1>1, <1>6
  <2>3. /\ w.side = "BUY" => Times(swept.qty, price) <= w.budget + Overrun
        /\ StrategyFill(s, w, t, swept.qty, price, w.requested - w.filled, swept.limited)
    BY <1>6
  <2> HIDE DEF price
  <2> QED
    BY <2>1, <2>2, <2>3, StrategyFillStep
<1>7. [w EXCEPT !.ticks = w.ticks + 1, !.cursor = t.quote] = waiting
  OBVIOUS
<1> HIDE DEF waiting
<1> QED
  BY <1>3, <1>4, <1>5, <1>6, <1>7 DEF AdvanceOnDepth

\* advanceStrategyWorkingOrder, without depth.
LEMMA ModelStep ==
  ASSUME Inv, NEW s, Base(s), NEW w \in Workings, w.filled < w.requested,
         Carried(w), WorkingHeld(w, s), NEW t \in Ticks, ~Spent(w, t), AdvanceOnModel(s, w, t)
  PROVE  Step
<1> DEFINE p == ModeledPrice(w.side, t.price)
           modeled == ModeledQty(w.requested - w.filled, w.requested)
           take == Min({modeled, Affordable(w, p)})
           limited == w.side = "BUY" /\ BudgetLeft(w, take, p) <= 1
<1>1. w.requested \in Nat \ {0} /\ w.filled \in Nat /\ w.side \in Sides /\ t.price \in Prices
  BY DEF Workings, Ticks
<1>2. w.requested - w.filled \in Nat \ {0} /\ w.budget \in Int
  BY <1>1 DEF Workings
<1>3. p \in Int /\ modeled \in Int /\ modeled <= w.requested - w.filled
  BY <1>1, <1>2, ModeledTypes
<1>4. CASE /\ modeled = 0 \/ p <= 0
           /\ mem' = s /\ UNCHANGED <<disk, ledger, clock>>
  <2>1. CASE modeled = 0
    <3>1. ~(FillDiv <= 2)
      BY <1>1, <1>2, <2>1, ModeledSome
    <3> QED
      BY <1>4, <3>1, AmountAssumption DEF Throws, Step, Adopted, Base
  <2>2. CASE p <= 0
    <3>1. t.price \in Nat \ {0} /\ Slippage \in Nat
      BY <1>1, AmountAssumption
    <3>2. t.price <= Slippage
      BY <2>2, <3>1 DEF ModeledPrice
    <3> QED
      BY <1>1, <1>4, <3>2 DEF Throws, Step, Adopted, Base
  <2> QED
    BY <1>4, <2>1, <2>2
<1>5. CASE Persist("advance", Cancelled(s, w, AverageSoFar(s, w, t)))
  BY <1>5, CancelledStep
<1>6. CASE /\ modeled > 0 /\ p > 0 /\ take > 0
           /\ StrategyFill(s, w, t, take, p, 0, limited)
  <2>1. p \in Nat \ {0} /\ Overrun \in Nat
    BY <1>3, <1>6, AmountAssumption
  <2> HIDE DEF p, modeled, limited
  <2>2. Affordable(w, p) \in Int
    BY <2>1, AffordableFits
  <2>3. take \in Nat \ {0} /\ take <= modeled /\ take <= Affordable(w, p)
    BY <1>3, <1>6, <2>2, MinOfTwo
  <2> HIDE DEF take
  <2>4. take <= w.requested - w.filled
    BY <1>2, <1>3, <2>3
  <2>5. w.side = "BUY" => w.budget > 0 /\ Times(take, p) <= w.budget /\ Times(take, p) \in Nat
    BY <2>1, <2>3, AffordableFits, TimesNear
  <2>6. w.side = "BUY" => w.budget > 0 /\ Times(take, p) <= w.budget + Overrun
    BY <1>2, <2>1, <2>5
  <2> QED
    BY <1>6, <2>1, <2>3, <2>4, <2>6, StrategyFillStep
<1> QED
  BY <1>4, <1>5, <1>6 DEF AdvanceOnModel

\* advanceStrategyWorkingOrder.
LEMMA AdvanceStep ==
  ASSUME Inv, NEW s, Base(s), NEW w \in Workings, w.filled < w.requested,
         Carried(w), WorkingHeld(w, s), NEW t \in Ticks, Advance(s, w, t)
  PROVE  Step
<1> DEFINE ticked == [w EXCEPT !.ticks = w.ticks + 1]
<1>1. ~Spent(w, t)
  BY DEF Advance
<1>2. CASE Persist("tick", [s EXCEPT !.working = Replacing(s.working, ticked), !.at = clock])
  <2>1. w.ticks + 1 \in Nat /\ w.cursor \in Nat
    BY DEF Workings
  <2>2. /\ ticked \in Workings /\ ticked.key = w.key /\ ticked.cursor = w.cursor /\ SameTerms(ticked, w)
        /\ ticked.filled = w.filled /\ ticked.budget = w.budget
    BY <2>1, WorkingUpdated
  <2> HIDE DEF ticked
  <2>3. Carried(ticked)
    BY <2>1, <2>2, CarriedOn
  <2> QED
    BY <1>2, <2>2, <2>3, ReplacedStep
<1>3. CASE t.size # NoDepth /\ AdvanceOnDepth(s, w, t)
  BY <1>1, <1>3, DepthStep
<1>4. CASE AdvanceOnModel(s, w, t)
  BY <1>1, <1>4, ModelStep
<1> QED
  BY <1>2, <1>3, <1>4 DEF Advance

\* The intent's order is opened and advanced.
LEMMA OpenStrategyStep ==
  ASSUME Inv, NEW k \in Keys, NEW side \in Sides, NEW q \in Int, NEW alloc \in Nat, NEW t \in Ticks,
         OpenStrategy(k, side, q, alloc, t)
  PROVE  Step
<1> DEFINE w == [key |-> k, side |-> side, strategy |-> TRUE, limit |-> 0,
                 requested |-> q, filled |-> 0, ticks |-> 0, alloc |-> alloc,
                 budget |-> alloc, cursor |-> 0]
           opened == [mem EXCEPT !.working = Slice(<<w>> \o mem.working),
                                 !.keys = <<k>> \o mem.keys, !.at = clock]
<1>1. k \notin ToSet(mem.keys) /\ q > 0 /\ Advance(opened, w, t)
  BY DEF OpenStrategy
<1>2. /\ w \in Workings /\ w.key = k /\ w.filled < w.requested
      /\ w.filled = 0 /\ w.budget = w.alloc /\ 0 <= w.requested /\ 0 <= w.alloc
  BY <1>1 DEF Workings
<1> HIDE DEF w
<1>3. Carried(w)
  BY <1>1, <1>2 DEF Carried
<1>4. /\ Follows(opened) /\ opened.fills = mem.fills /\ opened.cash = mem.cash /\ opened.qty = mem.qty
      /\ ToSet(opened.working) \subseteq {w} \cup ToSet(mem.working)
  BY <1>1, <1>2, OpenedFollows
<1>a. Held(opened) /\ WorkingHeld(w, opened)
  BY <1>1, <1>2, OpenedHeld
<1> HIDE DEF opened
<1>5. Base(opened)
  BY <1>2, <1>4, <1>a DEF Base, Inv, Account
<1> QED
  BY <1>1, <1>2, <1>3, <1>5, <1>a, AdvanceStep

\* processTick.
LEMMA ProcessTickStep ==
  ASSUME Inv, NEW k \in Keys, NEW t \in Ticks, ProcessTick(k, t)
  PROVE  Step
<1>0. "BUY" \in Sides /\ "SELL" \in Sides
  BY DEF Sides
<1>1. ASSUME NEW alloc \in Budgets, OpenStrategy(k, "BUY", Round(alloc * Scale, t.price), alloc, t)
      PROVE  Step
  <2>1. alloc \in Nat /\ t.price \in Nat \ {0} /\ Scale \in Nat
    BY AmountAssumption DEF Ticks
  <2>a. alloc * Scale \in Nat
    BY <2>1
  <2>2. Round(alloc * Scale, t.price) \in Int
    BY <2>1, <2>a, RoundType
  <2> QED
    BY <1>0, <1>1, <2>1, <2>2, OpenStrategyStep
<1>2. ASSUME NEW q \in 1..mem.qty, OpenStrategy(k, "SELL", q, 0, t) PROVE Step
  <2>1. q \in Int /\ 0 \in Nat
    OBVIOUS
  <2> QED
    BY <1>0, <1>2, <2>1, OpenStrategyStep
<1> QED
  BY <1>1, <1>2 DEF ProcessTick

\* Every call is a Step.
LEMMA NextStep == ASSUME Inv, [Next]_vars PROVE Step
<1>1. ASSUME NEW k \in Keys, NEW side \in Sides, NEW q \in Quantities, NEW price \in Prices,
             Execute(k, side, q, price) \/ OpenLimit(k, side, q, price)
      PROVE  Step
  BY <1>1, ExecuteStep, OpenLimitStep
<1>2. ASSUME NEW w \in ToSet(mem.working), NEW q \in Quantities, NEW price \in Prices,
             NEW e \in Events \cup {0}, FillLimit(w, q, price, e)
      PROVE  Step
  BY <1>2, FillLimitStep
<1>3. ASSUME NEW w \in ToSet(mem.working), NEW t \in Ticks, Advance(mem, w, t) PROVE Step
  <2>1. w \in Workings /\ w.filled < w.requested /\ Carried(w) /\ Base(mem) /\ WorkingHeld(w, mem)
    BY MemFollows, MemBase, ToSetOf DEF Inv, Account, StateType, Follows, Held
  <2> QED
    BY <1>3, <2>1, AdvanceStep
<1>4. ASSUME NEW w \in ToSet(mem.working), Cancel(w) PROVE Step
  BY <1>4, CancelStep
<1>5. ASSUME NEW k \in Keys, NEW t \in Ticks, ProcessTick(k, t) PROVE Step
  BY <1>5, ProcessTickStep
<1>6. CASE Restart \/ Tick \/ UNCHANGED vars
  BY <1>6 DEF Step, Restart, Tick, vars
<1> QED
  BY <1>1, <1>2, <1>3, <1>4, <1>5, <1>6 DEF Next

-----------------------------------------------------------------------------
(* The theorems.                                                           *)

\* A fresh account satisfies the invariant.
LEMMA InitInv == ASSUME Init PROVE Inv
<1> DEFINE s == initialState
<1>1. /\ DOMAIN s = Fields /\ s.cash = Capital /\ s.qty = 0 /\ s.orders = << >> /\ s.fills = << >>
      /\ s.working = << >> /\ s.keys = << >> /\ s.at = 0
  BY DEF initialState, Fields
<1> HIDE DEF s
<1>2. mem = s /\ disk = s /\ ledger = {} /\ clock = 1
  BY DEF Init, s
<1>3. /\ << >> \in Seq(Workings) /\ << >> \in Seq(Keys) /\ << >> \in Seq({}) /\ Len(<< >>) = 0
  OBVIOUS
<1>4. ToSet(<< >>) = {}
  <2> DEFINE e == << >>
             T == {}
  <2>1. e \in Seq(T)
    BY <1>3
  <2> HIDE DEF e, T
  <2>2. ToSet(e) \subseteq T
    BY <2>1, ToSetOf
  <2> QED
    BY <2>2 DEF e, T
<1>5. StateType(s, 1)
  BY <1>1, <1>3, <1>4, AmountAssumption DEF StateType
<1>6. Account(s)
  BY <1>1, <1>2, <1>4, <1>5, AmountAssumption DEF Account
<1>7. Held(s)
  BY <1>1, <1>4 DEF Held
<1>8. IsFiniteSet(ledger) /\ Replays(s)
  <2>1. Bought({}) = {} /\ Sold({}) = {}
    BY DEF Bought, Sold
  <2>2. ReplayCash({}) = Capital /\ ReplayQty({}) = 0
    <3>1. ReplayCash({}) = Capital - 0 + 0 - 0 /\ ReplayQty({}) = 0 - 0
      BY <2>1, NoFills, Zenon DEF ReplayCash, ReplayQty
    <3> QED
      BY <3>1, AmountAssumption
  <2>3. Within(Capital, Capital, 0)
    BY AmountAssumption DEF Within
  <2> QED
    BY <1>1, <1>2, <2>2, <2>3, FS_EmptySet DEF Replays
<1> QED
  BY <1>1, <1>2, <1>4, <1>6, <1>7, <1>8, AmountAssumption DEF Inv, Ledger, Ahead, SnapshotUsedOnce

\* The inductive invariant.
THEOREM Invariance == Spec => []Inv
<1>1. Inv /\ [Next]_vars => Inv'
  BY NextStep, StepInv
<1> QED
  BY <1>1, InitInv, PTL DEF Spec

\* The type invariant holds for every capacity, price grid and execution profile: cash and the
\* position are never negative, and the bounded lists stay within their bound.
THEOREM TypeCorrect == Spec => []TypeOK
<1>1. ASSUME Inv PROVE TypeOK
  <2>1. ASSUME NEW s, Account(s)
        PROVE  /\ s.cash \in Nat /\ s.qty \in Nat /\ s.at \in 0..clock
               /\ ToSet(s.keys) \subseteq Keys
               /\ Len(s.orders) <= Capacity /\ Len(s.working) <= Capacity
    <3>1. s.cash \in Nat /\ s.qty \in Nat
      BY <2>1 DEF Account, StateType
    <3>2. ToSet(s.keys) \subseteq Keys
      BY <2>1, ToSetOf DEF Account, StateType
    <3> QED
      BY <2>1, <3>1, <3>2 DEF Account, StateType
  <2>2. \A f \in ledger : f.key \in Keys /\ f.qty > 0 /\ f.price > 0
    BY <1>1 DEF Inv, Ledger, FillType
  <2> QED
    BY <1>1, <2>1, <2>2 DEF Inv, TypeOK
<1> QED
  BY <1>1, Invariance, PTL

\* A strategy order consumes a public depth snapshot at most once, through fills, refused saves,
\* restarts and states that a throw left in memory (Spent against sourceQuoteTimestamp).
THEOREM SnapshotsUsedOnce == Spec => []SnapshotUsedOnce
<1>1. Inv => SnapshotUsedOnce
  BY DEF Inv
<1> QED
  BY <1>1, Invariance, PTL

\* No order takes more than was asked for, or is charged more than its budget and the tolerance of one
\* sweep, whatever parts, snapshots, refused saves, restarts and throws it is filled through
\* (fillWorkingOrder and advanceStrategyWorkingOrder, held to it by validateState).
THEOREM NeverOverfilled == Spec => []NoOverfill
<1>1. Inv => NoOverfill
  BY DEF Inv, Held, WorkingHeld, Entry, Paid, NoOverfill
<1> QED
  BY <1>1, Invariance, PTL

\* A processed idempotency key whose order is done stays done and gets no further fill, even after
\* the bounded history has dropped the order (processedIdempotencyKeys is never cut).
THEOREM KeysStayResolved == Spec => ResolvedForever
<1>1. Inv /\ [Next]_vars =>
        [\A k \in Keys : Resolved(k) =>
            Resolved(k)' /\ FillsOf(ledger', k) = FillsOf(ledger, k)]_vars
  BY NextStep, StepResolved
<1> QED
  BY <1>1, Invariance, PTL DEF Spec, ResolvedForever

\* Memory shows what a restart would load, whenever deterministicFill cannot throw: a fill takes
\* half of the order or more, and every price is above the slippage.  A throw after processTick has
\* opened the order is the one way to a memory the disk does not have.
THEOREM MemoryIsSaved ==
  ASSUME FillDiv <= 2, \A price \in Prices : price > Slippage
  PROVE  Spec => []MemoryMatchesDisk
<1>1. ~Throws
  BY AmountAssumption DEF Throws
<1>2. Init => MemoryMatchesDisk
  BY DEF Init, MemoryMatchesDisk
<1>3. Inv /\ MemoryMatchesDisk /\ [Next]_vars => MemoryMatchesDisk'
  BY <1>1, NextStep DEF Step, Saved, Adopted, Restart, Tick, MemoryMatchesDisk
<1> QED
  BY <1>2, <1>3, Invariance, PTL DEF Spec

\* The ledger explains the account: over any sequence of fills the rounding of the loop and that of
\* the replay move the cash apart by one unit a fill at most, and the quantity not at all
\* (CashAfter against projectPaperAccounting, for every grid, fee and execution profile).
THEOREM CashExplained == Spec => []AccountExplained
<1>1. Inv => AccountExplained
  BY DEF Inv, Replays, AccountExplained
<1> QED
  BY <1>1, Invariance, PTL

=============================================================================
