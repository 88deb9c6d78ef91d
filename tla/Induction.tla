------------------------------- MODULE Induction ------------------------------
(***************************************************************************)
(* Induction over the natural numbers without a predicate as a parameter:  *)
(* a set that has 0 and every successor of its members has every number,   *)
(* since a number m it lacked would make adding 1 an injection of its      *)
(* members below m into those of them that are not 0.  With it, least and  *)
(* greatest members, functions defined by recursion, and the members of a  *)
(* finite set listed in order.                                             *)
(***************************************************************************)
EXTENDS Integers, FiniteSets, FiniteSetTheorems, TLAPS

LEMMA Inductive ==
    ASSUME NEW S, 0 \in S, \A n \in Nat : n \in S => n + 1 \in S
    PROVE  Nat \subseteq S
<1> SUFFICES ASSUME NEW m \in Nat, m \notin S PROVE FALSE
    OBVIOUS
<1> DEFINE T == {i \in 0..m : i \in S}
           f == [i \in T |-> i + 1]
<1>1. IsFiniteSet(T) /\ IsFiniteSet(T \ {0})
  <2>1. IsFiniteSet(0..m)
    BY FS_Interval
  <2> QED
    BY <2>1, FS_Subset
<1>2. 0 \in T
    OBVIOUS
<1>3. f \in Injection(T, T \ {0})
  <2>1. \A i \in T : i + 1 \in T \ {0}
    <3> TAKE i \in T
    <3>1. i \in Nat /\ i <= m /\ i \in S
      OBVIOUS
    <3>2. i # m
      BY <3>1
    <3>3. i + 1 \in 0..m
      BY <3>1, <3>2
    <3> QED
      BY <3>1, <3>3
  <2>2. \A i, j \in T : f[i] = f[j] => i = j
    OBVIOUS
  <2> QED
    BY <2>1, <2>2 DEF Injection, IsInjective
<1>4. Cardinality(T) <= Cardinality(T \ {0})
    BY <1>1, <1>3, FS_Injection
<1>5. Cardinality(T \ {0}) = Cardinality(T) - 1 /\ Cardinality(T) \in Nat
    BY <1>1, <1>2, FS_RemoveElement, FS_CardinalityType
<1> QED
    BY <1>4, <1>5

\* Induction up to a bound.
LEMMA InductiveUpTo ==
    ASSUME NEW N \in Nat, NEW S, 0 \in S, \A n \in 1..N : n - 1 \in S => n \in S
    PROVE  0..N \subseteq S
<1> DEFINE T == {n \in Nat : n <= N => n \in S}
<1>1. 0 \in T
    OBVIOUS
<1>2. \A n \in Nat : n \in T => n + 1 \in T
  <2> SUFFICES ASSUME NEW n \in Nat, n \in T, n + 1 <= N PROVE n + 1 \in S
    OBVIOUS
  <2>1. n + 1 \in 1..N /\ (n + 1) - 1 = n /\ n <= N
    OBVIOUS
  <2> QED
    BY <2>1
<1>3. Nat \subseteq T
  <2> HIDE DEF T
  <2> QED
    BY <1>1, <1>2, Inductive
<1> QED
    BY <1>3

\* A set of naturals with a member has a least one.
LEMMA Least == ASSUME NEW S \in SUBSET Nat, S # {}
               PROVE  \E n \in S : \A k \in S : n <= k
<1> SUFFICES ASSUME \A n \in S : \E k \in S : k < n PROVE FALSE
    OBVIOUS
<1> DEFINE T == {n \in Nat : \A k \in S : n < k}
<1>1. 0 \in T
    OBVIOUS
<1>2. \A n \in Nat : n \in T => n + 1 \in T
  <2> SUFFICES ASSUME NEW n \in Nat, n \in T, NEW k \in S PROVE n + 1 < k
    OBVIOUS
  <2>1. k \in Nat /\ n < k
    OBVIOUS
  <2>2. PICK j \in S : j < k
    OBVIOUS
  <2> QED
    BY <2>1, <2>2
<1>3. Nat \subseteq T
  <2> HIDE DEF T
  <2> QED
    BY <1>1, <1>2, Inductive
<1>4. PICK n \in S : n \in Nat
    OBVIOUS
<1>5. n \in T
    BY <1>3, <1>4
<1>6. n < n
    BY <1>5
<1> QED
    BY <1>4, <1>6

\* One that is bounded has a greatest.
LEMMA Greatest == ASSUME NEW b \in Nat, NEW S \in SUBSET (0..b), S # {}
                  PROVE  \E n \in S : \A k \in S : k <= n
<1> DEFINE T == {b - k : k \in S}
<1>1. PICK d \in T : \A e \in T : d <= e
  <2>1. \A k \in S : b - k \in Nat
    OBVIOUS
  <2>2. T \in SUBSET Nat /\ T # {}
    BY <2>1
  <2> HIDE DEF T
  <2> QED
    BY <2>2, Least
<1>2. PICK n \in S : d = b - n
    OBVIOUS
<1>3. \A k \in S : b - n <= b - k
    BY <1>1, <1>2
<1> QED
    BY <1>3

\* The functions on 0..N whose values follow from one another.
Recursive(N, V, v0, G) ==
    {f \in [0..N -> V] : f[0] = v0 /\ \A n \in 1..N : f[n] = G[<<n, f[n - 1]>>]}

\* There is one.
LEMMA Recursion ==
    ASSUME NEW N \in Nat, NEW V, NEW v0 \in V, NEW G \in [Nat \X V -> V]
    PROVE  \E f : f \in Recursive(N, V, v0, G)
<1> DEFINE Upto(n, f) == f[0] = v0 /\ \A k \in 1..n : f[k] = G[<<k, f[k - 1]>>]
           S == {n \in Nat : \E f \in [0..n -> V] : Upto(n, f)}
<1>1. 0 \in S
  <2>1. Upto(0, [k \in 0..0 |-> v0])
    OBVIOUS
  <2>2. [k \in 0..0 |-> v0] \in [0..0 -> V]
    OBVIOUS
  <2> QED
    BY <2>1, <2>2
<1>2. ASSUME NEW n \in Nat, n \in S PROVE n + 1 \in S
  <2>1. PICK f \in [0..n -> V] : Upto(n, f)
    BY <1>2
  <2> DEFINE g == [k \in 0..(n + 1) |-> IF k <= n THEN f[k] ELSE G[<<n + 1, f[n]>>]]
  <2>2. g \in [0..(n + 1) -> V]
    BY <2>1
  <2>3. g[0] = v0
    BY <2>1
  <2>4. ASSUME NEW k \in 1..(n + 1) PROVE g[k] = G[<<k, g[k - 1]>>]
    <3>1. k - 1 \in 0..n /\ g[k - 1] = f[k - 1]
      OBVIOUS
    <3>2. CASE k <= n
      BY <2>1, <3>1, <3>2
    <3>3. CASE k = n + 1
      BY <3>1, <3>3
    <3> QED
      BY <3>2, <3>3
  <2>5. Upto(n + 1, g)
    BY <2>3, <2>4
  <2>6. \E h \in [0..(n + 1) -> V] : Upto(n + 1, h)
    <3> HIDE DEF g, Upto
    <3> QED
      BY <2>2, <2>5
  <2>7. n + 1 \in Nat
    OBVIOUS
  <2> QED
    <3> HIDE DEF Upto
    <3> QED
      BY <2>6, <2>7
<1>3. \A n \in Nat : n \in S => n + 1 \in S
    BY <1>2
<1>4. Nat \subseteq S
  <2> HIDE DEF S
  <2> QED
    BY <1>1, <1>3, Inductive
<1>5. \E f \in [0..N -> V] : Upto(N, f)
    BY <1>4
<1> QED
    BY <1>5 DEF Recursive

-------------------------------------------------------------------------------
\* A finite set whose members an order tells apart can be listed in that order.

Listing(L, R, f) ==
    /\ f \in [1..Cardinality(L) -> L]
    /\ \A p \in L : \E i \in 1..Cardinality(L) : f[i] = p
    /\ \A i, j \in 1..Cardinality(L) : i < j => <<f[i], f[j]>> \in R

\* A listing of all but a member that is behind them, and that member.
LEMMA ListingGrows ==
    ASSUME NEW L, IsFiniteSet(L), NEW R, NEW m \in L,
           \A p \in L \ {m} : <<p, m>> \in R,
           NEW f, Listing(L \ {m}, R, f)
    PROVE  \E g : Listing(L, R, g)
<1> DEFINE n == Cardinality(L)
           g == [i \in 1..n |-> IF i = n THEN m ELSE f[i]]
<1>1. n \in Nat \ {0} /\ Cardinality(L \ {m}) = n - 1
    BY FS_RemoveElement, FS_CardinalityType, FS_EmptySet
<1>2. f \in [1..(n - 1) -> L \ {m}]
    BY <1>1 DEF Listing
<1>3. \A i \in 1..n : i # n => i \in 1..(n - 1) /\ g[i] = f[i] /\ g[i] \in L \ {m}
    BY <1>1, <1>2
<1>4. g[n] = m /\ n \in 1..n
    BY <1>1
<1>5. g \in [1..n -> L]
    BY <1>3, <1>4
<1>6. ASSUME NEW p \in L PROVE \E i \in 1..n : g[i] = p
  <2>1. CASE p = m
    BY <1>4, <2>1
  <2>2. CASE p # m
    <3>1. PICK i \in 1..(n - 1) : f[i] = p
      BY <1>1, <2>2 DEF Listing
    <3>2. i \in 1..n /\ i # n
      BY <1>1
    <3> QED
      BY <3>1, <3>2
  <2> QED
    BY <2>1, <2>2
<1>7. ASSUME NEW i \in 1..n, NEW j \in 1..n, i < j PROVE <<g[i], g[j]>> \in R
  <2>1. i # n /\ i \in 1..(n - 1) /\ g[i] = f[i] /\ f[i] \in L \ {m}
    BY <1>1, <1>3, <1>7
  <2>2. CASE j = n
    BY <2>1, <2>2
  <2>3. CASE j # n
    <3>1. j \in 1..(n - 1) /\ g[j] = f[j]
      BY <1>3, <2>3
    <3> QED
      BY <1>1, <1>7, <2>1, <3>1 DEF Listing
  <2> QED
    BY <2>2, <2>3
<1>8. Listing(L, R, g)
  <2> HIDE DEF g
  <2> QED
    BY <1>5, <1>6, <1>7 DEF Listing
<1> QED
    BY <1>8

\* The last of a listing and of one more.
LEMMA Listings ==
    ASSUME NEW L, IsFiniteSet(L), NEW R,
           \A p, q \in L : p # q => <<p, q>> \in R \/ <<q, p>> \in R,
           \A p, q, r \in L : <<p, q>> \in R /\ <<q, r>> \in R => <<p, r>> \in R
    PROVE  \E f : Listing(L, R, f)
<1> DEFINE T == {n \in Nat : \A M \in SUBSET L : Cardinality(M) = n => \E f : Listing(M, R, f)}
<1>1. 0 \in T
  <2> SUFFICES ASSUME NEW M \in SUBSET L, Cardinality(M) = 0 PROVE \E f : Listing(M, R, f)
    OBVIOUS
  <2>1. M = {}
    BY FS_Subset, FS_EmptySet
  <2>2. Listing({}, R, [i \in 1..0 |-> {}])
    BY FS_EmptySet DEF Listing
  <2> QED
    BY <2>1, <2>2
<1>2. ASSUME NEW n \in Nat, n \in T PROVE n + 1 \in T
  <2> SUFFICES ASSUME NEW M \in SUBSET L, Cardinality(M) = n + 1 PROVE \E f : Listing(M, R, f)
    OBVIOUS
  <2>1. IsFiniteSet(M)
    BY FS_Subset
  <2>2. ASSUME NEW x \in M
        PROVE  Cardinality(M \ {x}) = n /\ \E f : Listing(M \ {x}, R, f)
    <3>1. Cardinality(M \ {x}) = Cardinality(M) - 1
      BY <2>1, FS_RemoveElement
    <3>2. Cardinality(M \ {x}) = n
      BY <3>1
    <3> QED
      BY <1>2, <3>2
  <2>3. M # {}
    BY FS_EmptySet
  <2>4. PICK m \in M : \A p \in M \ {m} : <<p, m>> \in R
    <3>1. PICK x \in M : TRUE
      BY <2>3
    <3>2. PICK f : Listing(M \ {x}, R, f)
      BY <2>2
    <3>3. Cardinality(M \ {x}) = n
      BY <2>2
    <3>4. CASE n = 0
      <4>1. \A i \in 1..0 : FALSE
        OBVIOUS
      <4>2. M \ {x} = {}
        BY <3>2, <3>3, <3>4, <4>1 DEF Listing
      <4> QED
        BY <4>2
    <3>5. CASE n # 0
      <4>0. n \in 1..n
        BY <3>5
      <4>1. n \in 1..n /\ f[n] \in M \ {x}
        BY <3>2, <3>3, <4>0 DEF Listing
      <4>2. ASSUME NEW p \in M \ {x}, p # f[n] PROVE <<p, f[n]>> \in R
        <5>1. PICK i \in 1..n : f[i] = p
          BY <3>2, <3>3 DEF Listing
        <5>2. i < n
          BY <4>2, <5>1
        <5> QED
          BY <3>2, <3>3, <4>1, <5>1, <5>2 DEF Listing
      <4>3. CASE <<f[n], x>> \in R
        <5>1. \A p \in M \ {x} : <<p, x>> \in R
          BY <4>1, <4>2, <4>3
        <5> QED
          BY <5>1
      <4>4. CASE <<x, f[n]>> \in R
        <5>1. \A p \in M \ {f[n]} : <<p, f[n]>> \in R
          BY <4>2, <4>4
        <5> QED
          BY <4>1, <5>1
      <4> QED
        BY <4>1, <4>3, <4>4
    <3> QED
      BY <3>4, <3>5
  <2>5. PICK f : Listing(M \ {m}, R, f)
    BY <2>2
  <2> QED
    BY <2>1, <2>4, <2>5, ListingGrows
<1>3. Nat \subseteq T
  <2>1. \A n \in Nat : n \in T => n + 1 \in T
    BY <1>2
  <2> HIDE DEF T
  <2> QED
    BY <1>1, <2>1, Inductive
<1>4. Cardinality(L) \in T
    BY <1>3, FS_CardinalityType
<1> QED
    BY <1>4
===============================================================================
