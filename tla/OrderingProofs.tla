---------------------------- MODULE OrderingProofs ----------------------------
(***************************************************************************)
(* What sorting and filtering return, for finite sets and sequences of any *)
(* size.  The library's SortSeq and SelectSeq have no definition a prover  *)
(* could unfold; Listed and Filtered do.                                   *)
(***************************************************************************)
EXTENDS Orderings, FiniteSetTheorems, WellFoundedInduction, TLAPS

\* R puts any two elements of P in one order.
Orders(R, P) ==
    /\ \A i \in P : <<i, i>> \notin R
    /\ \A i, j, k \in P : <<i, j>> \in R /\ <<j, k>> \in R => <<i, k>> \in R
    /\ \A i, j \in P : i # j => <<i, j>> \in R \/ <<j, i>> \in R

Earlier(P, R, i) == {j \in P : <<j, i>> \in R}
Ranks(P, R) == [i \in P |-> Cardinality(Earlier(P, R, i)) + 1]

\* What is later has more before it.
LEMMA LaterRanksHigher ==
    ASSUME NEW P, IsFiniteSet(P), NEW R, Orders(R, P)
    PROVE  /\ Ranks(P, R) \in [P -> 1..Cardinality(P)]
           /\ \A i, j \in P : <<i, j>> \in R => Ranks(P, R)[i] < Ranks(P, R)[j]
<1> USE DEF Orders
<1>1. ASSUME NEW i \in P
      PROVE  /\ IsFiniteSet(Earlier(P, R, i)) /\ Cardinality(Earlier(P, R, i)) \in Nat
             /\ Cardinality(Earlier(P, R, i)) < Cardinality(P) /\ Cardinality(P) \in Nat
  <2>1. Earlier(P, R, i) \in SUBSET P /\ Earlier(P, R, i) # P
      BY DEF Earlier
  <2>2. IsFiniteSet(Earlier(P, R, i)) /\ Cardinality(Earlier(P, R, i)) <= Cardinality(P)
        /\ Cardinality(P) # Cardinality(Earlier(P, R, i))
      BY <2>1, FS_Subset
  <2> QED BY <2>2, FS_CardinalityType
<1>2. ASSUME NEW i \in P, NEW j \in P, <<i, j>> \in R
      PROVE  Cardinality(Earlier(P, R, i)) < Cardinality(Earlier(P, R, j))
  <2>1. Earlier(P, R, i) \in SUBSET Earlier(P, R, j) /\ Earlier(P, R, i) # Earlier(P, R, j)
      BY <1>2 DEF Earlier
  <2>2. /\ Cardinality(Earlier(P, R, i)) <= Cardinality(Earlier(P, R, j))
        /\ Cardinality(Earlier(P, R, i)) # Cardinality(Earlier(P, R, j))
      BY <1>1, <2>1, FS_Subset
  <2> QED BY <1>1, <2>2
<1> QED BY <1>1, <1>2 DEF Ranks

\* Hence every rank is taken, by one element.
LEMMA RanksAreTaken ==
    ASSUME NEW P, IsFiniteSet(P), NEW R, Orders(R, P)
    PROVE  \A k \in 1..Cardinality(P) : \E i \in P : Ranks(P, R)[i] = k
<1>1. \A i, j \in P : i # j => Ranks(P, R)[i] # Ranks(P, R)[j]
  <2> SUFFICES ASSUME NEW i \in P, NEW j \in P, i # j PROVE Ranks(P, R)[i] # Ranks(P, R)[j]
      OBVIOUS
  <2>1. <<i, j>> \in R \/ <<j, i>> \in R
      BY DEF Orders
  <2>2. Ranks(P, R)[i] \in Int /\ Ranks(P, R)[j] \in Int
      BY LaterRanksHigher
  <2> QED BY <2>1, <2>2, LaterRanksHigher
<1>2. Ranks(P, R) \in Injection(P, 1..Cardinality(P))
    BY <1>1, LaterRanksHigher DEF Injection, IsInjective
<1>3. Cardinality(P) \in Nat
    BY FS_CardinalityType
<1>4. IsFiniteSet(1..Cardinality(P)) /\ Cardinality(1..Cardinality(P)) = Cardinality(P)
    BY <1>3, FS_Interval
<1>5. Ranks(P, R) \in Surjection(P, 1..Cardinality(P))
    BY <1>2, <1>4, FS_Injection
<1> QED BY <1>5 DEF Surjection

\* Hence the elements can be listed in their order, and Listed does.
LEMMA ListExists ==
    ASSUME NEW P, IsFiniteSet(P), NEW R, Orders(R, P)
    PROVE  \E l \in [1..Cardinality(P) -> P] : \A k, m \in 1..Cardinality(P) : k < m => <<l[k], l[m]>> \in R
<1> DEFINE l == [k \in 1..Cardinality(P) |-> CHOOSE i \in P : Ranks(P, R)[i] = k]
<1>1. \A k \in 1..Cardinality(P) : l[k] \in P /\ Ranks(P, R)[l[k]] = k
    BY RanksAreTaken
<1>2. ASSUME NEW k \in 1..Cardinality(P), NEW m \in 1..Cardinality(P), k < m
      PROVE  <<l[k], l[m]>> \in R
  <2>1. /\ l[k] \in P /\ Ranks(P, R)[l[k]] = k
        /\ l[m] \in P /\ Ranks(P, R)[l[m]] = m
      BY <1>1
  <2> HIDE DEF l
  <2>2. <<l[k], l[m]>> \in R \/ <<l[m], l[k]>> \in R
      BY <1>2, <2>1 DEF Orders
  <2>3. <<l[m], l[k]>> \in R => m < k
      BY <2>1, LaterRanksHigher
  <2> QED BY <1>2, <2>2, <2>3
<1>3. l \in [1..Cardinality(P) -> P]
    BY <1>1
<1> QED BY <1>2, <1>3

\* Sorting: Listed has every element of P once, in the order R.
LEMMA ListedInOrder ==
    ASSUME NEW P, IsFiniteSet(P), NEW R, Orders(R, P)
    PROVE  /\ Listed(P, R) \in [1..Cardinality(P) -> P]
           /\ \A i \in P : \E k \in 1..Cardinality(P) : Listed(P, R)[k] = i
           /\ \A k, m \in 1..Cardinality(P) : k < m => <<Listed(P, R)[k], Listed(P, R)[m]>> \in R
<1> DEFINE n == Cardinality(P)
<1>1. /\ Listed(P, R) \in [1..n -> P]
      /\ \A k, m \in 1..n : k < m => <<Listed(P, R)[k], Listed(P, R)[m]>> \in R
  <2>1. PICK l \in [1..n -> P] : \A k, m \in 1..n : k < m => <<l[k], l[m]>> \in R
      BY ListExists
  <2>2. \A k, m \in DOMAIN l : k < m => <<l[k], l[m]>> \in R
      BY <2>1
  <2>3. /\ Listed(P, R) \in [1..n -> P]
        /\ \A k, m \in DOMAIN Listed(P, R) : k < m => <<Listed(P, R)[k], Listed(P, R)[m]>> \in R
      BY <2>2 DEF Listed
  <2> QED BY <2>3
<1>2. n \in Nat
    BY FS_CardinalityType
<1>3. IsFiniteSet(1..n) /\ Cardinality(1..n) = n
    BY <1>2, FS_Interval
<1>4. ASSUME NEW k \in 1..n, NEW m \in 1..n, k # m PROVE Listed(P, R)[k] # Listed(P, R)[m]
  <2>1. k < m \/ m < k
      BY <1>4
  <2>2. <<Listed(P, R)[k], Listed(P, R)[m]>> \in R \/ <<Listed(P, R)[m], Listed(P, R)[k]>> \in R
      BY <1>1, <2>1
  <2> QED BY <1>1, <2>2 DEF Orders
<1>5. Listed(P, R) \in Injection(1..n, P)
    BY <1>1, <1>4 DEF Injection, IsInjective
<1>6. Listed(P, R) \in Surjection(1..n, P)
    BY <1>3, <1>5, FS_Injection
<1> QED BY <1>1, <1>6 DEF Surjection

Increasing(P) == {p \in P \X P : p[1] < p[2]}

LEMMA RisingInOrder ==
    ASSUME NEW P \in SUBSET Int, IsFiniteSet(P)
    PROVE  /\ Rising(P) \in [1..Cardinality(P) -> P]
           /\ \A i \in P : \E k \in 1..Cardinality(P) : Rising(P)[k] = i
           /\ \A k, m \in 1..Cardinality(P) : k < m => Rising(P)[k] < Rising(P)[m]
<1> DEFINE n == Cardinality(P)
<1>1. Orders(Increasing(P), P)
    BY DEF Orders, Increasing
<1>2. PICK l \in [1..n -> P] : \A k, m \in 1..n : k < m => <<l[k], l[m]>> \in Increasing(P)
    BY <1>1, ListExists
<1>3. \A k, m \in DOMAIN l : k < m => l[k] < l[m]
    BY <1>2 DEF Increasing
<1>4. /\ Rising(P) \in [1..n -> P]
      /\ \A k, m \in DOMAIN Rising(P) : k < m => Rising(P)[k] < Rising(P)[m]
    BY <1>3 DEF Rising
<1>5. n \in Nat
    BY FS_CardinalityType
<1>6. IsFiniteSet(1..n) /\ Cardinality(1..n) = n
    BY <1>5, FS_Interval
<1>7. ASSUME NEW k \in 1..n, NEW m \in 1..n, k # m PROVE Rising(P)[k] # Rising(P)[m]
  <2>1. k < m \/ m < k
      BY <1>7
  <2>2. Rising(P)[k] \in Int /\ Rising(P)[m] \in Int
      BY <1>4
  <2>3. Rising(P)[k] < Rising(P)[m] \/ Rising(P)[m] < Rising(P)[k]
      BY <1>4, <2>1
  <2> QED BY <2>2, <2>3
<1>8. Rising(P) \in Injection(1..n, P)
    BY <1>4, <1>7 DEF Injection, IsInjective
<1>9. Rising(P) \in Surjection(1..n, P)
    BY <1>6, <1>8, FS_Injection
<1> QED BY <1>4, <1>9 DEF Surjection

\* Filtering: Filtered has the elements of s that are in T and no others, in
\* their order; `at' says where each stood.
LEMMA FilteredInOrder ==
    ASSUME NEW S, NEW s \in Seq(S), NEW T
    PROVE  /\ IsFiniteSet(Places(s, T)) /\ Cardinality(Places(s, T)) \in 0..Len(s)
           /\ Filtered(s, T) \in Seq(S \cap T)
           /\ Len(Filtered(s, T)) = Cardinality(Places(s, T))
           /\ \E at \in [1..Cardinality(Places(s, T)) -> Places(s, T)] :
                /\ \A k \in 1..Cardinality(Places(s, T)) : Filtered(s, T)[k] = s[at[k]]
                /\ \A p \in Places(s, T) : \E k \in 1..Cardinality(Places(s, T)) : at[k] = p
                /\ \A k, l \in 1..Cardinality(Places(s, T)) : k < l => at[k] < at[l]
<1> DEFINE P == Places(s, T)
           at == Rising(P)
           n == Cardinality(P)
<1>1. P \in SUBSET (1..Len(s)) /\ P \in SUBSET Int
    BY DEF Places
<1>2. IsFiniteSet(P) /\ n \in Nat /\ n <= Len(s)
  <2>1. Len(s) \in Nat
      OBVIOUS
  <2>2. IsFiniteSet(1..Len(s)) /\ Cardinality(1..Len(s)) = Len(s)
      BY <2>1, FS_Interval
  <2> QED BY <1>1, <2>2, FS_Subset, FS_CardinalityType
<1>3. /\ at \in [1..n -> P]
      /\ \A p \in P : \E k \in 1..n : at[k] = p
      /\ \A k, l \in 1..n : k < l => at[k] < at[l]
    BY <1>1, <1>2, RisingInOrder
<1>4. Filtered(s, T) = [k \in 1..n |-> s[at[k]]]
    BY <1>3 DEF Filtered
<1>5. \A p \in P : s[p] \in S \cap T
    BY DEF Places
<1> HIDE DEF P, at
<1>6. \A k \in 1..n : s[at[k]] \in S \cap T
    BY <1>3, <1>5
<1>7. Filtered(s, T) \in Seq(S \cap T) /\ Len(Filtered(s, T)) = n
    BY <1>2, <1>4, <1>6
<1>8. /\ at \in [1..n -> P]
      /\ \A k \in 1..n : Filtered(s, T)[k] = s[at[k]]
      /\ \A p \in P : \E k \in 1..n : at[k] = p
      /\ \A k, l \in 1..n : k < l => at[k] < at[l]
    BY <1>3, <1>4
<1>9. IsFiniteSet(P) /\ n \in 0..Len(s)
    BY <1>2
<1> QED BY <1>7, <1>8, <1>9, Zenon DEF P

LEMMA OneTo == ASSUME NEW n \in Nat PROVE IsFiniteSet(1..n) /\ Cardinality(1..n) = n
BY FS_Interval

\* A list that names every element of P once is as long as P is large.
LEMMA ListedOnce ==
    ASSUME NEW n \in Nat, NEW P, NEW l \in [1..n -> P],
           \A i \in P : \E k \in 1..n : l[k] = i,
           \A k, m \in 1..n : k # m => l[k] # l[m]
    PROVE  Cardinality(P) = n
<1>1. IsFiniteSet(1..n) /\ Cardinality(1..n) = n
    BY FS_Interval
<1>2. l \in Surjection(1..n, P) /\ l \in Injection(1..n, P)
    BY DEF Surjection, Injection, IsInjective
<1> QED BY <1>1, <1>2, FS_Surjection

\* The k-th of the places of P has k - 1 of them before it.
LEMMA RankOf ==
    ASSUME NEW P \in SUBSET Int, NEW n \in Nat, NEW at \in [1..n -> P],
           \A p \in P : \E k \in 1..n : at[k] = p,
           \A k, l \in 1..n : k < l => at[k] < at[l],
           NEW k \in 1..n
    PROVE  Cardinality({p \in P : p < at[k]}) = k - 1
<1> DEFINE before == {p \in P : p < at[k]}
           list == [j \in 1..(k - 1) |-> at[j]]
<1>1. k - 1 \in Nat /\ \A j \in 1..(k - 1) : j \in 1..n /\ j < k
    OBVIOUS
<1>2. list \in [1..(k - 1) -> before]
    BY <1>1
<1>3. ASSUME NEW p \in before PROVE \E j \in 1..(k - 1) : list[j] = p
  <2>1. PICK j \in 1..n : at[j] = p
      OBVIOUS
  <2>2. at[k] \in Int /\ at[j] \in Int /\ at[j] < at[k]
      BY <2>1
  <2>3. j < k
    <3>1. j # k
        BY <2>2
    <3>2. ~(k < j)
        BY <2>2
    <3> QED BY <3>1, <3>2
  <2> QED BY <2>1, <2>3
<1>4. \A i, j \in 1..(k - 1) : i # j => list[i] # list[j]
  <2> SUFFICES ASSUME NEW i \in 1..(k - 1), NEW j \in 1..(k - 1), i # j PROVE list[i] # list[j]
      OBVIOUS
  <2>1. i < j \/ j < i
      OBVIOUS
  <2>2. at[i] \in Int /\ at[j] \in Int /\ (at[i] < at[j] \/ at[j] < at[i])
      BY <1>1, <2>1
  <2> QED BY <2>2
<1> HIDE DEF before, list
<1>5. Cardinality(before) = k - 1
    BY <1>1, <1>2, <1>3, <1>4, ListedOnce
<1> QED BY <1>5 DEF before

\* A nonempty set of naturals has a least element.
LEMMA LeastOf ==
    ASSUME NEW S, S \subseteq Nat, S # {}
    PROVE  \E m \in S : \A n \in S : m <= n
<1>1. PICK m \in S : \A n \in S : ~ (<<n, m>> \in OpToRel(<, Nat))
    BY NatLessThanWellFounded, WFMin, Zenon
<1>2. \A n \in S : <<n, m>> \in Nat \X Nat /\ <<n, m>>[1] = n /\ <<n, m>>[2] = m
    OBVIOUS
<1>3. \A n \in S : ~ (n < m)
    BY <1>1, <1>2, Zenon DEF OpToRel
<1> QED BY <1>3
=============================================================================
