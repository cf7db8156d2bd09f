---------------------------- MODULE NumberProofs ----------------------------
(***************************************************************************)
(* Lemmas about the arithmetic the models are built from: truncated        *)
(* quotients, the sums MapThenSumSet takes over a finite set, and the      *)
(* largest number of one.                                                  *)
(*                                                                         *)
(* MapThenSumSet is a recursive function over the subsets of the set.  The *)
(* lemmas first show that there is such a function (SumExists), then use   *)
(* its recursion (TotalStep) in inductions that take, among the subsets    *)
(* for which a claim fails, a least one (LeastSubset).                     *)
(***************************************************************************)
EXTENDS Integers, FiniteSetsExt, FiniteSetTheorems, WellFoundedInduction, TLAPS

-----------------------------------------------------------------------------
(* Quotients.                                                              *)

(* A quotient of natural numbers is one, and its product with the divisor  *)
(* is the dividend but for a remainder.                                    *)
LEMMA Quotient ==
  ASSUME NEW a \in Nat, NEW b \in Nat \ {0}
  PROVE  a \div b \in Nat /\ (a \div b) * b <= a /\ a < (a \div b) * b + b
  OBVIOUS

(* Products of natural numbers are natural, and grow with their factors. *)
LEMMA Product ==
  ASSUME NEW a \in Nat, NEW b \in Nat, NEW c \in Nat
  PROVE  a * b \in Nat /\ (a <= b => a * c <= b * c)
  OBVIOUS

(* A quotient is at most c when the dividend is at most c times the divisor. *)
LEMMA QuotientAtMost ==
  ASSUME NEW a \in Nat, NEW b \in Nat \ {0}, NEW c \in Nat, a <= c * b
  PROVE  a \div b <= c
  <1> DEFINE q == a \div b
  <1>1. q \in Nat /\ q * b <= a BY Quotient
  <1>2. SUFFICES ASSUME c + 1 <= q PROVE FALSE BY <1>1
  <1>3. (c + 1) * b <= q * b BY <1>1, <1>2, Product
  <1>4. (c + 1) * b = c * b + b OBVIOUS
  <1> HIDE DEF q
  <1> QED BY <1>1, <1>3, <1>4, Product

(* A larger dividend has no smaller quotient. *)
LEMMA QuotientMonotone ==
  ASSUME NEW a \in Nat, NEW b \in Nat, NEW c \in Nat \ {0}, a <= b
  PROVE  a \div c <= b \div c
  <1> DEFINE p == a \div c
             q == b \div c
  <1>1. p \in Nat /\ q \in Nat /\ p * c <= a /\ b < q * c + c BY Quotient
  <1>2. SUFFICES ASSUME q + 1 <= p PROVE FALSE BY <1>1
  <1>3. (q + 1) * c <= p * c BY <1>1, <1>2, Product
  <1>4. (q + 1) * c = q * c + c BY <1>1
  <1> HIDE DEF p, q
  <1> QED BY <1>1, <1>3, <1>4, Product

(* A quotient of a multiple is exact. *)
LEMMA QuotientExact == ASSUME NEW a \in Nat, NEW b \in Nat \ {0} PROVE (a * b) \div b = a
  <1> DEFINE q == (a * b) \div b
  <1>1. a * b \in Nat BY Product
  <1>2. q \in Nat /\ q * b <= a * b /\ a * b < q * b + b BY <1>1, Quotient
  <1>3. q <= a BY <1>1, QuotientAtMost
  <1> HIDE DEF q
  <1>4. SUFFICES ASSUME q + 1 <= a PROVE FALSE BY <1>2, <1>3 DEF q
  <1>5. (q + 1) * b <= a * b BY <1>2, <1>4, Product
  <1>6. (q + 1) * b = q * b + b BY <1>2
  <1> QED BY <1>1, <1>2, <1>5, <1>6, Product

(* Truncating two parts loses at most one more than truncating the whole. *)
LEMMA QuotientParts ==
  ASSUME NEW a \in Nat, NEW b \in Nat, NEW c \in Nat \ {0}
  PROVE  /\ a \div c + b \div c <= (a + b) \div c
         /\ (a + b) \div c <= a \div c + b \div c + 1
  <1> DEFINE p == a \div c
             q == b \div c
             s == (a + b) \div c
  <1>1. /\ p \in Nat /\ p * c <= a /\ a < p * c + c
        /\ q \in Nat /\ q * c <= b /\ b < q * c + c
    BY Quotient
  <1>2. s \in Nat /\ s * c <= a + b /\ a + b < s * c + c
    <2>1. a + b \in Nat OBVIOUS
    <2> QED BY <2>1, Quotient
  <1> HIDE DEF p, q, s
  <1>3. p * c \in Nat /\ q * c \in Nat /\ s * c \in Nat BY <1>1, <1>2, Product
  <1>4. p + q <= s
    <2>1. SUFFICES ASSUME s + 1 <= p + q PROVE FALSE BY <1>1, <1>2
    <2>2. (s + 1) * c <= (p + q) * c
      <3>1. s + 1 \in Nat /\ p + q \in Nat BY <1>1, <1>2
      <3> QED BY <2>1, <3>1, Product
    <2>3. (s + 1) * c = s * c + c /\ (p + q) * c = p * c + q * c BY <1>1, <1>2
    <2> QED BY <1>1, <1>2, <1>3, <2>2, <2>3
  <1>5. s <= p + q + 1
    <2>1. SUFFICES ASSUME p + q + 2 <= s PROVE FALSE BY <1>1, <1>2
    <2>2. (p + q + 2) * c <= s * c
      <3>1. p + q + 2 \in Nat BY <1>1
      <3> QED BY <1>2, <2>1, <3>1, Product
    <2>3. (p + q + 2) * c = p * c + q * c + 2 * c BY <1>1
    <2> QED BY <1>1, <1>2, <1>3, <2>2, <2>3
  <1> QED BY <1>4, <1>5 DEF p, q, s

(* A factor both sides have may be dropped. *)
LEMMA CancelFactor ==
  ASSUME NEW a \in Nat, NEW b \in Nat, NEW c \in Nat \ {0}, a * c <= b * c
  PROVE  a <= b
  <1>1. a * c \in Nat /\ b * c \in Nat BY Product
  <1>2. (a * c) \div c <= (b * c) \div c BY <1>1, QuotientMonotone
  <1> QED BY <1>2, QuotientExact

(* A whole number of divisors goes into a quotient exactly. *)
LEMMA QuotientPlus ==
  ASSUME NEW a \in Nat, NEW b \in Nat, NEW c \in Nat \ {0}
  PROVE  (a + b * c) \div c = a \div c + b
  <1> DEFINE p == a \div c
             s == (a + b * c) \div c
  <1>1. b * c \in Nat /\ (b * c) \div c = b BY Product, QuotientExact
  <1>2. p \in Nat /\ p * c <= a /\ a < p * c + c BY Quotient
  <1>3. p + b <= s BY <1>1, QuotientParts
  <1>4. s \in Nat /\ s * c <= a + b * c
    <2>1. a + b * c \in Nat BY <1>1
    <2> QED BY <2>1, Quotient
  <1> HIDE DEF p, s
  <1>5. SUFFICES ASSUME p + b + 1 <= s PROVE FALSE BY <1>2, <1>3, <1>4 DEF p, s
  <1>6. (p + b + 1) * c <= s * c
    <2>1. p + b + 1 \in Nat BY <1>2
    <2> QED BY <1>4, <1>5, <2>1, Product
  <1>7. (p + b + 1) * c = p * c + b * c + c BY <1>2
  <1>8. p * c \in Nat /\ s * c \in Nat BY <1>2, <1>4, Product
  <1> QED BY <1>1, <1>2, <1>4, <1>6, <1>7, <1>8

-----------------------------------------------------------------------------
(* Sums.                                                                   *)

(* g tells, of every subset of S, the sum of b's values there.  The element *)
(* a sum takes first is the one MapThenSumSet chooses.                     *)
First(S) == CHOOSE x \in S : TRUE
IsSum(b, S, g) ==
    g = [s \in SUBSET S |-> IF s = {} THEN 0 ELSE b[First(s)] + g[s \ {First(s)}]]
Total(b, S) == (CHOOSE g : IsSum(b, S, g))[S]

(* The library's sum is this one. *)
LEMMA SumIsTotal ==
  ASSUME NEW S, NEW b
  PROVE  MapThenSumSet(LAMBDA x : b[x], S) = Total(b, S)
  BY DEF MapThenSumSet, MapThenFoldSet, Total, IsSum, First

(* Induction over the subsets of a finite set, as a least counterexample.  *)
LEMMA LeastSubset ==
  ASSUME NEW S, IsFiniteSet(S), NEW T \in SUBSET SUBSET S, T # {}
  PROVE  \E s \in T : \A t \in T : t \subseteq s => t = s
  <1>1. /\ IsWellFoundedOn(StrictSubsetOrdering(S), FiniteSubsetsOf(S))
        /\ FiniteSubsetsOf(S) = SUBSET S
    BY FS_StrictSubsetOrderingWellFounded, FS_FiniteSubsetsOfFinite
  <1> DEFINE R == StrictSubsetOrdering(S)
  <1>2. PICK s \in T : \A t \in T : <<t, s>> \notin R
    <2>1. T \in SUBSET FiniteSubsetsOf(S) /\ IsWellFoundedOn(R, FiniteSubsetsOf(S)) BY <1>1
    <2> HIDE DEF R
    <2> QED BY <2>1, WFMin, Zenon
  <1>3. ASSUME NEW t \in T, t \subseteq s, t # s PROVE FALSE
    <2>1. t \in SUBSET S /\ s \in SUBSET S OBVIOUS
    <2>2. <<t, s>> \in R
      BY <1>3, <2>1 DEF StrictSubsetOrdering
    <2> QED BY <1>2, <2>2
  <1> QED BY <1>3

(* The first element of a set is one of its elements.                      *)
LEMMA FirstIn == ASSUME NEW S, S # {} PROVE First(S) \in S
  BY DEF First

(* A sum over S tells the sums over every subset of S ... *)
LEMMA SumOfSubset ==
  ASSUME NEW b, NEW S, NEW g, IsSum(b, S, g), NEW T \in SUBSET S
  PROVE  IsSum(b, T, [s \in SUBSET T |-> g[s]])
  <1> DEFINE h == [s \in SUBSET T |-> g[s]]
  <1>1. ASSUME NEW s \in SUBSET T
        PROVE  h[s] = IF s = {} THEN 0 ELSE b[First(s)] + h[s \ {First(s)}]
    <2>1. s \in SUBSET S /\ s \ {First(s)} \in SUBSET T OBVIOUS
    <2>2. g[s] = IF s = {} THEN 0 ELSE b[First(s)] + g[s \ {First(s)}]
      BY <2>1 DEF IsSum
    <2> QED BY <2>1, <2>2
  <1>2. h = [s \in SUBSET T |-> h[s]] OBVIOUS
  <1> HIDE DEF h
  <1>3. h = [s \in SUBSET T |-> IF s = {} THEN 0 ELSE b[First(s)] + h[s \ {First(s)}]]
    BY <1>1, <1>2
  <1> QED BY <1>3 DEF IsSum, h

(* ... and there is only one. *)
LEMMA SumUnique ==
  ASSUME NEW b, NEW S, IsFiniteSet(S), NEW g, NEW h, IsSum(b, S, g), IsSum(b, S, h)
  PROVE  g = h
  <1> DEFINE T == {s \in SUBSET S : g[s] # h[s]}
  <1>1. CASE T = {}
    <2>1. \A s \in SUBSET S : g[s] = h[s] BY <1>1
    <2>2. g = [s \in SUBSET S |-> g[s]] /\ h = [s \in SUBSET S |-> h[s]] BY DEF IsSum
    <2> QED BY <2>1, <2>2
  <1>2. CASE T # {}
    <2>0. T \in SUBSET SUBSET S OBVIOUS
    <2> HIDE DEF T
    <2>1. PICK s \in T : \A t \in T : t \subseteq s => t = s BY <1>2, <2>0, LeastSubset
    <2> USE DEF T
    <2>2. /\ g[s] = IF s = {} THEN 0 ELSE b[First(s)] + g[s \ {First(s)}]
          /\ h[s] = IF s = {} THEN 0 ELSE b[First(s)] + h[s \ {First(s)}]
      BY DEF IsSum
    <2>3. s # {} BY <2>2
    <2>4. s \ {First(s)} \notin T BY <2>1, <2>3, FirstIn
    <2>5. s \ {First(s)} \in SUBSET S OBVIOUS
    <2> QED BY <2>2, <2>3, <2>4, <2>5
  <1> QED BY <1>1, <1>2

(* The sum over a subset is what the function of the whole says.           *)
LEMMA TotalOfSubset ==
  ASSUME NEW b, NEW S, IsFiniteSet(S), NEW g, IsSum(b, S, g), NEW T \in SUBSET S
  PROVE  Total(b, T) = g[T]
  <1> DEFINE h == [s \in SUBSET T |-> g[s]]
             k == CHOOSE k : IsSum(b, T, k)
  <1>1. IsSum(b, T, h) BY SumOfSubset
  <1>2. h[T] = g[T] OBVIOUS
  <1> HIDE DEF h
  <1>3. IsSum(b, T, k) BY <1>1
  <1> HIDE DEF k
  <1>4. IsFiniteSet(T) BY FS_Subset
  <1>5. k = h BY <1>1, <1>3, <1>4, SumUnique
  <1> QED BY <1>2, <1>5 DEF Total, k

(* There is one for every finite set. *)
LEMMA SumExists == ASSUME NEW b, NEW S, IsFiniteSet(S) PROVE \E g : IsSum(b, S, g)
  <1> DEFINE T == {s \in SUBSET S : ~ \E g : IsSum(b, s, g)}
  <1> SUFFICES ASSUME T # {} PROVE FALSE
    OBVIOUS
  <1>0. T \in SUBSET SUBSET S OBVIOUS
  <1> HIDE DEF T
  <1>1. PICK s \in T : \A t \in T : t \subseteq s => t = s BY <1>0, LeastSubset
  <1> USE DEF T
  <1>2. ASSUME NEW t \in SUBSET s, t # s PROVE \E g : IsSum(b, t, g)
    BY <1>1, <1>2
  <1>3. \A t \in SUBSET s : IsFiniteSet(t) BY FS_Subset
  <1> DEFINE h == [t \in SUBSET s |->
                     IF t = {} THEN 0 ELSE b[First(t)] + Total(b, t \ {First(t)})]
  <1>4. ASSUME NEW t \in SUBSET s, t # s PROVE h[t] = Total(b, t)
    <2>1. PICK g : IsSum(b, t, g) BY <1>2, <1>4
    <2>2. Total(b, t) = g[t] BY <1>3, <2>1, TotalOfSubset
    <2>3. g[t] = IF t = {} THEN 0 ELSE b[First(t)] + g[t \ {First(t)}]
      BY <2>1 DEF IsSum
    <2>4. g[t \ {First(t)}] = Total(b, t \ {First(t)})
      BY <1>3, <2>1, TotalOfSubset
    <2> QED BY <2>2, <2>3, <2>4
  <1>5. ASSUME NEW t \in SUBSET s
        PROVE  h[t] = IF t = {} THEN 0 ELSE b[First(t)] + h[t \ {First(t)}]
    <2>1. CASE t = {} BY <2>1
    <2>2. CASE t # {}
      <3>1. t \ {First(t)} \in SUBSET s /\ t \ {First(t)} # s BY <2>2, FirstIn
      <3>2. h[t \ {First(t)}] = Total(b, t \ {First(t)}) BY <1>4, <3>1
      <3> QED BY <2>2, <3>2
    <2> QED BY <2>1, <2>2
  <1>6. h = [t \in SUBSET s |-> h[t]] OBVIOUS
  <1> HIDE DEF h
  <1>7. IsSum(b, s, h)
    <2>1. h = [t \in SUBSET s |-> IF t = {} THEN 0 ELSE b[First(t)] + h[t \ {First(t)}]]
      BY <1>5, <1>6
    <2> QED BY <2>1 DEF IsSum
  <1> QED BY <1>1, <1>7

(* The recursion of a sum. *)
LEMMA TotalStep ==
  ASSUME NEW b, NEW S, IsFiniteSet(S)
  PROVE  Total(b, S) = IF S = {} THEN 0 ELSE b[First(S)] + Total(b, S \ {First(S)})
  <1>1. PICK g : IsSum(b, S, g) BY SumExists
  <1>2. Total(b, S) = g[S] /\ Total(b, S \ {First(S)}) = g[S \ {First(S)}]
    BY <1>1, TotalOfSubset
  <1>3. g[S] = IF S = {} THEN 0 ELSE b[First(S)] + g[S \ {First(S)}]
    BY <1>1 DEF IsSum
  <1> QED BY <1>2, <1>3

(* A sum of natural numbers is one. *)
LEMMA TotalNat ==
  ASSUME NEW S, IsFiniteSet(S), NEW b, \A x \in S : b[x] \in Nat
  PROVE  Total(b, S) \in Nat
  <1> DEFINE T == {s \in SUBSET S : Total(b, s) \notin Nat}
  <1> SUFFICES ASSUME T # {} PROVE FALSE
    OBVIOUS
  <1>0. T \in SUBSET SUBSET S OBVIOUS
  <1> HIDE DEF T
  <1>1. PICK s \in T : \A t \in T : t \subseteq s => t = s BY <1>0, LeastSubset
  <1> USE DEF T
  <1>2. IsFiniteSet(s) BY FS_Subset
  <1>3. Total(b, s) = IF s = {} THEN 0 ELSE b[First(s)] + Total(b, s \ {First(s)})
    BY <1>2, TotalStep
  <1>4. s # {} BY <1>3
  <1>5. First(s) \in s BY <1>4, FirstIn
  <1>6. s \ {First(s)} \in SUBSET S /\ s \ {First(s)} \notin T BY <1>1, <1>5
  <1>7. b[First(s)] \in Nat /\ Total(b, s \ {First(s)}) \in Nat BY <1>5, <1>6
  <1> QED BY <1>3, <1>4, <1>7

(* Functions that agree on a set have one sum there. *)
LEMMA TotalAgrees ==
  ASSUME NEW S, IsFiniteSet(S), NEW a, NEW b, \A x \in S : a[x] = b[x]
  PROVE  Total(a, S) = Total(b, S)
  <1> DEFINE T == {s \in SUBSET S : Total(a, s) # Total(b, s)}
  <1> SUFFICES ASSUME T # {} PROVE FALSE
    OBVIOUS
  <1>0. T \in SUBSET SUBSET S OBVIOUS
  <1> HIDE DEF T
  <1>1. PICK s \in T : \A t \in T : t \subseteq s => t = s BY <1>0, LeastSubset
  <1> USE DEF T
  <1>2. IsFiniteSet(s) BY FS_Subset
  <1>3. /\ Total(a, s) = IF s = {} THEN 0 ELSE a[First(s)] + Total(a, s \ {First(s)})
        /\ Total(b, s) = IF s = {} THEN 0 ELSE b[First(s)] + Total(b, s \ {First(s)})
    BY <1>2, TotalStep
  <1>4. s # {} BY <1>3
  <1>5. First(s) \in s BY <1>4, FirstIn
  <1>6. s \ {First(s)} \in SUBSET S /\ s \ {First(s)} \notin T BY <1>1, <1>5
  <1> QED BY <1>3, <1>4, <1>5, <1>6

(* Changing one balance changes the sum by the difference, whatever order  *)
(* the sum is taken in.                                                    *)
LEMMA TotalChanges ==
  ASSUME NEW S, IsFiniteSet(S), NEW a, NEW b, NEW u \in S,
         \A x \in S : a[x] \in Nat /\ b[x] \in Nat,
         \A x \in S \ {u} : a[x] = b[x]
  PROVE  Total(a, S) - a[u] = Total(b, S) - b[u]
  <1> DEFINE T == {s \in SUBSET S : u \in s /\ Total(a, s) - a[u] # Total(b, s) - b[u]}
  <1> SUFFICES ASSUME T # {} PROVE FALSE
    OBVIOUS
  <1>0. T \in SUBSET SUBSET S OBVIOUS
  <1> HIDE DEF T
  <1>1. PICK s \in T : \A t \in T : t \subseteq s => t = s BY <1>0, LeastSubset
  <1> USE DEF T
  <1>2. IsFiniteSet(s) /\ s # {} BY FS_Subset
  <1> DEFINE x == First(s)
             rest == s \ {x}
  <1>3. x \in s BY <1>2, FirstIn
  <1> HIDE DEF x
  <1>4. Total(a, s) = a[x] + Total(a, rest) /\ Total(b, s) = b[x] + Total(b, rest)
    BY <1>2, TotalStep DEF x
  <1>5. rest \in SUBSET S /\ rest \notin T /\ IsFiniteSet(rest) BY <1>1, <1>3, FS_Subset
  <1>6. Total(a, rest) \in Nat /\ Total(b, rest) \in Nat
    BY <1>5, TotalNat
  <1>7. CASE x = u
    <2>1. Total(a, rest) = Total(b, rest) BY <1>5, <1>7, TotalAgrees
    <2> QED BY <1>4, <1>6, <1>7, <2>1
  <1>8. CASE x # u
    <2>1. Total(a, rest) - a[u] = Total(b, rest) - b[u] BY <1>5, <1>8
    <2>2. a[x] = b[x] /\ a[x] \in Nat BY <1>3, <1>8
    <2>3. a[u] \in Nat /\ b[u] \in Nat OBVIOUS
    <2>4. Total(a, s) - a[u] = Total(b, s) - b[u] BY <1>4, <1>6, <2>1, <2>2, <2>3
    <2> QED BY <2>4
  <1> QED BY <1>7, <1>8

(* A sum of zeros is zero.                                                 *)
LEMMA TotalZero ==
  ASSUME NEW S, IsFiniteSet(S), NEW b, \A x \in S : b[x] = 0
  PROVE  Total(b, S) = 0
  <1> DEFINE T == {s \in SUBSET S : Total(b, s) # 0}
  <1> SUFFICES ASSUME T # {} PROVE FALSE
    OBVIOUS
  <1>0. T \in SUBSET SUBSET S OBVIOUS
  <1> HIDE DEF T
  <1>1. PICK s \in T : \A t \in T : t \subseteq s => t = s BY <1>0, LeastSubset
  <1> USE DEF T
  <1>2. IsFiniteSet(s) BY FS_Subset
  <1>3. Total(b, s) = IF s = {} THEN 0 ELSE b[First(s)] + Total(b, s \ {First(s)})
    BY <1>2, TotalStep
  <1>4. s # {} BY <1>3
  <1>5. First(s) \in s BY <1>4, FirstIn
  <1>6. Total(b, s \ {First(s)}) = 0 BY <1>1, <1>5
  <1> QED BY <1>3, <1>4, <1>5, <1>6

(* The order of a sum does not matter: any element may be taken first. *)
LEMMA TotalSplit ==
  ASSUME NEW S, IsFiniteSet(S), NEW b, \A x \in S : b[x] \in Nat, NEW u \in S
  PROVE  Total(b, S) = b[u] + Total(b, S \ {u})
  <1> DEFINE T == {s \in SUBSET S : \E v \in s : Total(b, s) # b[v] + Total(b, s \ {v})}
  <1> SUFFICES ASSUME T # {} PROVE FALSE
    OBVIOUS
  <1>1. T \in SUBSET SUBSET S OBVIOUS
  <1> HIDE DEF T
  <1>2. PICK s \in T : \A t \in T : t \subseteq s => t = s BY <1>1, LeastSubset
  <1> USE DEF T
  <1>3. PICK v \in s : Total(b, s) # b[v] + Total(b, s \ {v}) OBVIOUS
  <1> DEFINE x == First(s)
             p == s \ {x}
             q == s \ {v}
             rest == p \ {v}
  <1>4. x \in s BY <1>3, FirstIn
  <1>5. IsFiniteSet(s) /\ IsFiniteSet(rest) BY FS_Subset
  <1>6. Total(b, s) = b[x] + Total(b, p) BY <1>3, <1>5, TotalStep
  <1> HIDE DEF x
  <1>7. x # v BY <1>3, <1>6
  <1>8. v \in p /\ x \in q /\ q \ {x} = rest BY <1>4, <1>7
  <1>9. p \notin T /\ q \notin T /\ p \in SUBSET S /\ q \in SUBSET S BY <1>2, <1>4
  <1>10. Total(b, p) = b[v] + Total(b, rest) BY <1>8, <1>9
  <1>11. Total(b, q) = b[x] + Total(b, rest) BY <1>8, <1>9
  <1>12. b[x] \in Nat /\ b[v] \in Nat BY <1>3, <1>4
  <1>13. Total(b, rest) \in Nat BY <1>5, TotalNat
  <1> HIDE DEF p, q, rest
  <1>14. Total(b, s) = b[v] + Total(b, q)
    BY <1>6, <1>10, <1>11, <1>12, <1>13
  <1> QED BY <1>3, <1>14 DEF q

(* Every element of S counts for nothing, or for as much or more in T.     *)
Dominates(a, S, b, T) == \A x \in S : a[x] = 0 \/ (x \in T /\ a[x] <= b[x])

(* Then the sum over S is at most the sum over T.                          *)
LEMMA TotalAtMost ==
  ASSUME NEW R, IsFiniteSet(R), NEW a, NEW b, \A x \in R : a[x] \in Nat /\ b[x] \in Nat,
         NEW S \in SUBSET R, NEW T \in SUBSET R, Dominates(a, S, b, T)
  PROVE  Total(a, S) <= Total(b, T)
  <1> DEFINE Q == {s \in SUBSET R : \E t \in SUBSET R :
                      Dominates(a, s, b, t) /\ ~(Total(a, s) <= Total(b, t))}
  <1> SUFFICES ASSUME Q # {} PROVE FALSE
    OBVIOUS
  <1>1. Q \in SUBSET SUBSET R OBVIOUS
  <1> HIDE DEF Q
  <1>2. PICK s \in Q : \A t \in Q : t \subseteq s => t = s BY <1>1, LeastSubset
  <1> USE DEF Q
  <1>3. PICK t \in SUBSET R : Dominates(a, s, b, t) /\ ~(Total(a, s) <= Total(b, t))
    OBVIOUS
  <1>4. s \in SUBSET R OBVIOUS
  <1>5. \A z \in SUBSET R : IsFiniteSet(z) /\ Total(a, z) \in Nat /\ Total(b, z) \in Nat
    <2> TAKE z \in SUBSET R
    <2>1. IsFiniteSet(z) BY FS_Subset
    <2> QED BY <2>1, TotalNat
  <1>6. \A z \in SUBSET R : z \subseteq s /\ z # s => z \notin Q BY <1>2
  <1>7. s # {}
    <2>1. Total(a, {}) = 0 BY FS_EmptySet, TotalStep
    <2> QED BY <1>3, <1>5, <2>1
  <1>8. PICK u \in s : TRUE BY <1>7
  <1> DEFINE p == s \ {u}
             q == t \ {u}
  <1>9. p \in SUBSET R /\ q \in SUBSET R /\ p \notin Q BY <1>4, <1>6, <1>8
  <1>10. \A z \in SUBSET R : Dominates(a, p, b, z) => Total(a, p) <= Total(b, z)
    BY <1>9
  <1> HIDE DEF Q
  <1>11. a[u] \in Nat /\ b[u] \in Nat BY <1>4, <1>8
  <1>12. Total(a, s) = a[u] + Total(a, p) BY <1>4, <1>5, <1>8, TotalSplit
  <1>13. CASE a[u] = 0
    <2>1. Dominates(a, p, b, t) BY <1>3 DEF Dominates
    <2>2. Total(a, p) <= Total(b, t) BY <1>10, <2>1
    <2>3. Total(a, p) \in Nat BY <1>5, <1>9
    <2> HIDE DEF p
    <2> QED BY <1>3, <1>12, <1>13, <2>2, <2>3
  <1>14. CASE a[u] # 0
    <2>1. u \in t /\ a[u] <= b[u] BY <1>3, <1>8, <1>14 DEF Dominates
    <2>2. Dominates(a, p, b, q) BY <1>3 DEF Dominates
    <2>3. Total(a, p) <= Total(b, q) BY <1>9, <1>10, <2>2
    <2>4. Total(b, t) = b[u] + Total(b, q) BY <1>5, <2>1, TotalSplit
    <2>5. Total(a, p) \in Nat /\ Total(b, q) \in Nat BY <1>5, <1>9
    <2> HIDE DEF p, q
    <2> QED BY <1>3, <1>11, <1>12, <2>1, <2>3, <2>4, <2>5
  <1> QED BY <1>13, <1>14

-----------------------------------------------------------------------------
(* The largest number of a finite set.                                     *)

HasLargest(S) == \E x \in S : \A y \in S : x >= y

(* Every non-empty subset of a finite set of numbers has a largest one.    *)
LEMMA FiniteHasLargest ==
  ASSUME NEW S, IsFiniteSet(S)
  PROVE  \A s \in SUBSET S : s # {} /\ s \subseteq Nat => HasLargest(s)
  <1> DEFINE T == {s \in SUBSET S : s # {} /\ s \subseteq Nat /\ ~HasLargest(s)}
  <1> SUFFICES ASSUME T # {} PROVE FALSE
    OBVIOUS
  <1>1. T \in SUBSET SUBSET S OBVIOUS
  <1> HIDE DEF T
  <1>2. PICK s \in T : \A t \in T : t \subseteq s => t = s BY <1>1, LeastSubset
  <1> USE DEF T
  <1>3. PICK v : v \in s OBVIOUS
  <1> DEFINE rest == s \ {v}
  <1>4. rest \notin T /\ rest \in SUBSET S /\ s \subseteq Nat BY <1>2, <1>3
  <1>5. CASE rest = {}
    <2>1. s = {v} /\ v \in Nat BY <1>3, <1>4, <1>5
    <2>2. v >= v BY <2>1
    <2> QED BY <2>1, <2>2 DEF HasLargest
  <1>6. CASE rest # {}
    <2>1. PICK x \in rest : \A y \in rest : x >= y BY <1>4, <1>6 DEF HasLargest
    <2>2. x \in Nat /\ v \in Nat BY <1>3, <1>4, <2>1
    <2>3. CASE x >= v
      <3>1. \A y \in s : x >= y BY <2>1, <2>3
      <3> QED BY <2>1, <3>1 DEF HasLargest
    <2>4. CASE v >= x
      <3>1. \A y \in s : v >= y BY <1>4, <2>1, <2>2, <2>4
      <3> QED BY <1>3, <3>1 DEF HasLargest
    <2> QED BY <2>2, <2>3, <2>4
  <1> QED BY <1>5, <1>6

(* So the operator Max finds it.                                           *)
LEMMA Largest ==
  ASSUME NEW S, IsFiniteSet(S), S # {}, S \subseteq Nat
  PROVE  Max(S) \in S /\ \A y \in S : y <= Max(S)
  <1>1. \E x \in S : \A y \in S : x >= y BY FiniteHasLargest DEF HasLargest
  <1>2. Max(S) \in S /\ \A y \in S : Max(S) >= y BY <1>1 DEF Max
  <1> QED BY <1>2
=============================================================================
