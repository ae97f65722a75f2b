----------------------------- MODULE JobsProofs -----------------------------
(***************************************************************************)
(* Proofs about the jobs beside the index: what retention leaves, what is  *)
(* posted of the notable transfers, and what the weekly report says.       *)
(*                                                                         *)
(* Retention, for any windows, caps and bounds.                            *)
(* Every window ends at one instant, and every table is cut back from the  *)
(* same one.  That instant never goes back: the minute it names is held as *)
(* long as no later one is, since a cut stops a week short of it.  So what *)
(* is once said of everything from a window's beginning on stays said of   *)
(* less and less, and an action has to answer only for what it writes or   *)
(* deletes. Addresses are cut by block instead, and are held as far back   *)
(* as the fewest blocks a prune has made of a week.                        *)
(*                                                                         *)
(* Drafts, for any feed, events, ticks and deaths: the drafts posted are   *)
(* the first ones, and what a tick has before a draft it is still to send  *)
(* is posted or is sent first; a draft is posted once by each tick that    *)
(* holds it, and again for an answer that was lost and for a tick cut off. *)
(*                                                                         *)
(* WeeklyReport, for any chain, week and guesses: a search keeps midnight  *)
(* between its bounds, so what is read are closes, and between two closes  *)
(* lie the blocks of the days between them.                                *)
(***************************************************************************)
EXTENDS Retention, MCJobs, FiniteSetTheorems, SequenceTheorems, WellFoundedInduction, TLAPS

----------------------------------------------------------------------------
(* Least and greatest members.                                              *)

\* A set of natural numbers has a least element.
LEMMA LeastOf ==
  ASSUME NEW S \in SUBSET Nat, S # {}
  PROVE  \E m \in S : \A n \in S : m <= n
<1>1. PICK m \in S : \A n \in S : <<n, m>> \notin OpToRel(<, Nat)
  BY NatLessThanWellFounded, WFMin
<1>2. \A n \in S : ~(n < m)
  BY <1>1 DEF OpToRel
<1>3. m \in Nat /\ \A n \in S : n \in Nat
  OBVIOUS
<1>4. \A n \in S : m <= n
  BY <1>2, <1>3
<1> QED
  BY <1>4

\* A set of numbers up to k has a greatest element.
LEMMA GreatestOf ==
  ASSUME NEW k \in Int, NEW S \in SUBSET (0 .. k), S # {}
  PROVE  \E m \in S : \A n \in S : m >= n
<1> DEFINE Below == {k - n : n \in S}
<1>1. \A n \in S : n \in 0 .. k
  OBVIOUS
<1>2. Below \in SUBSET Nat
  BY <1>1
<1>3. Below # {}
  OBVIOUS
<1>4. PICK c \in Below : \A e \in Below : c <= e
  <2> HIDE DEF Below
  <2> QED
    BY <1>2, <1>3, LeastOf
<1>5. PICK m \in S : c = k - m
  BY <1>4
<1>6. \A n \in S : m >= n
  <2> SUFFICES ASSUME NEW n \in S
               PROVE  m >= n
    OBVIOUS
  <2>1. k - m <= k - n
    BY <1>4, <1>5
  <2> QED
    BY <1>1, <2>1
<1> QED
  BY <1>6

----------------------------------------------------------------------------
(* Days, last members and sums.                                             *)

\* A day is whole minutes.
LEMMA DayHolds ==
  ASSUME RetentionAssumption, NEW t \in Nat
  PROVE  DayOf(t) \in Nat /\ DayOf(t) * Day <= t /\ t < DayOf(t) * Day + Day
<1>1. Day \in Nat \ {0}
  BY DEF RetentionAssumption
<1> QED
  BY <1>1 DEF DayOf

\* Days follow each other as their minutes do.
LEMMA DaysInOrder ==
  ASSUME RetentionAssumption, NEW s \in Nat, NEW t \in Nat, s <= t
  PROVE  DayOf(s) <= DayOf(t) /\ DayOf(s) * Day <= DayOf(t) * Day
<1>1. Day \in Nat \ {0}
  BY DEF RetentionAssumption
<1>2. DayOf(s) <= DayOf(t)
  BY <1>1 DEF DayOf
<1> QED
  BY <1>1, <1>2, DayHolds

\* A set of numbers with a bound has a last one, and Last names it.
LEMMA LastIsLast ==
  ASSUME NEW n \in Nat, NEW T \in SUBSET (0 .. n), T # {}
  PROVE  Last(T) \in T /\ \A u \in T : u <= Last(T)
<1>1. PICK m \in T : \A u \in T : m >= u
  <2>1. n \in Int
    OBVIOUS
  <2> QED
    BY <2>1, GreatestOf
<1>2. \E x \in T : \A y \in T : y <= x
  BY <1>1
<1> QED
  BY <1>2 DEF Last

Units(f, S) == UNION {{m} \X (1 .. f[m]) : m \in S}

LEMMA UnitsOf ==
  ASSUME NEW f, NEW S
  PROVE  \A u : u \in Units(f, S) <=> u[1] \in S /\ u[2] \in 1 .. f[u[1]] /\ u = <<u[1], u[2]>>
BY DEF Units

LEMMA SumIsNat ==
  ASSUME NEW S, IsFiniteSet(S), NEW f, \A m \in S : f[m] \in Nat
  PROVE  IsFiniteSet(Units(f, S)) /\ Sum(f, S) \in Nat
<1> DEFINE share == [m \in S |-> {m} \X (1 .. f[m])]
           shares == {{m} \X (1 .. f[m]) : m \in S}
<1>1. share \in Surjection(S, shares)
  BY DEF Surjection
<1>2. IsFiniteSet(shares)
  <2> HIDE DEF share, shares
  <2> QED
    BY <1>1, FS_Surjection
<1>3. \A T \in shares : IsFiniteSet(T)
  <2> TAKE T \in shares
  <2>1. PICK m \in S : T = {m} \X (1 .. f[m])
    OBVIOUS
  <2>2. IsFiniteSet({m})
    BY FS_Singleton
  <2>3. IsFiniteSet(1 .. f[m])
    <3>1. 1 \in Int /\ f[m] \in Int
      OBVIOUS
    <3> QED
      BY <3>1, FS_Interval
  <2> QED
    BY <2>1, <2>2, <2>3, FS_Product
<1>4. IsFiniteSet(UNION shares)
  <2> HIDE DEF shares
  <2> QED
    BY <1>2, <1>3, FS_UNION
<1> QED
  BY <1>4, FS_CardinalityType DEF Units, Sum

\* What the terms are elsewhere says nothing, and zeros add nothing.
LEMMA SumGoesBy ==
  ASSUME NEW S, NEW T, NEW f, NEW g, \A m \in S : f[m] \in Nat, \A m \in T : g[m] \in Nat,
         \A m \in S : f[m] > 0 => m \in T /\ g[m] = f[m],
         \A m \in T : g[m] > 0 => m \in S /\ g[m] = f[m]
  PROVE  Sum(f, S) = Sum(g, T)
<1>1. \A m \in S : \A n \in 1 .. f[m] : m \in T /\ n \in 1 .. g[m]
  OBVIOUS
<1>2. \A m \in T : \A n \in 1 .. g[m] : m \in S /\ n \in 1 .. f[m]
  OBVIOUS
<1>3. \A u : u \in Units(f, S) <=> u \in Units(g, T)
  <2> TAKE u
  <2>1. u \in Units(f, S) => u \in Units(g, T)
    BY <1>1, UnitsOf
  <2>2. u \in Units(g, T) => u \in Units(f, S)
    BY <1>2, UnitsOf
  <2> QED
    BY <2>1, <2>2
<1>4. Units(f, S) = Units(g, T)
  BY <1>3
<1> QED
  BY <1>4 DEF Sum, Units

LEMMA SumIsPositive ==
  ASSUME NEW S, IsFiniteSet(S), NEW f, \A m \in S : f[m] \in Nat
  PROVE  Sum(f, S) > 0 <=> \E m \in S : f[m] > 0
<1>1. IsFiniteSet(Units(f, S)) /\ Sum(f, S) \in Nat /\ Sum(f, S) = Cardinality(Units(f, S))
  BY SumIsNat DEF Sum, Units
<1>2. Sum(f, S) = 0 <=> Units(f, S) = {}
  BY <1>1, FS_EmptySet
<1>3. Units(f, S) # {} <=> \E m \in S : f[m] > 0
  <2>1. ASSUME NEW u \in Units(f, S)
        PROVE  \E m \in S : f[m] > 0
    <3>1. u[1] \in S /\ u[2] \in 1 .. f[u[1]]
      BY UnitsOf
    <3>2. f[u[1]] > 0
      BY <3>1
    <3> QED
      BY <3>1, <3>2
  <2>2. ASSUME NEW m \in S, f[m] > 0
        PROVE  <<m, 1>> \in Units(f, S)
    BY <2>2 DEF Units
  <2> QED
    BY <2>1, <2>2
<1> QED
  BY <1>1, <1>2, <1>3

LEMMA SumOfTwo ==
  ASSUME NEW S, IsFiniteSet(S), NEW T, IsFiniteSet(T), S \cap T = {},
         NEW f, \A m \in S \cup T : f[m] \in Nat
  PROVE  Sum(f, S \cup T) = Sum(f, S) + Sum(f, T)
<1>1. Units(f, S \cup T) = Units(f, S) \cup Units(f, T)
  BY DEF Units
<1>2. Units(f, S) \cap Units(f, T) = {}
  BY UnitsOf
<1>3. IsFiniteSet(Units(f, S)) /\ IsFiniteSet(Units(f, T))
  BY SumIsNat
<1> DEFINE n == Cardinality(Units(f, S))
           m == Cardinality(Units(f, T))
<1>4. n \in Nat /\ m \in Nat
  BY <1>3, FS_CardinalityType
<1>5. Cardinality(Units(f, S) \cup Units(f, T)) = n + m - Cardinality(Units(f, S) \cap Units(f, T))
  BY <1>3, FS_Union
<1>6. Cardinality(Units(f, S) \cap Units(f, T)) = 0
  BY <1>2, FS_EmptySet
<1>7. Sum(f, S \cup T) = Cardinality(Units(f, S) \cup Units(f, T)) /\ Sum(f, S) = n /\ Sum(f, T) = m
  BY <1>1 DEF Sum, Units
<1> HIDE DEF n, m
<1> QED
  BY <1>4, <1>5, <1>6, <1>7

\* Of two functions added term by term, the units of the second come after
\* those of the first.
LEMMA SumOfSums ==
  ASSUME NEW S, IsFiniteSet(S), NEW f, NEW g, NEW h,
         \A m \in S : f[m] \in Nat /\ g[m] \in Nat /\ h[m] = f[m] + g[m]
  PROVE  Sum(h, S) = Sum(f, S) + Sum(g, S)
<1> DEFINE after == UNION {{m} \X (f[m] + 1 .. f[m] + g[m]) : m \in S}
           move == [u \in Units(g, S) |-> <<u[1], f[u[1]] + u[2]>>]
<1>1. \A u : u \in after <=> u[1] \in S /\ u[2] \in f[u[1]] + 1 .. f[u[1]] + g[u[1]] /\ u = <<u[1], u[2]>>
  OBVIOUS
<1> HIDE DEF after
<1>2. \A u \in Units(g, S) : u[1] \in S /\ u[2] \in 1 .. g[u[1]] /\ u = <<u[1], u[2]>>
  BY UnitsOf
<1>3. \A u \in Units(g, S) : <<u[1], f[u[1]] + u[2]>> \in after
  <2> TAKE u \in Units(g, S)
  <2>1. f[u[1]] + u[2] \in f[u[1]] + 1 .. f[u[1]] + g[u[1]]
    BY <1>2
  <2> QED
    BY <1>1, <1>2, <2>1
<1>4. move \in [Units(g, S) -> after]
  BY <1>3
<1>5. \A u, v \in Units(g, S) : move[u] = move[v] => u = v
  <2> SUFFICES ASSUME NEW u \in Units(g, S), NEW v \in Units(g, S), move[u] = move[v]
               PROVE  u = v
    OBVIOUS
  <2>1. u[1] = v[1] /\ f[u[1]] + u[2] = f[v[1]] + v[2]
    OBVIOUS
  <2>2. f[u[1]] \in Nat /\ u[2] \in Int /\ v[2] \in Int
    BY <1>2
  <2> DEFINE base == f[u[1]]
  <2>3. base + u[2] = base + v[2] /\ base \in Nat
    BY <2>1, <2>2
  <2> HIDE DEF base
  <2>4. u[2] = v[2]
    BY <2>2, <2>3
  <2> QED
    BY <1>2, <2>1, <2>4
<1>6. \A w \in after : \E u \in Units(g, S) : move[u] = w
  <2> TAKE w \in after
  <2>1. w[1] \in S /\ w[2] \in f[w[1]] + 1 .. f[w[1]] + g[w[1]] /\ w = <<w[1], w[2]>>
    BY <1>1
  <2> DEFINE u == <<w[1], w[2] - f[w[1]]>>
  <2>2. w[2] - f[w[1]] \in 1 .. g[w[1]] /\ f[w[1]] + (w[2] - f[w[1]]) = w[2]
    BY <2>1
  <2>3. u \in Units(g, S)
    BY <2>1, <2>2, UnitsOf
  <2>4. move[u] = w
    BY <2>1, <2>2, <2>3
  <2> QED
    BY <2>3, <2>4
<1>7. move \in Bijection(Units(g, S), after)
  <2> HIDE DEF move
  <2> QED
    BY <1>4, <1>5, <1>6 DEF Bijection, Injection, Surjection, IsInjective
<1> HIDE DEF move
<1>8. IsFiniteSet(Units(f, S)) /\ IsFiniteSet(Units(g, S))
  BY SumIsNat
<1>9. IsFiniteSet(after) /\ Cardinality(after) = Cardinality(Units(g, S))
  <2>1. ExistsBijection(Units(g, S), after)
    BY <1>7 DEF ExistsBijection
  <2> QED
    BY <1>8, <2>1, FS_Bijection
<1>10. Units(h, S) = Units(f, S) \cup after
  <2>1. \A u : u \in Units(h, S) => u \in Units(f, S) \cup after
    <3> TAKE u
    <3> HAVE u \in Units(h, S)
    <3>1. u[1] \in S /\ u[2] \in 1 .. h[u[1]] /\ u = <<u[1], u[2]>>
      BY UnitsOf
    <3>2. u[2] \in 1 .. f[u[1]] \/ u[2] \in f[u[1]] + 1 .. f[u[1]] + g[u[1]]
      BY <3>1
    <3> QED
      BY <1>1, <3>1, <3>2, UnitsOf
  <2>2. \A u : u \in Units(f, S) \cup after => u \in Units(h, S)
    <3> TAKE u
    <3> HAVE u \in Units(f, S) \cup after
    <3>1. u[1] \in S /\ u = <<u[1], u[2]>> /\ (u[2] \in 1 .. f[u[1]] \/ u[2] \in f[u[1]] + 1 .. f[u[1]] + g[u[1]])
      BY <1>1, UnitsOf
    <3>2. u[2] \in 1 .. h[u[1]]
      BY <3>1
    <3> QED
      BY <3>1, <3>2, UnitsOf
  <2> QED
    BY <2>1, <2>2
<1>11. Units(f, S) \cap after = {}
  <2> SUFFICES ASSUME NEW u \in Units(f, S), u \in after
               PROVE  FALSE
    OBVIOUS
  <2>1. u[1] \in S /\ u[2] \in 1 .. f[u[1]] /\ u[2] \in f[u[1]] + 1 .. f[u[1]] + g[u[1]]
    BY <1>1, UnitsOf
  <2> QED
    BY <2>1
<1> DEFINE n == Cardinality(Units(f, S))
           k == Cardinality(Units(g, S))
<1>12. n \in Nat /\ k \in Nat
  BY <1>8, FS_CardinalityType
<1>13. Cardinality(Units(f, S) \cup after) = n + k - Cardinality(Units(f, S) \cap after)
  BY <1>8, <1>9, FS_Union
<1>14. Cardinality(Units(f, S) \cap after) = 0
  BY <1>11, FS_EmptySet
<1>15. Sum(h, S) = Cardinality(Units(f, S) \cup after) /\ Sum(f, S) = n /\ Sum(g, S) = k
  BY <1>10 DEF Sum, Units
<1> HIDE DEF n, k
<1> QED
  BY <1>12, <1>13, <1>14, <1>15

----------------------------------------------------------------------------
(* The largest of a set of transfers.                                       *)

Larger(l, ids, i) == {j \in ids : l[j].amount > l[i].amount}

LEMMA LargestBy == \A l, ids, n : Largest(l, ids, n) = {i \in ids : Cardinality(Larger(l, ids, i)) < n}
BY DEF Largest, Larger

\* One of the largest of a set is one of the largest of any part it is in.
LEMMA LargestInAPart ==
  ASSUME NEW l, NEW B, IsFiniteSet(B), NEW A \in SUBSET B, NEW n \in Nat, NEW k \in Nat, n <= k,
         NEW i \in A, i \in Largest(l, B, n)
  PROVE  i \in Largest(l, A, k)
<1>1. Larger(l, A, i) \subseteq Larger(l, B, i) /\ Larger(l, B, i) \subseteq B
  BY DEF Larger
<1>2. IsFiniteSet(Larger(l, B, i))
  BY <1>1, FS_Subset
<1>3. IsFiniteSet(Larger(l, A, i)) /\ Cardinality(Larger(l, A, i)) <= Cardinality(Larger(l, B, i))
  BY <1>1, <1>2, FS_Subset
<1>4. Cardinality(Larger(l, B, i)) < n
  BY LargestBy
<1>5. Cardinality(Larger(l, A, i)) \in Nat /\ Cardinality(Larger(l, B, i)) \in Nat
  BY <1>2, <1>3, FS_CardinalityType
<1>6. Cardinality(Larger(l, A, i)) < k
  BY <1>3, <1>4, <1>5
<1> QED
  BY <1>6, LargestBy

\* Amounts differ, so that how many are larger tells transfers apart: of the
\* transfers larger than one, as many as may be are among the largest.
LEMMA LargestAreEnough ==
  ASSUME NEW l, NEW B, IsFiniteSet(B), NEW n \in Nat,
         \A j \in B : l[j].amount \in Nat,
         \A j, k \in B : l[j].amount = l[k].amount => j = k,
         NEW i \in B, Cardinality(Larger(l, B, i)) >= n
  PROVE  Cardinality(Larger(l, B, i) \cap Largest(l, B, n)) >= n
<1> DEFINE U == Larger(l, B, i)
           r == Cardinality(U)
           rank == [j \in U |-> Cardinality(Larger(l, B, j)) + 1]
           few == {j \in U : rank[j] \in 1 .. n}
<1>1. U \subseteq B /\ IsFiniteSet(U) /\ r \in Nat /\ r >= n
  <2>1. U \subseteq B
    BY DEF Larger
  <2>2. IsFiniteSet(U)
    BY <2>1, FS_Subset
  <2> QED
    BY <2>1, <2>2, FS_CardinalityType
<1>2. \A j \in B : IsFiniteSet(Larger(l, B, j)) /\ Cardinality(Larger(l, B, j)) \in Nat
  <2> TAKE j \in B
  <2>1. Larger(l, B, j) \subseteq B
    BY DEF Larger
  <2>2. IsFiniteSet(Larger(l, B, j))
    BY <2>1, FS_Subset
  <2> QED
    BY <2>2, FS_CardinalityType
<1>3. \A j, k \in B : l[j].amount > l[k].amount => Cardinality(Larger(l, B, j)) < Cardinality(Larger(l, B, k))
  <2> SUFFICES ASSUME NEW j \in B, NEW k \in B, l[j].amount > l[k].amount
               PROVE  Cardinality(Larger(l, B, j)) < Cardinality(Larger(l, B, k))
    OBVIOUS
  <2>1. Larger(l, B, j) \subseteq Larger(l, B, k)
    BY DEF Larger
  <2>2. j \in Larger(l, B, k) /\ j \notin Larger(l, B, j)
    BY DEF Larger
  <2>3. /\ Cardinality(Larger(l, B, j)) <= Cardinality(Larger(l, B, k))
        /\ Cardinality(Larger(l, B, k)) = Cardinality(Larger(l, B, j)) => Larger(l, B, k) = Larger(l, B, j)
    BY <1>2, <2>1, FS_Subset
  <2>4. Cardinality(Larger(l, B, k)) # Cardinality(Larger(l, B, j))
    BY <2>2, <2>3
  <2> QED
    BY <1>2, <2>3, <2>4
<1>4. \A j \in U : rank[j] \in 1 .. r
  <2> TAKE j \in U
  <2>1. j \in B /\ l[j].amount > l[i].amount
    BY DEF Larger
  <2>2. Cardinality(Larger(l, B, j)) < r /\ Cardinality(Larger(l, B, j)) \in Nat
    BY <1>2, <1>3, <2>1
  <2>3. rank[j] = Cardinality(Larger(l, B, j)) + 1
    OBVIOUS
  <2> HIDE DEF r, U, rank
  <2> QED
    BY <1>1, <2>2, <2>3
<1>5. \A j, k \in U : rank[j] = rank[k] => j = k
  <2> SUFFICES ASSUME NEW j \in U, NEW k \in U, rank[j] = rank[k], j # k
               PROVE  FALSE
    OBVIOUS
  <2>1. j \in B /\ k \in B
    BY <1>1
  <2>2. l[j].amount > l[k].amount \/ l[k].amount > l[j].amount
    BY <2>1
  <2>3. Cardinality(Larger(l, B, j)) = Cardinality(Larger(l, B, k))
    BY <1>2, <2>1
  <2> QED
    BY <1>2, <1>3, <2>1, <2>2, <2>3
<1>6. rank \in Injection(U, 1 .. r)
  <2> HIDE DEF U, r
  <2>1. rank \in [U -> 1 .. r]
    BY <1>4
  <2> HIDE DEF rank
  <2> QED
    BY <1>5, <2>1 DEF Injection, IsInjective
<1>7. IsFiniteSet(1 .. r) /\ Cardinality(1 .. r) = r /\ IsFiniteSet(1 .. n) /\ Cardinality(1 .. n) = n
  <2> HIDE DEF r
  <2>1. 1 \in Int /\ r \in Int /\ n \in Int
    BY <1>1
  <2> QED
    BY <1>1, <2>1, FS_Interval
<1>8. rank \in Surjection(U, 1 .. r)
  <2> HIDE DEF rank
  <2> QED
    BY <1>1, <1>6, <1>7, FS_Injection
<1>9. few \subseteq U \cap Largest(l, B, n)
  <2>1. ASSUME NEW j \in U, rank[j] \in 1 .. n
        PROVE  j \in Largest(l, B, n)
    <3>1. j \in B
      BY <1>1
    <3>2. rank[j] = Cardinality(Larger(l, B, j)) + 1
      OBVIOUS
    <3> HIDE DEF rank, U
    <3>3. Cardinality(Larger(l, B, j)) < n
      BY <1>2, <2>1, <3>1, <3>2
    <3> QED
      BY <3>1, <3>3, LargestBy
  <2> HIDE DEF rank, U
  <2> QED
    BY <2>1
<1>10. Cardinality(few) >= n
  <2> DEFINE top_n == [j \in few |-> rank[j]]
  <2>1. top_n \in [few -> 1 .. n]
    OBVIOUS
  <2>2. \A q \in 1 .. n : \E j \in few : top_n[j] = q
    <3> TAKE q \in 1 .. n
    <3>1. q \in 1 .. r
      <4> HIDE DEF r
      <4> QED
        BY <1>1
    <3>2. PICK j \in U : rank[j] = q
      <4> HIDE DEF rank, U, r
      <4> QED
        BY <1>8, <3>1 DEF Surjection
    <3>3. j \in few
      BY <3>2
    <3> QED
      BY <3>2, <3>3
  <2>3. top_n \in Surjection(few, 1 .. n)
    <3> HIDE DEF top_n, few
    <3> QED
      BY <2>1, <2>2 DEF Surjection
  <2>4. IsFiniteSet(few)
    <3>1. few \subseteq U
      OBVIOUS
    <3> HIDE DEF few, U
    <3> QED
      BY <1>1, <3>1, FS_Subset
  <2> HIDE DEF few, top_n
  <2> QED
    BY <1>7, <2>3, <2>4, FS_Surjection
<1>11. IsFiniteSet(U \cap Largest(l, B, n)) /\ IsFiniteSet(few)
  <2> HIDE DEF few, U
  <2>1. IsFiniteSet(U \cap Largest(l, B, n))
    BY <1>1, FS_Intersection
  <2> QED
    BY <1>9, <2>1, FS_Subset
<1>12. Cardinality(few) <= Cardinality(U \cap Largest(l, B, n))
  <2> HIDE DEF few, U
  <2> QED
    BY <1>9, <1>11, FS_Subset
<1>13. Cardinality(few) \in Nat /\ Cardinality(U \cap Largest(l, B, n)) \in Nat
  <2> HIDE DEF few, U
  <2> QED
    BY <1>11, FS_CardinalityType
<1> DEFINE a == Cardinality(few)
           b == Cardinality(U \cap Largest(l, B, n))
<1>14. b >= n
  <2>1. a >= n /\ a <= b /\ a \in Nat /\ b \in Nat
    BY <1>10, <1>12, <1>13
  <2> HIDE DEF a, b
  <2> QED
    BY <2>1
<1> QED
  BY <1>14

\* A part that has all the largest of the whole has the same largest.
LEMMA SameLargest ==
  ASSUME NEW l, NEW B, IsFiniteSet(B), NEW n \in Nat,
         \A j \in B : l[j].amount \in Nat,
         \A j, k \in B : l[j].amount = l[k].amount => j = k,
         NEW A \in SUBSET B, Largest(l, B, n) \subseteq A
  PROVE  Largest(l, A, n) = Largest(l, B, n)
<1>1. ASSUME NEW i \in Largest(l, B, n)
      PROVE  i \in Largest(l, A, n)
  BY <1>1, LargestInAPart
<1>2. ASSUME NEW i \in Largest(l, A, n), i \notin Largest(l, B, n)
      PROVE  FALSE
  <2>1. i \in A /\ i \in B /\ Cardinality(Larger(l, A, i)) < n
    BY <1>2, LargestBy
  <2>2. ~(Cardinality(Larger(l, B, i)) < n)
    BY <1>2, <2>1, LargestBy
  <2>3. IsFiniteSet(Larger(l, B, i)) /\ IsFiniteSet(Larger(l, A, i))
    <3>1. Larger(l, B, i) \subseteq B /\ Larger(l, A, i) \subseteq B
      BY DEF Larger
    <3> QED
      BY <3>1, FS_Subset
  <2>4. Cardinality(Larger(l, B, i)) \in Nat /\ Cardinality(Larger(l, A, i)) \in Nat
    BY <2>3, FS_CardinalityType
  <2>5. Cardinality(Larger(l, B, i)) >= n
    BY <2>2, <2>4
  <2>6. Cardinality(Larger(l, B, i) \cap Largest(l, B, n)) >= n
    BY <2>1, <2>5, LargestAreEnough
  <2>7. Larger(l, B, i) \cap Largest(l, B, n) \subseteq Larger(l, A, i)
    BY DEF Larger
  <2>8. /\ IsFiniteSet(Larger(l, B, i) \cap Largest(l, B, n))
        /\ Cardinality(Larger(l, B, i) \cap Largest(l, B, n)) <= Cardinality(Larger(l, A, i))
    BY <2>3, <2>7, FS_Subset
  <2>9. Cardinality(Larger(l, B, i) \cap Largest(l, B, n)) \in Nat
    BY <2>8, FS_CardinalityType
  <2> QED
    BY <2>1, <2>4, <2>6, <2>8, <2>9
<1> QED
  BY <1>1, <1>2

----------------------------------------------------------------------------
(* The invariant.                                                           *)

\* The newest indexed minute, from which the windows are counted back.
ReachOf(rows) ==
  LET written == {m \in Minutes : rows[m] > 0} IN IF written = {} THEN 0 ELSE Last(written)
Reach == ReachOf(buckets)

Written == [m \in Minutes |-> WrittenIn(m)]
MinutesOf(d) == {m \in Minutes : DayOf(m) = d}

RetentionType ==
  /\ now \in Minutes
  /\ buckets \in [Minutes -> Nat] /\ late \in [Minutes -> Nat] /\ feeBuckets \in [Minutes -> Nat]
  /\ daily \in [Days -> Nat]
  /\ log \in Seq([ts : Minutes, amount : Nat])
  /\ feeSamples \subseteq Minutes \X Minutes
  /\ top \subseteq DOMAIN log

\* Before the first batch there is nothing, and no minute is ahead of the clock.
NothingYet == Held = {} => log = <<>> /\ feeSamples = {} /\ \A m \in Minutes : late[m] = 0 /\ feeBuckets[m] = 0
NothingAhead == \A m \in Held : m <= now

\* Transfers are indexed in the order of the chain.
LogInOrder ==
  /\ \A i, j \in DOMAIN log : i < j => log[i].ts <= log[j].ts /\ log[i].amount # log[j].amount
  /\ \A i \in DOMAIN log : log[i].ts <= Reach

DaysAreWhole == \A d \in Days : daily[d] + Sum(buckets, MinutesOf(d)) = Sum(Written, MinutesOf(d))
MinutesAreWhole == \A m \in Minutes : m >= Reach - Week => buckets[m] = WrittenIn(m)
AddressDaysAreHeld ==
  \A i \in DOMAIN log : log[i].ts >= Reach - Week => DayOf(log[i].ts) \in addrDays

\* The raw rows of a day are held, except for those below the cap.
RawIsHeld ==
  /\ recent \subseteq {i \in DOMAIN log : i > Len(log) - RECENT_MAX}
  /\ \A i \in DOMAIN log : i > Len(log) - RECENT_MAX /\ log[i].ts >= Reach - Day => i \in recent

FeesAgree == \A since \in Minutes : since >= Reach - Week => feeStats(since) = feeBucketCounts(since)
LargestAreHeld ==
  \A d \in Days : d * Day >= Reach - TopKeep => Largest(log, OfDay(log, DOMAIN log, d), TOP_PER_BATCH) \subseteq top

RetentionInv ==
  /\ RetentionType /\ NothingYet /\ NothingAhead /\ LogInOrder
  /\ DaysAreWhole /\ MinutesAreWhole /\ AddressDaysAreHeld /\ RawIsHeld /\ FeesAgree /\ LargestAreHeld

LEMMA BoundsAreNumbers ==
  ASSUME RetentionAssumption
  PROVE  /\ MaxMinute \in Nat /\ Day \in Nat \ {0} /\ Week \in Nat \ {0} /\ TopKeep \in Nat \ {0} /\ RECENT_MAX \in Nat \ {0}
         /\ TOP_PER_BATCH \in Nat /\ TOP_PER_DAY \in Nat /\ TOP_PER_BATCH <= TOP_PER_DAY
         /\ Day <= Week
<1>1. /\ MaxMinute \in Nat /\ Day \in Nat \ {0} /\ Week \in Nat \ {0} /\ TopKeep \in Nat \ {0} /\ RECENT_MAX \in Nat \ {0}
      /\ TOP_PER_DAY \in Nat /\ TOP_PER_BATCH \in 1 .. TOP_PER_DAY /\ Week % Day = 0
  BY DEF RetentionAssumption
<1>2. Day <= Week
  BY <1>1
<1> QED
  BY <1>1, <1>2

LEMMA MinutesAndDays ==
  ASSUME RetentionAssumption
  PROVE  /\ Minutes \subseteq Nat /\ IsFiniteSet(Minutes)
         /\ Days \subseteq Nat /\ \A m \in Minutes : DayOf(m) \in Days
         /\ \A d : MinutesOf(d) \subseteq Minutes /\ IsFiniteSet(MinutesOf(d))
<1>1. MaxMinute \in Nat /\ Minutes = 0 .. MaxMinute
  BY BoundsAreNumbers DEF Minutes
<1>2. IsFiniteSet(Minutes)
  <2>1. 0 \in Int /\ MaxMinute \in Int
    BY <1>1
  <2> QED
    BY <1>1, <2>1, FS_Interval
<1>3. \A m \in Minutes : DayOf(m) \in Days
  <2> TAKE m \in Minutes
  <2>1. m \in Nat /\ m <= MaxMinute
    BY <1>1
  <2>2. DayOf(m) <= DayOf(MaxMinute) /\ DayOf(m) \in Nat /\ DayOf(MaxMinute) \in Nat
    BY <1>1, <2>1, DaysInOrder, DayHolds
  <2> QED
    BY <2>2 DEF Days
<1>4. DayOf(MaxMinute) \in Nat
  BY <1>1, DayHolds
<1>5. \A d : MinutesOf(d) \subseteq Minutes
  BY DEF MinutesOf
<1>6. \A d : IsFiniteSet(MinutesOf(d))
  BY <1>2, <1>5, FS_Subset
<1> QED
  BY <1>1, <1>2, <1>3, <1>4, <1>5, <1>6 DEF Days

LEMMA ReachOfRows ==
  ASSUME RetentionAssumption, NEW rows \in [Minutes -> Nat]
  PROVE  /\ ReachOf(rows) \in Minutes
         /\ \A m \in Minutes : rows[m] > 0 => m <= ReachOf(rows) /\ rows[ReachOf(rows)] > 0
<1> DEFINE written == {m \in Minutes : rows[m] > 0}
<1>1. MaxMinute \in Nat /\ Minutes = 0 .. MaxMinute
  BY BoundsAreNumbers DEF Minutes
<1>2. CASE written = {}
  <2>1. ReachOf(rows) = 0
    BY <1>2 DEF ReachOf
  <2>2. \A m \in Minutes : ~(rows[m] > 0)
    BY <1>2
  <2> QED
    BY <1>1, <2>1, <2>2
<1>3. CASE written # {}
  <2>1. ReachOf(rows) = Last(written)
    BY <1>3 DEF ReachOf
  <2>2. written \in SUBSET (0 .. MaxMinute)
    BY <1>1
  <2>3. Last(written) \in written /\ \A u \in written : u <= Last(written)
    <3> HIDE DEF written
    <3> QED
      BY <1>1, <1>3, <2>2, LastIsLast
  <2> QED
    BY <2>1, <2>3
<1> QED
  BY <1>2, <1>3

\* Minutes that stay, or give way to later ones, leave the newest where it was or later.
LEMMA ReachGoesOn ==
  ASSUME RetentionAssumption, NEW rows \in [Minutes -> Nat], NEW rows2 \in [Minutes -> Nat],
         \A m \in Minutes : rows[m] > 0 => \E k \in Minutes : m <= k /\ rows2[k] > 0
  PROVE  ReachOf(rows) <= ReachOf(rows2)
<1>1. ReachOf(rows) \in Minutes /\ ReachOf(rows2) \in Minutes /\ Minutes \subseteq Nat
  BY ReachOfRows, MinutesAndDays
<1> DEFINE a == ReachOf(rows)
           b == ReachOf(rows2)
<1>0. a \in Nat /\ b \in Nat
  BY <1>1
<1>2. CASE \E m \in Minutes : rows[m] > 0
  <2>1. rows[ReachOf(rows)] > 0
    BY <1>2, ReachOfRows
  <2>2. PICK k \in Minutes : ReachOf(rows) <= k /\ rows2[k] > 0
    BY <1>1, <2>1
  <2>3. k <= ReachOf(rows2)
    BY <2>2, ReachOfRows
  <2>4. k \in Nat /\ a <= k /\ k <= b
    BY <1>1, <2>2, <2>3
  <2>5. a <= b
    <3> HIDE DEF a, b
    <3> QED
      BY <1>0, <2>4
  <2> QED
    BY <2>5
<1>3. CASE ~\E m \in Minutes : rows[m] > 0
  <2>1. ReachOf(rows) = 0
    BY <1>3 DEF ReachOf
  <2>2. a <= b
    <3>1. a = 0
      BY <2>1
    <3> HIDE DEF a, b
    <3> QED
      BY <1>0, <3>1
  <2> QED
    BY <2>2
<1> QED
  BY <1>2, <1>3

\* Windows and cuts end at the newest indexed minute, which is not ahead of the clock.
LEMMA WindowsEndAtReach ==
  ASSUME RetentionAssumption, RetentionType, NothingAhead
  PROVE  /\ Reach \in Nat /\ windowEndSec = CutFrom /\ CutFrom \in Nat /\ Reach <= CutFrom
         /\ Held # {} => CutFrom = Reach /\ getCoverage.b = Reach /\ Reach \in Held
<1>1. Reach \in Minutes /\ Minutes \subseteq Nat /\ \A m \in Minutes : buckets[m] > 0 => buckets[Reach] > 0
  BY ReachOfRows, MinutesAndDays DEF Reach, RetentionType
<1>2. CASE Held = {}
  <2>1. Reach = 0 /\ CutFrom = now /\ now \in Nat
    BY <1>1, <1>2 DEF Reach, ReachOf, Held, CutFrom, RetentionType
  <2> QED
    BY <1>2, <2>1 DEF windowEndSec, CutFrom
<1>3. CASE Held # {}
  <2>1. Reach = Last(Held) /\ Reach \in Held
    BY <1>1, <1>3 DEF Reach, ReachOf, Held
  <2>2. Reach <= now /\ now \in Nat /\ Reach \in Nat
    BY <1>1, <2>1 DEF NothingAhead, RetentionType
  <2>3. getCoverage.b = Reach
    BY <2>1 DEF getCoverage
  <2>4. CutFrom = Reach
    BY <1>3, <2>2, <2>3 DEF CutFrom, Least
  <2> QED
    BY <1>3, <2>1, <2>2, <2>3, <2>4 DEF windowEndSec, CutFrom
<1> QED
  BY <1>2, <1>3

----------------------------------------------------------------------------
(* What an action leaves alone stays as it was said to be.                  *)

LEMMA ReachIsAMinute ==
  ASSUME RetentionAssumption, RetentionType
  PROVE  Reach \in Nat
BY ReachOfRows, MinutesAndDays DEF Reach, RetentionType

LEMMA LogIsFinite ==
  ASSUME RetentionAssumption, RetentionType
  PROVE  /\ DOMAIN log = 1 .. Len(log) /\ Len(log) \in Nat /\ IsFiniteSet(DOMAIN log)
         /\ \A i \in DOMAIN log : log[i].ts \in Minutes /\ log[i].ts \in Nat /\ log[i].amount \in Nat
<1>1. log \in Seq([ts : Minutes, amount : Nat])
  BY DEF RetentionType
<1>2. DOMAIN log = 1 .. Len(log) /\ Len(log) \in Nat
  BY <1>1
<1>3. IsFiniteSet(1 .. Len(log))
  <2>1. 1 \in Int /\ Len(log) \in Int
    BY <1>2
  <2> QED
    BY <2>1, FS_Interval
<1>4. \A i \in DOMAIN log : log[i] \in [ts : Minutes, amount : Nat]
  <2> DEFINE Row == [ts : Minutes, amount : Nat]
  <2>1. log \in Seq(Row)
    BY <1>1
  <2> HIDE DEF Row
  <2>2. \A i \in DOMAIN log : log[i] \in Row
    BY <2>1
  <2> QED
    BY <2>2 DEF Row
<1> QED
  BY <1>2, <1>3, <1>4, MinutesAndDays

LEMMA LedgerRests ==
  ASSUME RetentionInv, UNCHANGED <<buckets, daily, log, late>>
  PROVE  LogInOrder' /\ DaysAreWhole' /\ MinutesAreWhole' /\ Reach' = Reach
<1>1. Written' = Written /\ Reach' = Reach
  BY DEF Written, WrittenIn, Reach
<1> QED
  BY <1>1 DEF RetentionInv, LogInOrder, DaysAreWhole, MinutesAreWhole, WrittenIn

LEMMA AddressDaysRest ==
  ASSUME RetentionInv, UNCHANGED <<log, addrDays>>, Reach \in Nat, Reach' \in Nat, Reach <= Reach', RetentionAssumption
  PROVE  AddressDaysAreHeld'
<1>1. Week \in Nat /\ \A i \in DOMAIN log : log[i].ts \in Nat
  BY BoundsAreNumbers, LogIsFinite DEF RetentionInv
<1>2. \A i \in DOMAIN log : log[i].ts >= Reach' - Week => log[i].ts >= Reach - Week
  BY <1>1
<1> QED
  BY <1>2 DEF RetentionInv, AddressDaysAreHeld

LEMMA RawRests ==
  ASSUME RetentionInv, UNCHANGED <<log, recent>>, Reach \in Nat, Reach' \in Nat, Reach <= Reach', RetentionAssumption
  PROVE  RawIsHeld'
<1>1. Day \in Nat /\ \A i \in DOMAIN log : log[i].ts \in Nat
  BY BoundsAreNumbers, LogIsFinite DEF RetentionInv
<1>2. \A i \in DOMAIN log : log[i].ts >= Reach' - Day => log[i].ts >= Reach - Day
  BY <1>1
<1> QED
  BY <1>2 DEF RetentionInv, RawIsHeld

LEMMA FeesRest ==
  ASSUME RetentionInv, UNCHANGED <<feeSamples, feeBuckets>>, Reach \in Nat, Reach' \in Nat, Reach <= Reach', RetentionAssumption
  PROVE  FeesAgree'
<1>1. Week \in Nat /\ \A m \in Minutes : m \in Int
  BY BoundsAreNumbers, MinutesAndDays
<1>2. \A m \in Minutes : m >= Reach' - Week => m >= Reach - Week
  BY <1>1
<1> QED
  BY <1>2 DEF RetentionInv, FeesAgree, feeStats, feeBucketCounts

LEMMA LargestRest ==
  ASSUME RetentionInv, UNCHANGED <<log, top>>, Reach \in Nat, Reach' \in Nat, Reach <= Reach', RetentionAssumption
  PROVE  LargestAreHeld'
<1>1. TopKeep \in Nat /\ \A d \in Days : d * Day \in Int
  BY BoundsAreNumbers, MinutesAndDays
<1>2. \A d \in Days : d * Day >= Reach' - TopKeep => d * Day >= Reach - TopKeep
  BY <1>1
<1> QED
  BY <1>2 DEF RetentionInv, LargestAreHeld, Largest, OfDay

\* What only cuts a table back.
LEMMA NothingNew ==
  ASSUME RetentionInv, UNCHANGED <<now, buckets, late, daily, log>>,
         feeSamples' \subseteq feeSamples, top' \subseteq top, feeBuckets' \in [Minutes -> Nat],
         \A m \in Minutes : feeBuckets[m] = 0 => feeBuckets'[m] = 0
  PROVE  RetentionType' /\ NothingYet' /\ NothingAhead'
<1>1. RetentionType'
  BY DEF RetentionInv, RetentionType
<1>2. Held' = Held
  BY DEF Held
<1>3. NothingYet' /\ NothingAhead'
  BY <1>2 DEF RetentionInv, NothingYet, NothingAhead
<1> QED
  BY <1>1, <1>3

LEMMA RetentionStarts ==
  ASSUME RetentionAssumption, Init
  PROVE  RetentionInv
<1>1. /\ now = 0 /\ log = <<>> /\ daily = [d \in Days |-> 0] /\ recent = {} /\ top = {} /\ addrs = {}
      /\ buckets = [m \in Minutes |-> 0] /\ late = buckets /\ feeBuckets = buckets /\ feeSamples = {}
  BY DEF Init
<1>2. DOMAIN log = {} /\ log \in Seq([ts : Minutes, amount : Nat]) /\ Len(log) = 0
  BY <1>1
<1>3. MaxMinute \in Nat /\ 0 \in Minutes
  BY BoundsAreNumbers DEF Minutes
<1>4. RetentionType
  BY <1>1, <1>2, <1>3 DEF RetentionType
<1>5. Held = {}
  BY <1>1 DEF Held
<1>6. \A m \in Minutes : WrittenIn(m) = 0
  <2> TAKE m \in Minutes
  <2>1. {i \in DOMAIN log : log[i].ts = m} = {}
    BY <1>2
  <2> QED
    BY <1>1, <2>1, FS_EmptySet DEF WrittenIn
<1>7. DaysAreWhole
  <2> SUFFICES ASSUME NEW d \in Days
               PROVE  daily[d] + Sum(buckets, MinutesOf(d)) = Sum(Written, MinutesOf(d))
    BY DEF DaysAreWhole
  <2>1. \A m \in MinutesOf(d) : buckets[m] \in Nat /\ Written[m] \in Nat /\ Written[m] = buckets[m]
    BY <1>1, <1>6 DEF Written, MinutesOf
  <2>2. Sum(buckets, MinutesOf(d)) = Sum(Written, MinutesOf(d))
    BY <2>1, SumGoesBy
  <2>3. Sum(buckets, MinutesOf(d)) \in Nat
    BY <2>1, MinutesAndDays, SumIsNat
  <2> QED
    BY <1>1, <2>2, <2>3
<1>8. FeesAgree
  <2> SUFFICES ASSUME NEW since \in Minutes
               PROVE  feeStats(since) = feeBucketCounts(since)
    BY DEF FeesAgree
  <2>1. feeStats(since) = 0
    <3>1. {s \in feeSamples : s[2] >= since} = {}
      BY <1>1
    <3> QED
      BY <3>1, FS_EmptySet DEF feeStats
  <2>2. Units(feeBuckets, {m \in Minutes : m >= since}) = {}
    <3>1. \A m \in Minutes : 1 .. feeBuckets[m] = {}
      BY <1>1
    <3> QED
      BY <3>1 DEF Units
  <2>3. feeBucketCounts(since) = 0
    BY <2>2, FS_EmptySet DEF feeBucketCounts, Sum, Units
  <2> QED
    BY <2>1, <2>3
<1>9. LargestAreHeld
  BY <1>2 DEF LargestAreHeld, Largest, OfDay
<1> QED
  BY <1>1, <1>2, <1>4, <1>5, <1>6, <1>7, <1>8, <1>9
  DEF RetentionInv, NothingYet, NothingAhead, LogInOrder, MinutesAreWhole, AddressDaysAreHeld, RawIsHeld

----------------------------------------------------------------------------
(* The statements of prune.                                                 *)

LEMMA PruneAddrsKeeps ==
  ASSUME RetentionAssumption, RetentionInv, pruneAddrs
  PROVE  RetentionInv'
<1>1. UNCHANGED <<now, buckets, daily, recent, top, addrDays, feeSamples, feeBuckets, log, late>>
  BY DEF pruneAddrs
<1>2. Reach \in Nat /\ Reach' = Reach
  BY <1>1, LedgerRests, ReachIsAMinute DEF RetentionInv
<1>3. RetentionType' /\ NothingYet' /\ NothingAhead'
  BY <1>1, NothingNew DEF RetentionInv, RetentionType
<1>4. Reach <= Reach' /\ Reach' \in Nat
  BY <1>2
<1> QED
  BY <1>1, <1>2, <1>3, <1>4, LedgerRests, AddressDaysRest, RawRests, FeesRest, LargestRest DEF RetentionInv

\* A day more than the week is kept, for the day the week begins in.
LEMMA PruneAddrToksKeeps ==
  ASSUME RetentionAssumption, RetentionInv, pruneAddrToks
  PROVE  RetentionInv'
<1>1. /\ UNCHANGED <<now, buckets, daily, recent, top, addrs, feeSamples, feeBuckets, log, late>>
      /\ addrDays' = {d \in addrDays : d >= DayOf(CutFrom) - (DayOf(Week) + 1)}
  BY DEF pruneAddrToks
<1>2. Reach \in Nat /\ Reach' = Reach
  BY <1>1, LedgerRests, ReachIsAMinute DEF RetentionInv
<1>3. AddressDaysAreHeld'
  <2>1. CASE Held = {}
    <3>1. DOMAIN log' = {}
      BY <1>1, <2>1 DEF RetentionInv, NothingYet
    <3> QED
      BY <3>1 DEF AddressDaysAreHeld
  <2>2. CASE Held # {}
    <3>1. CutFrom = Reach
      BY <2>2, WindowsEndAtReach DEF RetentionInv
    <3>2. \A t \in Nat : t >= Reach - Week => DayOf(t) >= DayOf(Reach) - (DayOf(Week) + 1)
      <4> SUFFICES ASSUME NEW t \in Nat, t >= Reach - Week
                   PROVE  DayOf(t) >= DayOf(Reach) - (DayOf(Week) + 1)
        OBVIOUS
      <4>1. Week \in Nat /\ Day \in Nat \ {0}
        BY BoundsAreNumbers
      <4>2. Reach - Week <= t /\ t \in Nat
        OBVIOUS
      <4>3. DayOf(Reach) <= DayOf(Week) + DayOf(t) + 1
        <5>1. Reach <= Week + t
          BY <1>2, <4>1, <4>2
        <5>2. DayOf(Reach) <= DayOf(Week + t)
          BY <1>2, <4>1, <5>1, DaysInOrder
        <5>3. DayOf(Week + t) <= DayOf(Week) + DayOf(t) + 1
          BY <4>1 DEF DayOf
        <5>4. DayOf(Reach) \in Nat /\ DayOf(Week + t) \in Nat /\ DayOf(Week) \in Nat /\ DayOf(t) \in Nat
          BY <1>2, <4>1, DayHolds
        <5> QED
          BY <5>2, <5>3, <5>4
      <4>4. DayOf(Reach) \in Nat /\ DayOf(Week) \in Nat /\ DayOf(t) \in Nat
        BY <1>2, <4>1, DayHolds
      <4> QED
        BY <4>3, <4>4
    <3>3. \A i \in DOMAIN log : log[i].ts \in Nat
      BY LogIsFinite DEF RetentionInv
    <3> QED
      BY <1>1, <1>2, <3>1, <3>2, <3>3 DEF RetentionInv, AddressDaysAreHeld
  <2> QED
    BY <2>1, <2>2
<1>4. RetentionType' /\ NothingYet' /\ NothingAhead'
  <2>1. feeBuckets' \in [Minutes -> Nat]
    BY <1>1 DEF RetentionInv, RetentionType
  <2> QED
    BY <1>1, <2>1, NothingNew
<1>5. Reach <= Reach' /\ Reach' \in Nat
  BY <1>2
<1> QED
  BY <1>1, <1>2, <1>3, <1>4, <1>5, LedgerRests, RawRests, FeesRest, LargestRest DEF RetentionInv

LEMMA PruneFeesKeeps ==
  ASSUME RetentionAssumption, RetentionInv, pruneFees
  PROVE  RetentionInv'
<1>1. /\ UNCHANGED <<now, buckets, daily, recent, top, addrs, addrDays, feeBuckets, log, late>>
      /\ feeSamples' = {s \in feeSamples : s[2] >= Cutoff}
  BY DEF pruneFees
<1>2. Reach \in Nat /\ Reach' = Reach
  BY <1>1, LedgerRests, ReachIsAMinute DEF RetentionInv
<1>3. FeesAgree'
  <2>1. ASSUME NEW since \in Minutes, since >= Reach - Week
        PROVE  {s \in feeSamples' : s[2] >= since} = {s \in feeSamples : s[2] >= since}
    <3>1. CASE Held = {}
      BY <1>1, <3>1 DEF RetentionInv, NothingYet
    <3>2. CASE Held # {}
      <4>1. Cutoff = Reach - Week
        BY <3>2, WindowsEndAtReach DEF RetentionInv, Cutoff
      <4>2. \A s \in feeSamples : s[2] \in Int
        BY MinutesAndDays DEF RetentionInv, RetentionType
      <4>3. since \in Int /\ Week \in Int
        BY MinutesAndDays, BoundsAreNumbers
      <4> QED
        BY <1>1, <1>2, <2>1, <4>1, <4>2, <4>3
    <3> QED
      BY <3>1, <3>2
  <2> QED
    BY <1>1, <1>2, <2>1 DEF RetentionInv, FeesAgree, feeStats, feeBucketCounts
<1>4. RetentionType' /\ NothingYet' /\ NothingAhead'
  <2>1. feeBuckets' \in [Minutes -> Nat] /\ feeSamples' \subseteq feeSamples
    BY <1>1 DEF RetentionInv, RetentionType
  <2> QED
    BY <1>1, <2>1, NothingNew
<1>5. Reach <= Reach' /\ Reach' \in Nat
  BY <1>2
<1> QED
  BY <1>1, <1>2, <1>3, <1>4, <1>5, LedgerRests, RawRests, AddressDaysRest, LargestRest DEF RetentionInv

LEMMA PruneBuckets2Keeps ==
  ASSUME RetentionAssumption, RetentionInv, pruneBuckets2
  PROVE  RetentionInv'
<1>1. /\ UNCHANGED <<now, buckets, daily, recent, top, addrs, addrDays, feeSamples, log, late>>
      /\ feeBuckets' = Cut(feeBuckets, Cutoff)
  BY DEF pruneBuckets2
<1>2. Reach \in Nat /\ Reach' = Reach
  BY <1>1, LedgerRests, ReachIsAMinute DEF RetentionInv
<1>3. /\ feeBuckets \in [Minutes -> Nat] /\ feeBuckets' \in [Minutes -> Nat]
      /\ \A m \in Minutes : feeBuckets'[m] = IF m < Cutoff THEN 0 ELSE feeBuckets[m]
  BY <1>1 DEF RetentionInv, RetentionType, Cut
<1>4. FeesAgree'
  <2>1. ASSUME NEW since \in Minutes, since >= Reach - Week
        PROVE  feeBucketCounts(since)' = feeBucketCounts(since)
    <3>1. \A m \in Minutes : m >= since => feeBuckets'[m] = feeBuckets[m]
      <4>1. CASE Held = {}
        BY <1>3, <4>1 DEF RetentionInv, NothingYet
      <4>2. CASE Held # {}
        <5>1. Cutoff = Reach - Week
          BY <4>2, WindowsEndAtReach DEF RetentionInv, Cutoff
        <5>2. since \in Int /\ Week \in Int /\ \A m \in Minutes : m \in Int
          BY MinutesAndDays, BoundsAreNumbers
        <5>3. \A m \in Minutes : m >= since => ~(m < Cutoff)
          BY <1>2, <2>1, <5>1, <5>2
        <5> QED
          BY <1>3, <5>3
      <4> QED
        BY <4>1, <4>2
    <3> DEFINE S == {m \in Minutes : m >= since}
    <3>2. \A m \in S : feeBuckets'[m] \in Nat /\ feeBuckets[m] \in Nat /\ feeBuckets'[m] = feeBuckets[m]
      BY <1>3, <3>1
    <3>3. Sum(feeBuckets', S) = Sum(feeBuckets, S)
      <4> HIDE DEF S
      <4> QED
        BY <3>2, SumGoesBy
    <3> QED
      BY <3>3 DEF feeBucketCounts
  <2> QED
    BY <1>1, <1>2, <2>1 DEF RetentionInv, FeesAgree, feeStats
<1>5. RetentionType' /\ NothingYet' /\ NothingAhead'
  <2>1. \A m \in Minutes : feeBuckets[m] = 0 => feeBuckets'[m] = 0
    BY <1>3
  <2> QED
    BY <1>1, <1>3, <2>1, NothingNew
<1>6. Reach <= Reach' /\ Reach' \in Nat
  BY <1>2
<1> QED
  BY <1>1, <1>2, <1>4, <1>5, <1>6, LedgerRests, RawRests, AddressDaysRest, LargestRest DEF RetentionInv

LEMMA TrimRecentTsKeeps ==
  ASSUME RetentionAssumption, RetentionInv, trimRecentTs
  PROVE  RetentionInv'
<1>1. /\ UNCHANGED <<now, buckets, daily, top, addrs, addrDays, feeSamples, feeBuckets, log, late>>
      /\ recent' = {i \in recent : log[i].ts >= CutFrom - Day}
  BY DEF trimRecentTs
<1>2. Reach \in Nat /\ Reach' = Reach
  BY <1>1, LedgerRests, ReachIsAMinute DEF RetentionInv
<1>3. RawIsHeld'
  <2>1. CASE Held = {}
    <3>1. DOMAIN log = {} /\ DOMAIN log' = {}
      BY <1>1, <2>1 DEF RetentionInv, NothingYet
    <3> QED
      BY <1>1, <3>1 DEF RetentionInv, RawIsHeld
  <2>2. CASE Held # {}
    <3>1. CutFrom = Reach
      BY <2>2, WindowsEndAtReach DEF RetentionInv
    <3> QED
      BY <1>1, <1>2, <3>1 DEF RetentionInv, RawIsHeld
  <2> QED
    BY <2>1, <2>2
<1>4. RetentionType' /\ NothingYet' /\ NothingAhead'
  <2>1. feeBuckets' \in [Minutes -> Nat]
    BY <1>1 DEF RetentionInv, RetentionType
  <2> QED
    BY <1>1, <2>1, NothingNew
<1>5. Reach <= Reach' /\ Reach' \in Nat
  BY <1>2
<1> QED
  BY <1>1, <1>2, <1>3, <1>4, <1>5, LedgerRests, AddressDaysRest, FeesRest, LargestRest DEF RetentionInv

\* The cut of a day keeps as many as any batch contributed, and more.
LEMMA TrimTopKeeps ==
  ASSUME RetentionAssumption, RetentionInv, trimTop
  PROVE  RetentionInv'
<1>1. /\ UNCHANGED <<now, buckets, daily, recent, addrs, addrDays, feeSamples, feeBuckets, log, late>>
      /\ top' = UNION {Largest(log, OfDay(log, top, d), TOP_PER_DAY) : d \in Days}
  BY DEF trimTop
<1>2. Reach \in Nat /\ Reach' = Reach
  BY <1>1, LedgerRests, ReachIsAMinute DEF RetentionInv
<1>3. LargestAreHeld'
  <2> SUFFICES ASSUME NEW d \in Days, d * Day >= Reach - TopKeep, NEW i \in Largest(log, OfDay(log, DOMAIN log, d), TOP_PER_BATCH)
               PROVE  i \in top'
    BY <1>1, <1>2 DEF LargestAreHeld, Largest, OfDay
  <2>1. i \in top /\ i \in OfDay(log, DOMAIN log, d)
    BY DEF RetentionInv, LargestAreHeld, Largest
  <2>2. i \in OfDay(log, top, d) /\ OfDay(log, top, d) \subseteq OfDay(log, DOMAIN log, d)
    BY <2>1 DEF OfDay, RetentionInv, RetentionType
  <2>3. IsFiniteSet(OfDay(log, DOMAIN log, d))
    <3>1. OfDay(log, DOMAIN log, d) \subseteq DOMAIN log
      BY DEF OfDay
    <3> QED
      BY <3>1, LogIsFinite, FS_Subset DEF RetentionInv
  <2>4. i \in Largest(log, OfDay(log, top, d), TOP_PER_DAY)
    BY <2>2, <2>3, BoundsAreNumbers, LargestInAPart
  <2> QED
    BY <1>1, <2>4
<1>4. RetentionType' /\ NothingYet' /\ NothingAhead'
  <2>1. feeBuckets' \in [Minutes -> Nat]
    BY <1>1 DEF RetentionInv, RetentionType
  <2>2. top' \subseteq top
    BY <1>1 DEF Largest, OfDay
  <2> QED
    BY <1>1, <2>1, <2>2, NothingNew
<1>5. Reach <= Reach' /\ Reach' \in Nat
  BY <1>2
<1> QED
  BY <1>1, <1>2, <1>3, <1>4, <1>5, LedgerRests, AddressDaysRest, RawRests, FeesRest DEF RetentionInv

LEMMA PruneTopKeeps ==
  ASSUME RetentionAssumption, RetentionInv, pruneTop
  PROVE  RetentionInv'
<1>1. /\ UNCHANGED <<now, buckets, daily, recent, addrs, addrDays, feeSamples, feeBuckets, log, late>>
      /\ top' = {i \in top : DayOf(log[i].ts) * Day >= CutFrom - TopKeep}
  BY DEF pruneTop
<1>2. Reach \in Nat /\ Reach' = Reach
  BY <1>1, LedgerRests, ReachIsAMinute DEF RetentionInv
<1>3. LargestAreHeld'
  <2> SUFFICES ASSUME NEW d \in Days, d * Day >= Reach - TopKeep, NEW i \in Largest(log, OfDay(log, DOMAIN log, d), TOP_PER_BATCH)
               PROVE  i \in top'
    BY <1>1, <1>2 DEF LargestAreHeld, Largest, OfDay
  <2>1. i \in top /\ DayOf(log[i].ts) = d /\ i \in DOMAIN log
    BY DEF RetentionInv, LargestAreHeld, Largest, OfDay
  <2>2. CutFrom = Reach
    <3>1. Held # {}
      BY <2>1 DEF RetentionInv, NothingYet
    <3> QED
      BY <3>1, WindowsEndAtReach DEF RetentionInv
  <2> QED
    BY <1>1, <2>1, <2>2
<1>4. RetentionType' /\ NothingYet' /\ NothingAhead'
  <2>1. feeBuckets' \in [Minutes -> Nat] /\ top' \subseteq top
    BY <1>1 DEF RetentionInv, RetentionType
  <2> QED
    BY <1>1, <2>1, NothingNew
<1>5. Reach <= Reach' /\ Reach' \in Nat
  BY <1>2
<1> QED
  BY <1>1, <1>2, <1>3, <1>4, <1>5, LedgerRests, AddressDaysRest, RawRests, FeesRest DEF RetentionInv

\* What is folded into a day is what is deleted of its minutes, and the newest
\* minute is not among them.
LEMMA RollUpKeeps ==
  ASSUME RetentionAssumption, RetentionInv, RollUp
  PROVE  RetentionInv'
<1>1. /\ UNCHANGED <<now, recent, top, addrs, addrDays, feeSamples, feeBuckets, log, late>>
      /\ daily' = rollupDaily(Cutoff) /\ buckets' = Cut(buckets, Cutoff)
  BY DEF RollUp
<1>2. Reach \in Nat /\ buckets \in [Minutes -> Nat] /\ daily \in [Days -> Nat]
  BY ReachIsAMinute DEF RetentionInv, RetentionType
<1>3. /\ buckets' \in [Minutes -> Nat]
      /\ \A m \in Minutes : buckets'[m] = IF m < Cutoff THEN 0 ELSE buckets[m]
  BY <1>1, <1>2 DEF Cut
<1>4. Held # {} => Cutoff = Reach - Week /\ Reach \in Held /\ Reach \in Minutes /\ \A m \in Held : m <= Reach
  BY WindowsEndAtReach, ReachOfRows DEF RetentionInv, RetentionType, Cutoff, Held, Reach
<1>5. \A m \in Minutes : buckets[m] > 0 => \E k \in Minutes : m <= k /\ buckets'[k] > 0
  <2> SUFFICES ASSUME NEW m \in Minutes, buckets[m] > 0
               PROVE  m <= Reach /\ Reach \in Minutes /\ buckets'[Reach] > 0
    OBVIOUS
  <2>1. m \in Held
    BY DEF Held
  <2>2. ~(Reach < Cutoff)
    BY <1>2, <1>4, <2>1, BoundsAreNumbers
  <2> QED
    BY <1>3, <1>4, <2>1, <2>2 DEF Held
<1>6. Reach <= Reach' /\ Reach' \in Nat
  <2>1. ReachOf(buckets) <= ReachOf(buckets') /\ ReachOf(buckets') \in Minutes
    BY <1>2, <1>3, <1>5, ReachGoesOn, ReachOfRows
  <2> QED
    BY <2>1, MinutesAndDays DEF Reach
<1>7. \A m \in Minutes : m >= Reach' - Week => buckets'[m] = buckets[m]
  <2>1. CASE Held = {}
    BY <1>2, <1>3, <2>1 DEF Held
  <2>2. CASE Held # {}
    <3>1. \A m \in Minutes : m >= Reach' - Week => ~(m < Cutoff) /\ m >= Reach - Week
      <4>1. Week \in Nat /\ \A m \in Minutes : m \in Int
        BY BoundsAreNumbers, MinutesAndDays
      <4> QED
        BY <1>2, <1>4, <1>6, <2>2, <4>1
    <3> QED
      BY <1>3, <3>1
  <2> QED
    BY <2>1, <2>2
<1>8. MinutesAreWhole'
  <2>1. \A m \in Minutes : m >= Reach' - Week => m >= Reach - Week
    <3>1. Week \in Nat /\ \A m \in Minutes : m \in Int
      BY BoundsAreNumbers, MinutesAndDays
    <3> QED
      BY <1>2, <1>6, <3>1
  <2> QED
    BY <1>1, <1>7, <2>1 DEF RetentionInv, MinutesAreWhole, WrittenIn
<1>9. ASSUME NEW d \in Days
      PROVE  /\ daily'[d] \in Nat
             /\ daily'[d] + Sum(buckets', MinutesOf(d)) = daily[d] + Sum(buckets, MinutesOf(d))
  <2> DEFINE folded == {m \in Held : m < Cutoff /\ DayOf(m) = d}
             rest == MinutesOf(d) \ folded
  <2>1. IsFiniteSet(MinutesOf(d)) /\ MinutesOf(d) \subseteq Minutes /\ folded \subseteq MinutesOf(d)
    BY MinutesAndDays DEF Held, MinutesOf
  <2>2. IsFiniteSet(folded) /\ IsFiniteSet(rest) /\ folded \cup rest = MinutesOf(d) /\ folded \cap rest = {}
    <3>1. rest \subseteq MinutesOf(d) /\ folded \cup rest = MinutesOf(d) /\ folded \cap rest = {}
      BY <2>1
    <3> HIDE DEF folded, rest
    <3> QED
      BY <2>1, <3>1, FS_Subset
  <2>3. \A m \in rest : m \in MinutesOf(d) /\ m \in Minutes /\ (buckets[m] > 0 => ~(m < Cutoff))
    BY <2>1 DEF Held, MinutesOf
  <2>4. \A m \in MinutesOf(d) : m \in Minutes /\ (m \notin rest => m < Cutoff)
    BY <2>1
  <2>5. daily'[d] = daily[d] + Sum(buckets, folded)
    BY <1>1 DEF rollupDaily
  <2> HIDE DEF folded, rest
  <2>6. Sum(buckets, MinutesOf(d)) = Sum(buckets, folded) + Sum(buckets, rest)
    <3>1. \A m \in folded \cup rest : buckets[m] \in Nat
      BY <1>2, <2>1, <2>2
    <3> QED
      BY <2>2, <3>1, SumOfTwo
  <2>7. Sum(buckets', MinutesOf(d)) = Sum(buckets, rest)
    <3>1. \A m \in MinutesOf(d) : buckets'[m] \in Nat /\ (buckets'[m] > 0 => m \in rest /\ buckets[m] = buckets'[m])
      BY <1>2, <1>3, <2>4
    <3>2. \A m \in rest : buckets[m] \in Nat /\ (buckets[m] > 0 => m \in MinutesOf(d) /\ buckets[m] = buckets'[m])
      BY <1>2, <1>3, <2>3
    <3> QED
      BY <3>1, <3>2, SumGoesBy
  <2>8. Sum(buckets, folded) \in Nat /\ Sum(buckets, rest) \in Nat /\ daily[d] \in Nat
    <3>1. (\A m \in folded : buckets[m] \in Nat) /\ (\A m \in rest : buckets[m] \in Nat)
      BY <1>2, <2>1, <2>2
    <3> QED
      BY <1>2, <2>2, <3>1, SumIsNat
  <2> QED
    BY <2>5, <2>6, <2>7, <2>8
<1>10. DaysAreWhole'
  <2>1. Written' = Written
    BY <1>1 DEF Written, WrittenIn
  <2> QED
    BY <1>9, <2>1 DEF RetentionInv, DaysAreWhole
<1>11. RetentionType'
  <2>1. daily' \in [Days -> Nat]
    <3>1. daily' = [d \in Days |-> daily'[d]]
      BY <1>1 DEF rollupDaily
    <3> QED
      BY <1>9, <3>1
  <2> QED
    BY <1>1, <1>3, <2>1 DEF RetentionInv, RetentionType
<1>12. NothingYet' /\ NothingAhead'
  <2>1. Held' = {} => Held = {}
    BY <1>2, <1>5 DEF Held
  <2>2. Held' \subseteq Held
    BY <1>2, <1>3 DEF Held
  <2> QED
    BY <1>1, <2>1, <2>2 DEF RetentionInv, NothingYet, NothingAhead
<1>13. LogInOrder'
  <2>1. \A i \in DOMAIN log : log[i].ts <= Reach'
    <3>1. \A i \in DOMAIN log : log[i].ts \in Nat /\ log[i].ts <= Reach
      BY LogIsFinite DEF RetentionInv, LogInOrder
    <3> QED
      BY <1>2, <1>6, <3>1
  <2> QED
    BY <1>1, <2>1 DEF RetentionInv, LogInOrder
<1> QED
  BY <1>1, <1>2, <1>6, <1>8, <1>10, <1>11, <1>12, <1>13, AddressDaysRest, RawRests, FeesRest, LargestRest DEF RetentionInv

----------------------------------------------------------------------------
(* The writers.                                                             *)

LEMMA TimePassesKeeps ==
  ASSUME RetentionAssumption, RetentionInv, TimePasses
  PROVE  RetentionInv'
<1>1. /\ UNCHANGED <<buckets, daily, recent, top, addrs, addrDays, feeSamples, feeBuckets, log, late>>
      /\ now' = now + 1 /\ now < MaxMinute
  BY DEF TimePasses
<1>2. Reach \in Nat /\ Reach' = Reach
  BY <1>1, LedgerRests, ReachIsAMinute DEF RetentionInv
<1>3. now \in Nat /\ now' \in Minutes /\ now <= now'
  BY <1>1, BoundsAreNumbers DEF RetentionInv, RetentionType, Minutes
<1>4. RetentionType' /\ NothingYet'
  BY <1>1, <1>3 DEF RetentionInv, RetentionType, NothingYet, Held
<1>5. NothingAhead'
  <2>1. \A m \in Held : m \in Nat /\ m <= now
    BY MinutesAndDays DEF RetentionInv, NothingAhead, Held
  <2>2. \A m \in Held : m <= now'
    BY <1>1, <1>3, <2>1
  <2> QED
    BY <1>1, <2>2 DEF NothingAhead, Held
<1>6. Reach <= Reach' /\ Reach' \in Nat
  BY <1>2
<1> QED
  BY <1>1, <1>2, <1>4, <1>5, <1>6, LedgerRests, AddressDaysRest, RawRests, FeesRest, LargestRest DEF RetentionInv

LEMMA CrashKeeps ==
  ASSUME RetentionAssumption, RetentionInv, Crash
  PROVE  RetentionInv'
<1>1. UNCHANGED <<now, buckets, daily, recent, top, addrs, addrDays, feeSamples, feeBuckets, log, late>>
  BY DEF Crash
<1>2. Reach \in Nat /\ Reach' = Reach
  BY <1>1, LedgerRests, ReachIsAMinute DEF RetentionInv
<1>3. RetentionType' /\ NothingYet' /\ NothingAhead'
  BY <1>1 DEF RetentionInv, RetentionType, NothingYet, NothingAhead, Held
<1>4. Reach <= Reach' /\ Reach' \in Nat
  BY <1>2
<1> QED
  BY <1>1, <1>2, <1>3, <1>4, LedgerRests, AddressDaysRest, RawRests, FeesRest, LargestRest DEF RetentionInv

\* A sample adds one to the count of its minute exactly when it adds a row.
LEMMA InsertFeeSamplesKeeps ==
  ASSUME RetentionAssumption, RetentionInv, insertFeeSamples
  PROVE  RetentionInv'
<1>1. PICK sample \in sampleFees :
        IF \E s \in feeSamples : s[1] = sample[1] THEN UNCHANGED <<feeSamples, feeBuckets>>
        ELSE /\ feeSamples' = feeSamples \cup {sample}
             /\ feeBuckets' = [feeBuckets EXCEPT ![sample[2]] = @ + 1]
  BY DEF insertFeeSamples
<1>2. UNCHANGED <<now, buckets, daily, recent, top, addrs, addrDays, log, late>> /\ Held # {}
  BY DEF insertFeeSamples
<1>3. Reach \in Nat /\ Reach' = Reach
  BY <1>2, LedgerRests, ReachIsAMinute DEF RetentionInv
<1>4. feeBuckets \in [Minutes -> Nat] /\ feeSamples \subseteq Minutes \X Minutes /\ sample[2] \in Minutes /\ sample \in Minutes \X Minutes
  BY DEF RetentionInv, RetentionType, sampleFees
<1>5. Held' = Held /\ Held' # {}
  BY <1>2 DEF Held
<1>6. RetentionType' /\ NothingYet' /\ NothingAhead'
  <2>1. feeSamples' \subseteq Minutes \X Minutes
    BY <1>1, <1>4
  <2>2. feeBuckets' \in [Minutes -> Nat]
    <3>1. feeBuckets[sample[2]] + 1 \in Nat
      BY <1>4
    <3> QED
      BY <1>1, <1>4, <3>1
  <2>3. RetentionType'
    BY <1>2, <2>1, <2>2 DEF RetentionInv, RetentionType
  <2>4. NothingYet' /\ NothingAhead'
    BY <1>2, <1>5 DEF RetentionInv, NothingYet, NothingAhead
  <2> QED
    BY <2>3, <2>4
<1>7. FeesAgree'
  <2>1. CASE \E s \in feeSamples : s[1] = sample[1]
    BY <1>1, <1>3, <2>1, FeesRest
  <2>2. CASE ~\E s \in feeSamples : s[1] = sample[1]
    <3> SUFFICES ASSUME NEW since \in Minutes, since >= Reach - Week
                 PROVE  feeStats(since)' = feeBucketCounts(since)'
      BY <1>3 DEF FeesAgree
    <3> DEFINE rows == {s \in feeSamples : s[2] >= since}
               rows2 == {s \in feeSamples' : s[2] >= since}
               S == {m \in Minutes : m >= since}
               one == [m \in Minutes |-> IF m = sample[2] THEN 1 ELSE 0]
    <3>1. Cardinality(rows) = Sum(feeBuckets, S)
      BY DEF RetentionInv, FeesAgree, feeStats, feeBucketCounts
    <3>2. sample \notin rows /\ rows2 = IF sample[2] >= since THEN rows \cup {sample} ELSE rows
      BY <1>1, <2>2
    <3>3. IsFiniteSet(rows) /\ IsFiniteSet(S) /\ S \subseteq Minutes
      <4>1. IsFiniteSet(Minutes \X Minutes) /\ rows \subseteq Minutes \X Minutes
        BY <1>4, MinutesAndDays, FS_Product
      <4>2. S \subseteq Minutes
        OBVIOUS
      <4> HIDE DEF rows, S
      <4> QED
        BY <4>1, <4>2, MinutesAndDays, FS_Subset
    <3>4. Cardinality(rows2) = Cardinality(rows) + (IF sample[2] >= since THEN 1 ELSE 0)
      <4>1. Cardinality(rows) \in Nat
        <5> HIDE DEF rows
        <5> QED
          BY <3>3, FS_CardinalityType
      <4>2. Cardinality(rows \cup {sample}) = Cardinality(rows) + 1
        <5> HIDE DEF rows
        <5> QED
          BY <3>2, <3>3, FS_AddElement
      <4> HIDE DEF rows, rows2
      <4> QED
        BY <3>2, <4>1, <4>2
    <3>5. Sum(feeBuckets', S) = Sum(feeBuckets, S) + Sum(one, S)
      <4>1. \A m \in S : feeBuckets[m] \in Nat /\ one[m] \in Nat /\ feeBuckets'[m] = feeBuckets[m] + one[m]
        BY <1>1, <1>4, <2>2
      <4> HIDE DEF S, one
      <4> QED
        BY <3>3, <4>1, SumOfSums
    <3>6. Sum(one, S) = IF sample[2] >= since THEN 1 ELSE 0
      <4>1. ASSUME sample[2] >= since
            PROVE  Units(one, S) = {<<sample[2], 1>>}
        <5>1. \A m \in Minutes : \A n : n \in 1 .. one[m] <=> m = sample[2] /\ n = 1
          <6> TAKE m \in Minutes
          <6> TAKE n
          <6>1. one[m] = IF m = sample[2] THEN 1 ELSE 0
            OBVIOUS
          <6> HIDE DEF one
          <6> QED
            BY <6>1
        <5>2. sample[2] \in S
          BY <1>4, <4>1
        <5>3. \A u : u \in Units(one, S) <=> u[1] \in S /\ u[2] \in 1 .. one[u[1]] /\ u = <<u[1], u[2]>>
          BY UnitsOf
        <5> HIDE DEF one, S
        <5>4. ASSUME NEW u \in Units(one, S)
              PROVE  u = <<sample[2], 1>>
          <6>1. u[1] \in Minutes /\ u[2] \in 1 .. one[u[1]] /\ u = <<u[1], u[2]>>
            BY <3>3, <5>3
          <6> QED
            BY <5>1, <6>1
        <5>5. <<sample[2], 1>> \in Units(one, S)
          BY <3>3, <5>1, <5>2, <5>3
        <5> QED
          BY <5>4, <5>5
      <4>2. ASSUME ~(sample[2] >= since)
            PROVE  Units(one, S) = {}
        <5>1. \A m \in S : 1 .. one[m] = {}
          BY <4>2
        <5> HIDE DEF one, S
        <5> QED
          BY <5>1 DEF Units
      <4>3. Sum(one, S) = Cardinality(Units(one, S))
        BY DEF Sum, Units
      <4> HIDE DEF one, S
      <4> QED
        BY <4>1, <4>2, <4>3, FS_EmptySet, FS_Singleton
    <3>7. feeStats(since)' = Cardinality(rows2) /\ feeBucketCounts(since)' = Sum(feeBuckets', S)
      BY DEF feeStats, feeBucketCounts
    <3> HIDE DEF rows, rows2, S, one
    <3> QED
      BY <3>1, <3>4, <3>5, <3>6, <3>7
  <2> QED
    BY <2>1, <2>2
<1>8. Reach <= Reach' /\ Reach' \in Nat
  BY <1>3
<1> QED
  BY <1>2, <1>3, <1>6, <1>7, <1>8, LedgerRests, AddressDaysRest, RawRests, LargestRest DEF RetentionInv

\* What is added to the minutes is added to what was written in them.
LEMMA LedgerAdds ==
  ASSUME RetentionAssumption, RetentionInv, NEW add \in [Minutes -> Nat],
         buckets' = [m \in Minutes |-> buckets[m] + add[m]], daily' = daily,
         \A m \in Minutes : WrittenIn(m)' = WrittenIn(m) + add[m], \A m \in Minutes : WrittenIn(m) \in Nat
  PROVE  /\ DaysAreWhole' /\ MinutesAreWhole' /\ buckets' \in [Minutes -> Nat]
         /\ Reach <= Reach' /\ Reach' \in Nat /\ \A m \in Minutes : add[m] > 0 => m <= Reach'
<1>1. buckets \in [Minutes -> Nat] /\ daily \in [Days -> Nat] /\ Reach \in Nat
  BY ReachIsAMinute DEF RetentionInv, RetentionType
<1>2. buckets' \in [Minutes -> Nat] /\ \A m \in Minutes : buckets'[m] = buckets[m] + add[m]
  BY <1>1
<1>3. \A m \in Minutes : (buckets[m] > 0 \/ add[m] > 0) => buckets'[m] > 0
  BY <1>1, <1>2
<1>4. Reach <= Reach' /\ Reach' \in Nat /\ \A m \in Minutes : add[m] > 0 => m <= Reach'
  <2>1. \A m \in Minutes : m <= m
    BY MinutesAndDays
  <2>2. \A m \in Minutes : buckets[m] > 0 => \E k \in Minutes : m <= k /\ buckets'[k] > 0
    BY <1>3, <2>1
  <2>3. ReachOf(buckets) <= ReachOf(buckets')
    BY <1>1, <1>2, <2>2, ReachGoesOn
  <2>4. ReachOf(buckets') \in Minutes /\ \A m \in Minutes : buckets'[m] > 0 => m <= ReachOf(buckets')
    BY <1>2, ReachOfRows
  <2> QED
    BY <1>3, <2>3, <2>4, MinutesAndDays DEF Reach
<1>5. MinutesAreWhole'
  <2>1. Week \in Nat /\ \A m \in Minutes : m \in Int
    BY BoundsAreNumbers, MinutesAndDays
  <2>2. \A m \in Minutes : m >= Reach' - Week => m >= Reach - Week
    BY <1>1, <1>4, <2>1
  <2>3. \A m \in Minutes : m >= Reach' - Week => buckets'[m] = WrittenIn(m)'
    BY <1>2, <2>2 DEF RetentionInv, MinutesAreWhole
  <2> QED
    BY <2>3 DEF MinutesAreWhole
<1>6. ASSUME NEW d \in Days
      PROVE  daily'[d] + Sum(buckets', MinutesOf(d)) = Sum(Written', MinutesOf(d))
  <2>1. IsFiniteSet(MinutesOf(d)) /\ MinutesOf(d) \subseteq Minutes
    BY MinutesAndDays
  <2>2. \A m \in Minutes : Written[m] \in Nat /\ Written'[m] = Written[m] + add[m]
    BY DEF Written
  <2>3. Sum(buckets', MinutesOf(d)) = Sum(buckets, MinutesOf(d)) + Sum(add, MinutesOf(d))
    <3>1. \A m \in MinutesOf(d) : buckets[m] \in Nat /\ add[m] \in Nat /\ buckets'[m] = buckets[m] + add[m]
      BY <1>1, <1>2, <2>1
    <3> QED
      BY <2>1, <3>1, SumOfSums
  <2>4. Sum(Written', MinutesOf(d)) = Sum(Written, MinutesOf(d)) + Sum(add, MinutesOf(d))
    <3>1. \A m \in MinutesOf(d) : Written[m] \in Nat /\ add[m] \in Nat /\ Written'[m] = Written[m] + add[m]
      BY <2>1, <2>2
    <3> QED
      BY <2>1, <3>1, SumOfSums
  <2>5. daily[d] + Sum(buckets, MinutesOf(d)) = Sum(Written, MinutesOf(d))
    BY DEF RetentionInv, DaysAreWhole
  <2>6. daily[d] \in Nat /\ Sum(buckets, MinutesOf(d)) \in Nat /\ Sum(add, MinutesOf(d)) \in Nat
    <3>1. \A m \in MinutesOf(d) : buckets[m] \in Nat /\ add[m] \in Nat
      BY <1>1, <2>1
    <3> QED
      BY <1>1, <2>1, <3>1, SumIsNat
  <2> QED
    BY <2>3, <2>4, <2>5, <2>6
<1>7. DaysAreWhole'
  BY <1>6 DEF DaysAreWhole
<1> QED
  BY <1>2, <1>4, <1>5, <1>7

LEMMA WrittenIsNat ==
  ASSUME RetentionAssumption, RetentionType
  PROVE  \A m \in Minutes : WrittenIn(m) \in Nat
<1> TAKE m \in Minutes
<1>1. IsFiniteSet(DOMAIN log) /\ {i \in DOMAIN log : log[i].ts = m} \subseteq DOMAIN log
  BY LogIsFinite
<1>2. Cardinality({i \in DOMAIN log : log[i].ts = m}) \in Nat
  BY <1>1, FS_Subset, FS_CardinalityType
<1>3. late[m] \in Nat
  BY DEF RetentionType
<1> QED
  BY <1>2, <1>3 DEF WrittenIn

LEMMA CorrectKeeps ==
  ASSUME RetentionAssumption, RetentionInv, Correct
  PROVE  RetentionInv'
<1>1. PICK m \in 0 .. getCoverage.b :
        buckets' = upBucket(buckets, [n \in {m} |-> 1]) /\ late' = [late EXCEPT ![m] = @ + 1]
  BY DEF Correct
<1>2. UNCHANGED <<now, daily, recent, top, addrs, addrDays, feeSamples, feeBuckets, log>> /\ Held # {}
  BY DEF Correct
<1>3. m \in Minutes /\ m \in Nat /\ m <= Reach /\ Reach \in Held /\ Reach \in Nat
  <2>1. getCoverage.b = Reach /\ Reach \in Held /\ Reach \in Minutes
    BY <1>2, WindowsEndAtReach DEF RetentionInv, Held
  <2>2. MaxMinute \in Nat /\ Minutes = 0 .. MaxMinute
    BY BoundsAreNumbers DEF Minutes
  <2> QED
    BY <2>1, <2>2
<1> DEFINE one == [k \in Minutes |-> IF k = m THEN 1 ELSE 0]
<1>4. one \in [Minutes -> Nat] /\ one[m] = 1 /\ \A k \in Minutes : k # m => one[k] = 0
  BY <1>3
<1>5. buckets \in [Minutes -> Nat] /\ late \in [Minutes -> Nat]
  BY DEF RetentionInv, RetentionType
<1>6. buckets' = [k \in Minutes |-> buckets[k] + one[k]]
  BY <1>1, <1>5 DEF upBucket
<1>7. late' \in [Minutes -> Nat] /\ \A k \in Minutes : late'[k] = late[k] + one[k]
  BY <1>1, <1>3, <1>5
<1>8. \A k \in Minutes : WrittenIn(k) \in Nat
  BY WrittenIsNat DEF RetentionInv
<1>9. \A k \in Minutes : WrittenIn(k)' = WrittenIn(k) + one[k]
  <2> TAKE k \in Minutes
  <2> DEFINE c == Cardinality({i \in DOMAIN log : log[i].ts = k})
  <2>1. WrittenIn(k) = c + late[k] /\ WrittenIn(k)' = c + late'[k]
    BY <1>2 DEF WrittenIn
  <2>2. c \in Nat
    <3>1. IsFiniteSet(DOMAIN log) /\ {i \in DOMAIN log : log[i].ts = k} \subseteq DOMAIN log
      BY LogIsFinite DEF RetentionInv
    <3> QED
      BY <3>1, FS_Subset, FS_CardinalityType
  <2>3. late[k] \in Nat /\ one[k] \in Nat /\ late'[k] = late[k] + one[k]
    BY <1>4, <1>5, <1>7
  <2> HIDE DEF c, one
  <2> QED
    BY <2>1, <2>2, <2>3
<1> HIDE DEF one
<1>10. /\ DaysAreWhole' /\ MinutesAreWhole' /\ buckets' \in [Minutes -> Nat]
       /\ Reach <= Reach' /\ Reach' \in Nat
  BY <1>2, <1>4, <1>6, <1>8, <1>9, LedgerAdds
<1>11. RetentionType'
  BY <1>2, <1>7, <1>10 DEF RetentionInv, RetentionType
<1>12. Held # {} /\ Held' # {} /\ \A k \in Held' : k \in Held \/ k = m
  <2>1. buckets'[Reach] > 0 /\ Reach \in Minutes
    BY <1>3, <1>4, <1>5, <1>6 DEF Held
  <2>2. \A k \in Minutes : k # m => buckets'[k] = buckets[k]
    BY <1>4, <1>5, <1>6
  <2> QED
    BY <1>2, <2>1, <2>2 DEF Held
<1>13. NothingYet' /\ NothingAhead'
  <2>1. m <= now
    <3>1. Reach <= now /\ now \in Nat
      BY <1>3, MinutesAndDays DEF RetentionInv, NothingAhead, RetentionType
    <3> QED
      BY <1>3, <3>1
  <2> QED
    BY <1>2, <1>12, <2>1 DEF RetentionInv, NothingYet, NothingAhead
<1>14. LogInOrder'
  <2>1. \A i \in DOMAIN log : log[i].ts \in Nat /\ log[i].ts <= Reach
    BY LogIsFinite DEF RetentionInv, LogInOrder
  <2>2. \A i \in DOMAIN log : log[i].ts <= Reach'
    BY <1>3, <1>10, <2>1
  <2> QED
    BY <1>2, <2>2 DEF RetentionInv, LogInOrder
<1> QED
  BY <1>2, <1>3, <1>10, <1>11, <1>13, <1>14, AddressDaysRest, RawRests, FeesRest, LargestRest DEF RetentionInv

\* A batch goes behind the log: what the log is then.
IsAppended(Row, l, n, batch, both) ==
  /\ both \in Seq(Row) /\ Len(both) = Len(l) + n /\ DOMAIN both = 1 .. Len(l) + n
  /\ \A i \in 1 .. Len(l) : both[i] = l[i]
  /\ \A i \in 1 .. n : both[Len(l) + i] = batch[i]

LEMMA BatchIsAppended ==
  ASSUME NEW Row, NEW l \in Seq(Row), NEW n \in Nat, NEW batch \in [1 .. n -> Row]
  PROVE  IsAppended(Row, l, n, batch, l \o batch)
<1>1. batch \in Seq(Row) /\ Len(batch) = n
  OBVIOUS
<1> QED
  BY <1>1 DEF IsAppended

\* So a minute has what it had and what the batch has of it.
InMinute(l, m) == {i \in DOMAIN l : l[i].ts = m}
OneAfterTheOther(l, k, batch, n, both) ==
  /\ DOMAIN l = 1 .. k /\ DOMAIN batch = 1 .. n /\ DOMAIN both = 1 .. k + n
  /\ \A i \in 1 .. k : both[i] = l[i]
  /\ \A i \in 1 .. n : both[k + i] = batch[i]

LEMMA WrittenByABatch ==
  ASSUME NEW k \in Nat, NEW n \in Nat, NEW l, NEW batch, NEW both, NEW m,
         OneAfterTheOther(l, k, batch, n, both)
  PROVE  /\ Cardinality(InMinute(batch, m)) \in Nat
         /\ Cardinality(InMinute(both, m)) = Cardinality(InMinute(l, m)) + Cardinality(InMinute(batch, m))
<1> DEFINE old == {i \in DOMAIN l : l[i].ts = m}
           new == {i \in 1 .. n : batch[i].ts = m}
           behind == {i \in k + 1 .. k + n : both[i].ts = m}
           move == [i \in new |-> k + i]
<1>1. /\ DOMAIN l = 1 .. k /\ DOMAIN batch = 1 .. n /\ DOMAIN both = 1 .. k + n
      /\ \A i \in 1 .. k : both[i] = l[i]
      /\ \A i \in 1 .. n : both[k + i] = batch[i]
  BY DEF OneAfterTheOther
<1>2. {i \in DOMAIN both : both[i].ts = m} = old \cup behind /\ old \cap behind = {}
  <2>1. \A i : i \in 1 .. k + n <=> i \in 1 .. k \/ i \in k + 1 .. k + n
    BY <1>1
  <2>2. \A i : ~(i \in 1 .. k /\ i \in k + 1 .. k + n)
    BY <1>1
  <2> QED
    BY <1>1, <2>1, <2>2
<1>3. IsFiniteSet(old) /\ IsFiniteSet(new)
  <2>1. IsFiniteSet(1 .. k) /\ IsFiniteSet(1 .. n)
    <3>1. 1 \in Int /\ k \in Int /\ n \in Int
      BY <1>1
    <3> QED
      BY <3>1, FS_Interval
  <2>2. old \subseteq 1 .. k /\ new \subseteq 1 .. n
    BY <1>1
  <2> HIDE DEF old, new
  <2> QED
    BY <2>1, <2>2, FS_Subset
<1>4. move \in Bijection(new, behind)
  <2>1. \A i \in new : k + i \in behind
    <3> TAKE i \in new
    <3>1. i \in 1 .. n /\ batch[i].ts = m
      OBVIOUS
    <3>2. k + i \in k + 1 .. k + n
      BY <1>1, <3>1
    <3> QED
      BY <1>1, <3>1, <3>2
  <2>2. \A i, j \in new : move[i] = move[j] => i = j
    <3> SUFFICES ASSUME NEW i \in new, NEW j \in new, k + i = k + j
                 PROVE  i = j
      OBVIOUS
    <3>1. i \in Int /\ j \in Int
      OBVIOUS
    <3> QED
      BY <1>1, <3>1
  <2>3. \A w \in behind : \E i \in new : move[i] = w
    <3> TAKE w \in behind
    <3>1. w \in k + 1 .. k + n /\ both[w].ts = m
      OBVIOUS
    <3>2. w - k \in 1 .. n /\ k + (w - k) = w
      BY <1>1, <3>1
    <3>3. batch[w - k].ts = m
      BY <1>1, <3>1, <3>2
    <3>4. w - k \in new
      BY <3>2, <3>3
    <3>5. move[w - k] = w
      BY <3>2, <3>4
    <3> QED
      BY <3>4, <3>5
  <2>4. move \in [new -> behind]
    BY <2>1
  <2> HIDE DEF move, new, behind
  <2> QED
    BY <2>2, <2>3, <2>4 DEF Bijection, Injection, Surjection, IsInjective
<1> HIDE DEF move, new, old, behind
<1>5. IsFiniteSet(behind) /\ Cardinality(behind) = Cardinality(new)
  <2>1. ExistsBijection(new, behind)
    BY <1>4 DEF ExistsBijection
  <2> QED
    BY <1>3, <2>1, FS_Bijection
<1>6. Cardinality(old) \in Nat /\ Cardinality(new) \in Nat
  BY <1>3, FS_CardinalityType
<1>7. Cardinality(old \cup behind) = Cardinality(old) + Cardinality(behind) - Cardinality(old \cap behind)
  BY <1>3, <1>5, FS_Union
<1>8. Cardinality(old \cap behind) = 0
  BY <1>2, FS_EmptySet
<1>9. Cardinality(old \cup behind) = Cardinality(old) + Cardinality(new)
  BY <1>5, <1>6, <1>7, <1>8
<1>10. Cardinality({i \in DOMAIN both : both[i].ts = m}) = Cardinality(old) + Cardinality(new)
  BY <1>2, <1>9
<1>11. InMinute(both, m) = {i \in DOMAIN both : both[i].ts = m}
  BY DEF InMinute
<1>12. InMinute(l, m) = old
  BY DEF InMinute, old
<1>13. InMinute(batch, m) = new
  BY <1>1 DEF InMinute, new
<1> QED
  BY <1>6, <1>10, <1>11, <1>12, <1>13

\* What lies in a window lay in it when it ended earlier.
LEMMA LaterWindow ==
  ASSUME NEW a \in Nat, NEW b \in Nat, a <= b, NEW w \in Nat, NEW t \in Int, t >= b - w
  PROVE  t >= a - w
OBVIOUS

LEMMA Follows ==
  ASSUME NEW a \in Nat, NEW b \in Nat, NEW c \in Nat, a <= b, b <= c
  PROVE  a <= c
OBVIOUS

LEMMA StillInside ==
  ASSUME NEW a \in Nat, NEW b \in Nat, a <= b, NEW r \in Nat, NEW d \in Nat, a >= r - d
  PROVE  b >= r - d
OBVIOUS

LEMMA MoreThanNone ==
  ASSUME NEW a \in Nat, NEW b \in Nat, b > 0
  PROVE  a + b > 0
OBVIOUS

LEMMA InAnyOrder ==
  ASSUME NEW a \in Nat, NEW b \in Nat, NEW c \in Nat
  PROVE  (a + b) + c = (a + c) + b /\ a + c \in Nat
OBVIOUS

\* Places after the first k.
LEMMA PlaceInBatch ==
  ASSUME NEW k \in Nat, NEW n \in Nat, NEW i \in 1 .. k + n, i \notin 1 .. k
  PROVE  i \in k + 1 .. k + n /\ i - k \in 1 .. n /\ k + (i - k) = i
OBVIOUS

LEMMA PlacesOfBatch ==
  ASSUME NEW k \in Nat, NEW n \in Nat
  PROVE  1 .. k \subseteq 1 .. k + n /\ k + 1 .. k + n \subseteq 1 .. k + n
OBVIOUS

LEMMA PlacesInOrder ==
  ASSUME NEW k \in Nat, NEW n \in Nat, NEW i \in 1 .. k + n, NEW j \in 1 .. k + n, i < j
  PROVE  i - k < j - k
OBVIOUS

\* A stamp between the newest indexed minute and now.
LEMMA StampOfABatch ==
  ASSUME RetentionAssumption, NEW from \in Nat, NEW first \in Nat, NEW until \in Minutes, from <= first, NEW t \in first .. until
  PROVE  t \in Nat /\ from <= t /\ t <= until /\ t \in Minutes
BY BoundsAreNumbers DEF Minutes

\* A batch begins no earlier than what is indexed and ends no later than now; an
\* older transfer can only lose a place to it.
LEMMA ApplyBatchKeeps ==
  ASSUME RetentionAssumption, RetentionInv, applyBatch
  PROVE  RetentionInv'
<1> DEFINE first == IF Held = {} THEN 0 ELSE getCoverage.b
           unused == 1 .. MaxTransfers \ {log[i].amount : i \in DOMAIN log}
           Row == [ts : Minutes, amount : Nat]
           L == Len(log)
<1>1. PICK n \in 1 .. Least(Least(MaxBatch, Room), MaxTransfers - Len(log)) :
        \E batch \in [1 .. n -> [ts : first .. now, amount : unused]] :
          /\ \A i, j \in 1 .. n : i < j => batch[i].ts <= batch[j].ts /\ batch[i].amount # batch[j].amount
          /\ log' = log \o batch
          /\ buckets' = upBucket(buckets, [m \in Minutes |-> Cardinality({i \in 1 .. n : batch[i].ts = m})])
          /\ addrDays' = addrDays \cup {DayOf(batch[i].ts) : i \in 1 .. n}
          /\ recent' = trimRecent(recent \cup (Len(log) + 1 .. Len(log) + n))
          /\ top' = top \cup topOf(log', Len(log) + 1 .. Len(log) + n)
          /\ addrs' = addrs \cup (Len(log) + 1 .. Len(log) + n)
  BY DEF applyBatch
<1>2. PICK batch \in [1 .. n -> [ts : first .. now, amount : unused]] :
        /\ \A i, j \in 1 .. n : i < j => batch[i].ts <= batch[j].ts /\ batch[i].amount # batch[j].amount
        /\ log' = log \o batch
        /\ buckets' = upBucket(buckets, [m \in Minutes |-> Cardinality({i \in 1 .. n : batch[i].ts = m})])
        /\ addrDays' = addrDays \cup {DayOf(batch[i].ts) : i \in 1 .. n}
        /\ recent' = trimRecent(recent \cup (L + 1 .. L + n))
        /\ top' = top \cup topOf(log', L + 1 .. L + n)
        /\ addrs' = addrs \cup (L + 1 .. L + n)
  BY <1>1
<1>3. UNCHANGED <<now, daily, feeSamples, feeBuckets, late>>
  BY DEF applyBatch
<1>4. /\ log \in Seq(Row) /\ L \in Nat /\ DOMAIN log = 1 .. L /\ buckets \in [Minutes -> Nat] /\ daily \in [Days -> Nat]
      /\ \A i \in DOMAIN log : log[i].ts \in Nat /\ log[i].amount \in Nat
  BY LogIsFinite DEF RetentionInv, RetentionType
<1>5. n \in Nat /\ n >= 1
  OBVIOUS
<1>6. Reach \in Nat /\ Reach <= first /\ now \in Minutes /\ now \in Nat /\ first \in Nat
  <2>1. Reach \in Nat /\ (Held # {} => getCoverage.b = Reach)
    BY WindowsEndAtReach DEF RetentionInv
  <2>2. Held = {} => Reach = 0
    BY DEF Reach, ReachOf, Held
  <2>3. now \in Minutes /\ now \in Nat
    BY MinutesAndDays DEF RetentionInv, RetentionType
  <2>4. first = Reach
    BY <2>1, <2>2
  <2> HIDE DEF first
  <2> QED
    BY <2>1, <2>3, <2>4
<1>7. \A i \in 1 .. n : /\ batch[i].ts \in Minutes /\ batch[i].ts \in Nat /\ Reach <= batch[i].ts /\ batch[i].ts <= now
                        /\ batch[i].amount \in Nat /\ batch[i] \in Row
                        /\ \A j \in DOMAIN log : log[j].amount # batch[i].amount
  <2> TAKE i \in 1 .. n
  <2>1. batch[i] \in [ts : first .. now, amount : unused]
    BY <1>2
  <2>2. batch[i].ts \in first .. now /\ batch[i].amount \in 1 .. MaxTransfers
        /\ \A j \in DOMAIN log : log[j].amount # batch[i].amount
    BY <2>1
  <2>3. MaxMinute \in Nat /\ Minutes = 0 .. MaxMinute
    BY BoundsAreNumbers DEF Minutes
  <2> HIDE DEF first
  <2>4. batch[i].ts \in Nat /\ Reach <= batch[i].ts /\ batch[i].ts <= now /\ batch[i].ts \in Minutes
    <3>1. batch[i].ts \in first .. now
      BY <2>2
    <3> QED
      BY <1>6, <3>1, StampOfABatch
  <2>5. batch[i].amount \in Nat
    <3>1. \A a \in 1 .. MaxTransfers : a \in Nat
      OBVIOUS
    <3> QED
      BY <2>2, <3>1
  <2>6. batch[i] \in Row
    BY <2>1, <2>4, <2>5
  <2> QED
    BY <2>2, <2>4, <2>5, <2>6
<1> HIDE DEF first, unused, L
<1>8. batch \in [1 .. n -> Row]
  <2> HIDE DEF Row
  <2> QED
    BY <1>2, <1>7
<1>9. /\ log' \in Seq(Row) /\ Len(log') = L + n /\ DOMAIN log' = 1 .. L + n
      /\ \A i \in 1 .. L : log'[i] = log[i]
      /\ \A i \in 1 .. n : log'[L + i] = batch[i]
  <2> HIDE DEF Row
  <2> HIDE DEF unused, first
  <2>1. log \in Seq(Row) /\ n \in Nat
    BY <1>4, <1>5
  <2>2. IsAppended(Row, log, n, batch, log \o batch)
    BY <1>8, <2>1, BatchIsAppended
  <2>3. log' = log \o batch
    BY <1>2
  <2> QED
    BY <2>2, <2>3 DEF L, IsAppended
<1> HIDE DEF L
<1>10. \A i \in DOMAIN log' : \/ i \in DOMAIN log /\ log'[i] = log[i]
                              \/ i \in L + 1 .. L + n /\ i - L \in 1 .. n /\ log'[i] = batch[i - L]
  <2> TAKE i \in DOMAIN log'
  <2>1. CASE i \in 1 .. L
    BY <1>4, <1>9, <2>1
  <2>2. CASE ~(i \in 1 .. L)
    <3>0. i \in 1 .. L + n /\ L \in Nat /\ n \in Nat
      BY <1>4, <1>5, <1>9
    <3>1. i \in 1 .. L + n /\ i \in L + 1 .. L + n /\ i - L \in 1 .. n /\ L + (i - L) = i
      BY <2>2, <3>0, PlaceInBatch
    <3>2. log'[L + (i - L)] = batch[i - L]
      BY <1>9, <3>1
    <3> QED
      BY <3>1, <3>2
  <2> QED
    BY <2>1, <2>2
<1>11. DOMAIN log \subseteq DOMAIN log' /\ L + 1 .. L + n \subseteq DOMAIN log'
  <2>1. 1 .. L \subseteq 1 .. L + n /\ L + 1 .. L + n \subseteq 1 .. L + n
    <3>1. L \in Nat /\ n \in Nat
      BY <1>4, <1>5
    <3> QED
      BY <3>1, PlacesOfBatch
  <2> QED
    BY <1>4, <1>9, <2>1
\* The ledger.
<1> DEFINE add == [m \in Minutes |-> Cardinality({i \in 1 .. n : batch[i].ts = m})]
<1>12. add \in [Minutes -> Nat] /\ \A m \in Minutes : WrittenIn(m)' = WrittenIn(m) + add[m] /\ WrittenIn(m) \in Nat
  <2>1. \A m \in Minutes : add[m] \in Nat /\ Cardinality({i \in DOMAIN log' : log'[i].ts = m}) = Cardinality({i \in DOMAIN log : log[i].ts = m}) + add[m]
    <3> TAKE m \in Minutes
    <3>1. add[m] = Cardinality(InMinute(batch, m))
      BY DEF InMinute
    <3> HIDE DEF Row, add
    <3>2. DOMAIN batch = 1 .. n
      BY <1>8
    <3>3. /\ Cardinality(InMinute(batch, m)) \in Nat
          /\ Cardinality(InMinute(log', m)) = Cardinality(InMinute(log, m)) + Cardinality(InMinute(batch, m))
      <4>1. L \in Nat /\ n \in Nat /\ DOMAIN log = 1 .. L
        BY <1>4, <1>5
      <4>2. DOMAIN log' = 1 .. L + n
        BY <1>9
      <4>3. (\A i \in 1 .. L : log'[i] = log[i]) /\ (\A i \in 1 .. n : log'[L + i] = batch[i])
        BY <1>9
      <4> QED
        <5>1. OneAfterTheOther(log, L, batch, n, log')
          BY <3>2, <4>1, <4>2, <4>3 DEF OneAfterTheOther
        <5> QED
          BY <4>1, <5>1, WrittenByABatch
    <3> QED
      BY <3>1, <3>3 DEF InMinute
  <2>2. \A m \in Minutes : WrittenIn(m)' = WrittenIn(m) + add[m]
    <3> TAKE m \in Minutes
    <3> DEFINE c == Cardinality({i \in DOMAIN log : log[i].ts = m})
               c2 == Cardinality({i \in DOMAIN log' : log'[i].ts = m})
    <3>1. WrittenIn(m) = c + late[m] /\ WrittenIn(m)' = c2 + late[m]
      BY <1>3 DEF WrittenIn
    <3>2. c2 = c + add[m] /\ add[m] \in Nat /\ late[m] \in Nat
      BY <2>1 DEF RetentionInv, RetentionType
    <3>3. c \in Nat
      <4>1. IsFiniteSet(DOMAIN log) /\ {i \in DOMAIN log : log[i].ts = m} \subseteq DOMAIN log
        BY LogIsFinite DEF RetentionInv
      <4> QED
        BY <4>1, FS_Subset, FS_CardinalityType
    <3>4. (c + add[m]) + late[m] = (c + late[m]) + add[m] /\ c + late[m] \in Nat
      <4> HIDE DEF c, add
      <4> QED
        BY <3>2, <3>3, InAnyOrder
    <3> HIDE DEF c, c2, add
    <3> QED
      BY <3>1, <3>2, <3>4
  <2>3. \A m \in Minutes : WrittenIn(m) \in Nat
    BY WrittenIsNat DEF RetentionInv
  <2> QED
    BY <2>1, <2>2, <2>3
<1>13. buckets' = [m \in Minutes |-> buckets[m] + add[m]]
  <2>1. DOMAIN add = Minutes
    OBVIOUS
  <2>2. buckets' = upBucket(buckets, add)
    BY <1>2
  <2> HIDE DEF add
  <2> QED
    BY <2>1, <2>2 DEF upBucket
<1>14. \A i \in 1 .. n : add[batch[i].ts] > 0
  <2> TAKE i \in 1 .. n
  <2> DEFINE those == {j \in 1 .. n : batch[j].ts = batch[i].ts}
  <2>1. i \in those /\ those \subseteq 1 .. n
    OBVIOUS
  <2>2. IsFiniteSet(1 .. n)
    <3>1. 1 \in Int /\ n \in Int
      BY <1>5
    <3> QED
      BY <3>1, FS_Interval
  <2>3. Cardinality(those) \in Nat /\ Cardinality(those) # 0
    <3> HIDE DEF those
    <3> QED
      BY <2>1, <2>2, FS_Subset, FS_CardinalityType, FS_EmptySet
  <2>4. add[batch[i].ts] = Cardinality(those)
    BY <1>7
  <2> HIDE DEF those, add
  <2> QED
    BY <2>3, <2>4
<1> HIDE DEF add
<1>15. /\ DaysAreWhole' /\ MinutesAreWhole' /\ buckets' \in [Minutes -> Nat]
       /\ Reach <= Reach' /\ Reach' \in Nat /\ \A m \in Minutes : add[m] > 0 => m <= Reach'
  BY <1>3, <1>12, <1>13, LedgerAdds
<1>0. Reach \in Nat /\ Reach' \in Nat /\ Reach <= Reach'
  BY <1>6, <1>15
<1>16. LogInOrder'
  <2>1. \A i \in DOMAIN log' : log'[i].ts <= Reach'
    <3> TAKE i \in DOMAIN log'
    <3>1. CASE i \in DOMAIN log /\ log'[i] = log[i]
      <4>1. log[i].ts <= Reach /\ log[i].ts \in Nat
        BY <1>4, <3>1 DEF RetentionInv, LogInOrder
      <4> QED
        BY <1>0, <3>1, <4>1, Follows
    <3>2. CASE i - L \in 1 .. n /\ log'[i] = batch[i - L]
      BY <1>7, <1>14, <1>15, <3>2
    <3> QED
      BY <1>10, <3>1, <3>2
  <2>2. ASSUME NEW i \in DOMAIN log', NEW j \in DOMAIN log', i < j
        PROVE  log'[i].ts <= log'[j].ts /\ log'[i].amount # log'[j].amount
    <3>1. CASE j \in DOMAIN log /\ log'[j] = log[j]
      <4>1. i \in DOMAIN log /\ log'[i] = log[i]
        <5>1. i \in 1 .. L + n /\ j \in 1 .. L
          BY <1>4, <1>9, <2>2, <3>1
        <5>2. i \in 1 .. L
          BY <1>4, <1>5, <2>2, <5>1
        <5> QED
          BY <1>4, <1>9, <5>2
      <4> QED
        BY <2>2, <3>1, <4>1 DEF RetentionInv, LogInOrder
    <3>2. CASE j - L \in 1 .. n /\ log'[j] = batch[j - L]
      <4>1. CASE i \in DOMAIN log /\ log'[i] = log[i]
        <5>1. log[i].ts <= Reach /\ log[i].ts \in Nat
          BY <1>4, <4>1 DEF RetentionInv, LogInOrder
        <5> QED
          BY <1>6, <1>7, <3>2, <4>1, <5>1, Follows
      <4>2. CASE i - L \in 1 .. n /\ log'[i] = batch[i - L]
        <5>1. i - L < j - L
          BY <1>4, <1>5, <1>9, <2>2, PlacesInOrder
        <5> QED
          BY <1>2, <3>2, <4>2, <5>1
      <4> QED
        BY <1>10, <4>1, <4>2
    <3> QED
      BY <1>10, <3>1, <3>2
  <2> QED
    BY <2>1, <2>2 DEF LogInOrder
\* What is held.
<1>17. AddressDaysAreHeld'
  <2> SUFFICES ASSUME NEW i \in DOMAIN log', log'[i].ts >= Reach' - Week
               PROVE  DayOf(log'[i].ts) \in addrDays'
    BY DEF AddressDaysAreHeld
  <2>1. CASE i \in DOMAIN log /\ log'[i] = log[i]
    <3>1. log[i].ts >= Reach - Week
      <4>1. log[i].ts \in Nat /\ Week \in Nat /\ log[i].ts >= Reach' - Week
        BY <1>4, <2>1, BoundsAreNumbers
      <4> DEFINE t == log[i].ts
      <4>2. t \in Int /\ t >= Reach' - Week
        BY <4>1
      <4> HIDE DEF t
      <4>3. t >= Reach - Week
        <5>1. Week \in Nat
          BY BoundsAreNumbers
        <5> QED
          BY <1>0, <4>2, <5>1, LaterWindow
      <4> QED
        BY <4>3 DEF t
    <3>2. DayOf(log[i].ts) \in addrDays
      BY <2>1, <3>1 DEF RetentionInv, AddressDaysAreHeld
    <3> QED
      BY <1>2, <2>1, <3>2
  <2>2. CASE i \in L + 1 .. L + n /\ i - L \in 1 .. n /\ log'[i] = batch[i - L]
    <3>1. DayOf(batch[i - L].ts) \in {DayOf(batch[k].ts) : k \in 1 .. n}
      BY <2>2
    <3> QED
      BY <1>2, <2>2, <3>1
  <2> QED
    BY <1>10, <2>1, <2>2
<1>18. RawIsHeld'
  <2> DEFINE rows == recent \cup (L + 1 .. L + n)
  <2>1. recent \subseteq DOMAIN log /\ rows \subseteq 1 .. L + n /\ L + n \in rows
    <3>1. recent \subseteq DOMAIN log
      BY DEF RetentionInv, RawIsHeld
    <3>2. /\ 1 .. L \subseteq 1 .. L + n /\ L + 1 .. L + n \subseteq 1 .. L + n
          /\ L + n \in L + 1 .. L + n
      <4>1. L \in Nat /\ n \in Nat /\ n >= 1
        BY <1>4, <1>5
      <4>2. \A a, b \in Nat : b >= 1 => /\ 1 .. a \subseteq 1 .. a + b /\ a + 1 .. a + b \subseteq 1 .. a + b
                                       /\ a + b \in a + 1 .. a + b
        OBVIOUS
      <4> QED
        BY <4>1, <4>2
    <3>3. DOMAIN log = 1 .. L
      BY <1>4
    <3> QED
      BY <3>1, <3>2, <3>3
  <2>2. Last(rows) = L + n
    <3> HIDE DEF rows
    <3>1. L + n \in Nat /\ rows \in SUBSET (0 .. L + n) /\ rows # {}
      <4>1. L + n \in Nat /\ rows # {}
        BY <1>4, <1>5, <2>1
      <4>2. 1 .. L + n \subseteq 0 .. L + n
        BY <4>1
      <4> QED
        BY <2>1, <4>1, <4>2
    <3>2. Last(rows) \in rows /\ \A u \in rows : u <= Last(rows)
      BY <3>1, LastIsLast
    <3>3. L + n <= Last(rows) /\ Last(rows) \in 0 .. L + n
      BY <2>1, <3>1, <3>2
    <3> QED
      BY <3>1, <3>3
  <2>3. \A i : i \in recent' <=> i \in rows /\ i > (L + n) - RECENT_MAX
    <3>1. recent' = trimRecent(rows)
      BY <1>2
    <3> HIDE DEF rows
    <3>2. \A i : i \in recent' <=> i \in rows /\ i > Last(rows) - RECENT_MAX
      BY <3>1 DEF trimRecent
    <3> DEFINE last == Last(rows)
    <3>3. last = L + n /\ last \in Nat /\ \A i : i \in recent' <=> i \in rows /\ i > last - RECENT_MAX
      BY <1>4, <1>5, <2>2, <3>2
    <3> HIDE DEF last
    <3> QED
      BY <3>3
  <2>4. RECENT_MAX \in Nat /\ Day \in Nat
    BY BoundsAreNumbers
  <2>5. ASSUME NEW i \in DOMAIN log', i > (L + n) - RECENT_MAX, log'[i].ts >= Reach' - Day
        PROVE  i \in rows
    <3>1. CASE i \in DOMAIN log /\ log'[i] = log[i]
      <4>1. i > L - RECENT_MAX
        BY <1>4, <1>5, <2>4, <2>5, <3>1
      <4>2. log[i].ts >= Reach - Day
        <5>1. log[i].ts \in Nat /\ log[i].ts >= Reach' - Day
          BY <1>4, <2>5, <3>1
        <5> DEFINE t == log[i].ts
        <5>2. t \in Int /\ t >= Reach' - Day
          BY <5>1
        <5> HIDE DEF t
        <5>3. t >= Reach - Day
          BY <1>0, <2>4, <5>2, LaterWindow
        <5> QED
          BY <5>3 DEF t
      <4> QED
        BY <3>1, <4>1, <4>2 DEF RetentionInv, RawIsHeld, L
    <3>2. CASE i \in L + 1 .. L + n
      BY <3>2
    <3> QED
      BY <1>10, <3>1, <3>2
  <2>6. DOMAIN log' = 1 .. L + n /\ Len(log') = L + n
    BY <1>9
  <2> HIDE DEF rows
  <2>7. recent' \subseteq {i \in DOMAIN log' : i > Len(log') - RECENT_MAX}
    <3> SUFFICES ASSUME NEW i \in recent'
                 PROVE  i \in DOMAIN log' /\ i > Len(log') - RECENT_MAX
      OBVIOUS
    <3>1. i \in rows /\ i > (L + n) - RECENT_MAX
      BY <2>3
    <3>2. i \in DOMAIN log'
      BY <2>1, <2>6, <3>1
    <3>3. i > Len(log') - RECENT_MAX
      BY <2>6, <3>1
    <3> QED
      BY <3>2, <3>3
  <2>8. \A i \in DOMAIN log' : i > Len(log') - RECENT_MAX /\ log'[i].ts >= Reach' - Day => i \in recent'
    <3> SUFFICES ASSUME NEW i \in DOMAIN log', i > Len(log') - RECENT_MAX, log'[i].ts >= Reach' - Day
                 PROVE  i \in recent'
      OBVIOUS
    <3>1. i > (L + n) - RECENT_MAX
      BY <2>6
    <3>2. i \in rows
      BY <2>5, <3>1
    <3> QED
      BY <2>3, <3>1, <3>2
  <2> QED
    BY <2>7, <2>8 DEF RawIsHeld
<1>19. LargestAreHeld'
  <2> SUFFICES ASSUME NEW d \in Days, d * Day >= Reach' - TopKeep,
                      NEW i \in Largest(log', OfDay(log', DOMAIN log', d), TOP_PER_BATCH)
               PROVE  i \in top'
    BY DEF LargestAreHeld
  <2> DEFINE B == OfDay(log', DOMAIN log', d)
  <2>1. i \in B /\ i \in DOMAIN log' /\ IsFiniteSet(B) /\ TOP_PER_BATCH \in Nat /\ TOP_PER_BATCH <= TOP_PER_BATCH
    <3>1. IsFiniteSet(DOMAIN log')
      <4>1. 1 \in Int /\ L + n \in Int
        BY <1>4, <1>5
      <4> QED
        BY <1>9, <4>1, FS_Interval
    <3>2. B \subseteq DOMAIN log' /\ i \in B
      BY DEF OfDay, Largest
    <3>3. TOP_PER_BATCH \in Nat
      BY BoundsAreNumbers
    <3> HIDE DEF B
    <3> QED
      BY <3>1, <3>2, <3>3, FS_Subset
  <2>2. CASE i \in DOMAIN log
    <3>1. i \in OfDay(log', DOMAIN log, d) /\ OfDay(log', DOMAIN log, d) \subseteq B
      BY <1>11, <2>1, <2>2 DEF OfDay
    <3>2. i \in Largest(log', OfDay(log', DOMAIN log, d), TOP_PER_BATCH)
      <4> HIDE DEF B
      <4>1. i \in Largest(log', B, TOP_PER_BATCH)
        BY DEF B
      <4> QED
        BY <2>1, <3>1, <4>1, LargestInAPart
    <3>3. \A k \in DOMAIN log : log'[k] = log[k]
      BY <1>4, <1>9
    <3>4. OfDay(log', DOMAIN log, d) = OfDay(log, DOMAIN log, d)
      BY <3>3 DEF OfDay
    <3>5. Largest(log', OfDay(log, DOMAIN log, d), TOP_PER_BATCH) = Largest(log, OfDay(log, DOMAIN log, d), TOP_PER_BATCH)
      <4> DEFINE A == OfDay(log, DOMAIN log, d)
      <4>1. \A k \in A : log'[k] = log[k]
        BY <3>3 DEF OfDay
      <4> HIDE DEF A
      <4>2. \A k \in A : {j \in A : log'[j].amount > log'[k].amount} = {j \in A : log[j].amount > log[k].amount}
        BY <4>1
      <4>3. Largest(log', A, TOP_PER_BATCH) = Largest(log, A, TOP_PER_BATCH)
        BY <4>2 DEF Largest
      <4> QED
        BY <4>3 DEF A
    <3>6. d * Day >= Reach - TopKeep
      <4>1. d * Day \in Int
        <5>1. d \in Nat
          BY MinutesAndDays
        <5>2. Day \in Nat
          BY BoundsAreNumbers
        <5>3. \A a, b \in Nat : a * b \in Int
          OBVIOUS
        <5> QED
          BY <5>1, <5>2, <5>3
      <4> DEFINE begins == d * Day
      <4>2. begins \in Int /\ begins >= Reach' - TopKeep
        BY <4>1
      <4> HIDE DEF begins
      <4>3. begins >= Reach - TopKeep
        <5>1. TopKeep \in Nat
          BY BoundsAreNumbers
        <5> QED
          BY <1>0, <4>2, <5>1, LaterWindow
      <4> QED
        BY <4>3 DEF begins
    <3>7. i \in top
      BY <3>2, <3>4, <3>5, <3>6 DEF RetentionInv, LargestAreHeld
    <3> QED
      BY <1>2, <3>7
  <2>3. CASE i \in L + 1 .. L + n
    <3> DEFINE ids == L + 1 .. L + n
    <3>1. i \in OfDay(log', ids, d) /\ OfDay(log', ids, d) \subseteq B
      BY <1>11, <2>1, <2>3 DEF OfDay
    <3>2. i \in Largest(log', OfDay(log', ids, d), TOP_PER_BATCH)
      <4> HIDE DEF B, ids
      <4>1. i \in Largest(log', B, TOP_PER_BATCH)
        BY DEF B
      <4> QED
        BY <2>1, <3>1, <4>1, LargestInAPart
    <3>3. i \in topOf(log', ids)
      BY <3>2 DEF topOf
    <3> QED
      BY <1>2, <3>3
  <2> QED
    BY <1>10, <2>1, <2>2, <2>3
<1>20. RetentionType'
  <2>1. top' \subseteq DOMAIN log'
    <3>1. topOf(log', L + 1 .. L + n) \subseteq L + 1 .. L + n
      BY DEF topOf, Largest, OfDay
    <3>2. top \subseteq DOMAIN log
      BY DEF RetentionInv, RetentionType
    <3> QED
      BY <1>2, <1>11, <3>1, <3>2
  <2> QED
    BY <1>3, <1>9, <1>15, <2>1 DEF RetentionInv, RetentionType
<1>21. NothingYet' /\ NothingAhead'
  <2>1. \A m \in Minutes : buckets'[m] = buckets[m] + add[m] /\ buckets[m] \in Nat /\ add[m] \in Nat
    BY <1>4, <1>12, <1>13
  <2>2. batch[1].ts \in Held'
    <3>1. 1 \in 1 .. n
      BY <1>5
    <3>2. batch[1].ts \in Minutes /\ add[batch[1].ts] > 0
      BY <1>7, <1>14, <3>1
    <3> DEFINE m == batch[1].ts
    <3>3. buckets'[m] = buckets[m] + add[m] /\ buckets[m] \in Nat /\ add[m] \in Nat /\ add[m] > 0 /\ m \in Minutes
      BY <2>1, <3>2
    <3> HIDE DEF m
    <3>4. buckets'[m] > 0
      BY <3>3, MoreThanNone
    <3>5. m \in Held'
      BY <3>3, <3>4 DEF Held
    <3> QED
      BY <3>5 DEF m
  <2>3. ASSUME NEW m \in Held'
        PROVE  m <= now
    <3>1. m \in Minutes /\ buckets'[m] > 0
      BY DEF Held
    <3>2. CASE buckets[m] > 0
      BY <3>1, <3>2 DEF RetentionInv, NothingAhead, Held
    <3>3. CASE add[m] > 0
      <4>1. Cardinality({i \in 1 .. n : batch[i].ts = m}) > 0
        BY <3>1, <3>3 DEF add
      <4>2. {i \in 1 .. n : batch[i].ts = m} # {}
        <5>1. ASSUME {i \in 1 .. n : batch[i].ts = m} = {}
              PROVE  FALSE
          <6>1. Cardinality({i \in 1 .. n : batch[i].ts = m}) = 0
            BY <5>1, FS_EmptySet
          <6> QED
            BY <4>1, <6>1
        <5> QED
          BY <5>1
      <4> QED
        BY <1>7, <4>2
    <3>4. add[m] > 0 \/ buckets[m] > 0
      <4> HIDE DEF add
      <4> QED
        BY <2>1, <3>1
    <3> QED
      BY <3>2, <3>3, <3>4
  <2> QED
    BY <1>3, <2>2, <2>3 DEF NothingYet, NothingAhead
<1> QED
  BY <1>3, <1>6, <1>15, <1>16, <1>17, <1>18, <1>19, <1>20, <1>21, FeesRest DEF RetentionInv

----------------------------------------------------------------------------
(* What is promised of the tables.                                          *)

LEMMA RetentionGoesOn ==
  ASSUME RetentionAssumption, RetentionInv, [Next]_vars
  PROVE  RetentionInv'
<1>1. CASE UNCHANGED vars
  <2>1. UNCHANGED <<now, buckets, daily, recent, top, addrs, addrDays, feeSamples, feeBuckets, log, late>>
    BY <1>1 DEF vars
  <2>2. Reach \in Nat /\ Reach' = Reach
    BY <2>1, LedgerRests, ReachIsAMinute DEF RetentionInv
  <2>3. RetentionType' /\ NothingYet' /\ NothingAhead'
    BY <2>1 DEF RetentionInv, RetentionType, NothingYet, NothingAhead, Held
  <2>4. Reach <= Reach' /\ Reach' \in Nat
    BY <2>2
  <2> QED
    BY <2>1, <2>2, <2>3, <2>4, LedgerRests, AddressDaysRest, RawRests, FeesRest, LargestRest DEF RetentionInv
<1>2. CASE Next
  BY <1>2, ApplyBatchKeeps, CorrectKeeps, InsertFeeSamplesKeeps, TimePassesKeeps, CrashKeeps, RollUpKeeps, PruneAddrsKeeps,
     PruneAddrToksKeeps, PruneFeesKeeps, PruneBuckets2Keeps, TrimRecentTsKeeps, TrimTopKeeps, PruneTopKeeps DEF Next
<1> QED
  BY <1>1, <1>2

LEMMA RetentionInvIsTrue == Spec => []RetentionInv
<1>1. Init => RetentionInv
  BY RetentionAssumption, RetentionStarts
<1>2. RetentionInv /\ [Next]_vars => RetentionInv'
  BY RetentionAssumption, RetentionGoesOn
<1> QED
  BY <1>1, <1>2, PTL DEF Spec

\* A day has a count exactly if one of its minutes was written, so that the
\* record begins where the writing did.
LEMMA HistoryIsWhole ==
  ASSUME RetentionAssumption, RetentionInv
  PROVE  DailyHistoryIsWhole
<1>1. /\ buckets \in [Minutes -> Nat] /\ daily \in [Days -> Nat]
      /\ \A m \in Minutes : WrittenIn(m) \in Nat /\ Written[m] = WrittenIn(m)
  BY WrittenIsNat DEF RetentionInv, RetentionType, Written
<1>2. \A d \in Days : getDailyHistory(d) = Sum(Written, MinutesOf(d))
  BY DEF RetentionInv, DaysAreWhole, getDailyHistory, MinutesOf
<1>3. \A d \in Days : getDailyHistory(d) = Sum([m \in Minutes |-> WrittenIn(m)], {m \in Minutes : DayOf(m) = d})
  BY <1>2 DEF Written, MinutesOf
<1> DEFINE counted == {d \in Days : daily[d] > 0} \cup {DayOf(m) : m \in Held}
           written == {DayOf(m) : m \in {k \in Minutes : WrittenIn(k) > 0}}
<1>4. \A d \in Days : d \in counted <=> d \in written
  <2> TAKE d \in Days
  <2>1. d \in counted <=> daily[d] > 0 \/ \E m \in MinutesOf(d) : buckets[m] > 0
    BY DEF Held, MinutesOf
  <2>2. d \in written <=> \E m \in MinutesOf(d) : Written[m] > 0
    BY <1>1 DEF MinutesOf
  <2>3. MinutesOf(d) \subseteq Minutes /\ IsFiniteSet(MinutesOf(d))
    BY MinutesAndDays
  <2>4. (\A m \in MinutesOf(d) : buckets[m] \in Nat) /\ (\A m \in MinutesOf(d) : Written[m] \in Nat)
    BY <1>1, <2>3
  <2>5. Sum(buckets, MinutesOf(d)) > 0 <=> \E m \in MinutesOf(d) : buckets[m] > 0
    BY <2>3, <2>4, SumIsPositive
  <2>6. Sum(Written, MinutesOf(d)) > 0 <=> \E m \in MinutesOf(d) : Written[m] > 0
    BY <2>3, <2>4, SumIsPositive
  <2>7. Sum(buckets, MinutesOf(d)) \in Nat /\ Sum(Written, MinutesOf(d)) \in Nat /\ daily[d] \in Nat
    BY <1>1, <2>3, <2>4, SumIsNat
  <2>8. daily[d] + Sum(buckets, MinutesOf(d)) = Sum(Written, MinutesOf(d))
    BY DEF RetentionInv, DaysAreWhole
  <2>9. daily[d] > 0 \/ Sum(buckets, MinutesOf(d)) > 0 <=> Sum(Written, MinutesOf(d)) > 0
    BY <2>7, <2>8
  <2> HIDE DEF counted, written
  <2> QED
    BY <2>1, <2>2, <2>5, <2>6, <2>9
<1>5. counted \subseteq Days /\ written \subseteq Days
  BY MinutesAndDays DEF Held
<1>6. counted = written
  <2> HIDE DEF counted, written
  <2> QED
    BY <1>4, <1>5
<1>7. dailyRecordBegan = First(written)
  <2>1. dailyRecordBegan = First(counted)
    BY DEF dailyRecordBegan
  <2> QED
    BY <1>6, <2>1
<1> QED
  BY <1>3, <1>7 DEF DailyHistoryIsWhole

\* An address goes only when more blocks came since its last than the fewest
\* some prune has made of a week.
AddressInv ==
  /\ shortest \in Int /\ blocks \subseteq Minutes
  /\ (\A m \in blocks : m <= now) /\ (\A i \in DOMAIN log : log[i].ts <= now)
  /\ \A i \in DOMAIN log : Height(now) - Height(log[i].ts) <= shortest => i \in addrs

LEMMA HeightsInOrder ==
  ASSUME RetentionAssumption, blocks \subseteq Minutes, NEW a \in Int, NEW b \in Int, a <= b
  PROVE  Height(a) \in Nat /\ Height(b) \in Nat /\ Height(a) <= Height(b)
<1> DEFINE below(m) == {n \in blocks : n <= m}
<1>1. IsFiniteSet(Minutes) /\ \A m \in Minutes : m \in Nat
  BY MinutesAndDays
<1>2. below(a) \subseteq below(b) /\ below(b) \subseteq Minutes
  BY <1>1
<1>3. IsFiniteSet(below(b))
  BY <1>1, <1>2, FS_Subset
<1>4. IsFiniteSet(below(a)) /\ Cardinality(below(a)) <= Cardinality(below(b))
  BY <1>2, <1>3, FS_Subset
<1>5. Cardinality(below(a)) \in Nat /\ Cardinality(below(b)) \in Nat
  BY <1>3, <1>4, FS_CardinalityType
<1> QED
  BY <1>4, <1>5 DEF Height

LEMMA LeastIsBelow ==
  ASSUME NEW a \in Int, NEW b \in Int
  PROVE  Least(a, b) \in Int /\ Least(a, b) <= a /\ Least(a, b) <= b
BY DEF Least

\* What is within the shorter of two weeks of the clock is within the week a
\* prune takes back from a block that is not ahead of the clock.
LEMMA WithinAWeek ==
  ASSUME NEW h \in Int, NEW head \in Int, NEW top0 \in Int, NEW week \in Int, NEW least \in Int,
         head <= top0, least <= week, top0 - h <= least
  PROVE  h >= head - week
OBVIOUS

LEMMA WeeksAreNumbers ==
  ASSUME RetentionAssumption, NEW n \in Nat, NEW span \in Nat \ {0}
  PROVE  weekBlocks(n, span) \in Int
<1>1. \A w, x \in Int : 2 * w * x \in Int
  OBVIOUS
<1>2. Week \in Int /\ n - 1 \in Int
  BY BoundsAreNumbers
<1>3. 2 * Week * (n - 1) \in Int
  BY <1>1, <1>2
<1> DEFINE weeks == 2 * Week * (n - 1)
<1> HIDE DEF weeks
<1>4. \A a \in Int : (a + span) \div (2 * span) \in Int
  OBVIOUS
<1>5. (weeks + span) \div (2 * span) \in Int
  BY <1>3, <1>4 DEF weeks
<1> QED
  BY <1>5 DEF weeks, weekBlocks

LEMMA AddressesStart ==
  ASSUME RetentionAssumption, Init
  PROVE  AddressInv
BY BoundsAreNumbers DEF Init, AddressInv, Minutes

LEMMA AddressesGoOn ==
  ASSUME RetentionAssumption, RetentionInv, AddressInv, [Next]_vars
  PROVE  AddressInv'
<1>1. /\ shortest \in Int /\ blocks \subseteq Minutes /\ now \in Nat /\ Minutes \subseteq Nat /\ IsFiniteSet(Minutes)
      /\ (\A m \in blocks : m <= now) /\ (\A i \in DOMAIN log : log[i].ts <= now)
      /\ \A i \in DOMAIN log : Height(now) - Height(log[i].ts) <= shortest => i \in addrs
      /\ \A i \in DOMAIN log : log[i].ts \in Nat
  BY LogIsFinite, MinutesAndDays DEF AddressInv, RetentionInv, RetentionType
<1>2. CASE UNCHANGED <<now, blocks, log, addrs, shortest>>
  BY <1>2 DEF AddressInv, Height
<1>3. CASE applyBatch
  <2> DEFINE rows == [ts : (IF Held = {} THEN 0 ELSE getCoverage.b) .. now,
                      amount : 1 .. MaxTransfers \ {log[i].amount : i \in DOMAIN log}]
  <2>1. PICK n \in 1 .. Least(Least(MaxBatch, Room), MaxTransfers - Len(log)) : \E batch \in [1 .. n -> rows] :
          log' = log \o batch /\ addrs' = addrs \cup (Len(log) + 1 .. Len(log) + n)
    BY <1>3 DEF applyBatch
  <2>2. PICK batch \in [1 .. n -> rows] :
          log' = log \o batch /\ addrs' = addrs \cup (Len(log) + 1 .. Len(log) + n)
    BY <2>1
  <2>3. UNCHANGED <<now, blocks, shortest>>
    BY <1>3 DEF applyBatch
  <2>4. \A i \in 1 .. n : batch[i].ts <= now
    BY <1>1, <2>2
  <2>5. /\ log \in Seq([ts : Minutes, amount : Nat]) /\ DOMAIN log = 1 .. Len(log) /\ Len(log) \in Nat
        /\ n \in Nat /\ n >= 1
    BY LogIsFinite DEF RetentionInv, RetentionType
  <2> HIDE DEF rows
  <2>6. /\ DOMAIN log' = 1 .. Len(log) + n
        /\ \A i \in 1 .. Len(log) : log'[i] = log[i]
        /\ \A i \in 1 .. n : log'[Len(log) + i] = batch[i]
    <3> DEFINE Row == [ts : Minutes, amount : Nat] \cup rows
    <3>1. log \in Seq(Row) /\ batch \in [1 .. n -> Row]
      <4>1. [ts : Minutes, amount : Nat] \subseteq Row /\ rows \subseteq Row
        OBVIOUS
      <4> HIDE DEF Row
      <4>2. batch \in [1 .. n -> Row]
        BY <2>2, <4>1
      <4> QED
        BY <2>5, <4>1, <4>2, SeqMonotonic
    <3> HIDE DEF Row
    <3>2. IsAppended(Row, log, n, batch, log \o batch)
      BY <2>5, <3>1, BatchIsAppended
    <3> QED
      BY <2>2, <3>2 DEF IsAppended
  <2>7. \A i \in DOMAIN log' : \/ i \in DOMAIN log /\ log'[i] = log[i]
                               \/ i \in addrs' /\ log'[i].ts <= now
    <3> TAKE i \in DOMAIN log'
    <3>1. CASE i \in 1 .. Len(log)
      BY <2>5, <2>6, <3>1
    <3>2. CASE ~(i \in 1 .. Len(log))
      <4>1. i \in Len(log) + 1 .. Len(log) + n /\ i - Len(log) \in 1 .. n /\ Len(log) + (i - Len(log)) = i
        BY <2>5, <2>6, <3>2, PlaceInBatch
      <4> QED
        BY <2>2, <2>4, <2>6, <4>1
    <3> QED
      BY <3>1, <3>2
  <2>8. addrs \subseteq addrs'
    BY <2>2
  <2> QED
    BY <1>1, <2>3, <2>7, <2>8 DEF AddressInv, Height
<1>4. CASE TimePasses
  <2>1. /\ now' = now + 1 /\ blocks' \in {blocks, blocks \cup {now + 1}} /\ now < MaxMinute
        /\ UNCHANGED <<addrs, log, shortest>>
    BY <1>4 DEF TimePasses
  <2>2. blocks' \subseteq Minutes /\ now' \in Nat /\ now <= now' /\ \A m \in blocks' : m <= now'
    BY <1>1, <2>1, BoundsAreNumbers DEF Minutes
  <2>3. ASSUME NEW m \in Nat, m <= now
        PROVE  {n \in blocks' : n <= m} = {n \in blocks : n <= m}
    BY <1>1, <2>1, <2>3
  <2>4. \A m \in Nat : m <= now => Cardinality({n \in blocks' : n <= m}) = Height(m)
    BY <2>3 DEF Height
  <2>5. Height(now) \in Nat /\ Cardinality({n \in blocks' : n <= now'}) \in Nat
        /\ Height(now) <= Cardinality({n \in blocks' : n <= now'})
    <3>1. {n \in blocks : n <= now} \subseteq {n \in blocks' : n <= now'} /\ {n \in blocks' : n <= now'} \subseteq Minutes
      BY <1>1, <2>1, <2>2
    <3>2. IsFiniteSet({n \in blocks' : n <= now'})
      BY <1>1, <3>1, FS_Subset
    <3> QED
      BY <3>1, <3>2, FS_Subset, FS_CardinalityType DEF Height
  <2>6. ASSUME NEW i \in DOMAIN log', Cardinality({n \in blocks' : n <= now'}) - Cardinality({n \in blocks' : n <= log'[i].ts}) <= shortest'
        PROVE  i \in addrs'
    <3>1. Cardinality({n \in blocks' : n <= log'[i].ts}) = Height(log[i].ts) /\ i \in DOMAIN log
      BY <1>1, <2>1, <2>4
    <3>2. Height(log[i].ts) \in Nat
      BY <1>1, <3>1, HeightsInOrder
    <3>3. Height(now) - Height(log[i].ts) <= shortest
      BY <1>1, <2>1, <2>5, <2>6, <3>1, <3>2
    <3> QED
      BY <1>1, <2>1, <3>1, <3>3
  <2>7. \A i \in DOMAIN log' : log'[i].ts <= now'
    BY <1>1, <2>1, <2>2
  <2> QED
    BY <1>1, <2>1, <2>2, <2>6, <2>7 DEF AddressInv, Height
<1>5. CASE pruneAddrs
  <2>1. UNCHANGED <<now, blocks, log>>
    BY <1>5 DEF pruneAddrs
  <2>2. PICK head \in blocks : \E headers \in SUBSET blocks : \E span \in 1 .. MaxMinute + 1 :
          /\ addrs' = {i \in addrs : Height(log[i].ts) >= Height(head) - weekBlocks(Cardinality(headers), span)}
          /\ shortest' = Least(shortest, weekBlocks(Cardinality(headers), span))
    BY <1>5 DEF pruneAddrs
  <2>3. PICK headers \in SUBSET blocks : \E span \in 1 .. MaxMinute + 1 :
          /\ addrs' = {i \in addrs : Height(log[i].ts) >= Height(head) - weekBlocks(Cardinality(headers), span)}
          /\ shortest' = Least(shortest, weekBlocks(Cardinality(headers), span))
    BY <2>2
  <2>4. PICK span \in 1 .. MaxMinute + 1 :
          /\ addrs' = {i \in addrs : Height(log[i].ts) >= Height(head) - weekBlocks(Cardinality(headers), span)}
          /\ shortest' = Least(shortest, weekBlocks(Cardinality(headers), span))
    BY <2>3
  <2> DEFINE week == weekBlocks(Cardinality(headers), span)
  <2>5. week \in Int
    <3>1. IsFiniteSet(headers)
      BY <1>1, FS_Subset
    <3>2. Cardinality(headers) \in Nat /\ span \in Nat \ {0}
      BY <3>1, FS_CardinalityType, BoundsAreNumbers
    <3> QED
      BY <3>2, WeeksAreNumbers
  <2> HIDE DEF week
  <2>6. addrs' = {i \in addrs : Height(log[i].ts) >= Height(head) - week} /\ shortest' = Least(shortest, week)
    BY <2>4 DEF week
  <2>7. shortest' \in Int /\ shortest' <= shortest /\ shortest' <= week
    BY <1>1, <2>5, <2>6, LeastIsBelow
  <2>8. ASSUME NEW i \in DOMAIN log, Height(now) - Height(log[i].ts) <= shortest'
        PROVE  i \in addrs'
    <3>1. Height(head) \in Int /\ Height(now) \in Int /\ Height(head) <= Height(now) /\ Height(log[i].ts) \in Int
      BY <1>1, HeightsInOrder
    <3>2. Height(log[i].ts) >= Height(head) - week
      BY <2>5, <2>7, <2>8, <3>1, WithinAWeek
    <3>3. Height(now) - Height(log[i].ts) <= shortest
      BY <1>1, <2>7, <2>8, <3>1
    <3> QED
      BY <1>1, <2>6, <3>2, <3>3
  <2> QED
    BY <1>1, <2>1, <2>7, <2>8 DEF AddressInv, Height
<1> QED
  BY <1>2, <1>3, <1>4, <1>5 DEF Next, vars, Correct, insertFeeSamples, Crash, RollUp, pruneAddrToks, pruneFees, pruneBuckets2,
     trimRecentTs, trimTop, pruneTop

LEMMA AddressInvIsTrue == Spec => []AddressInv
<1>1. Init => AddressInv
  BY RetentionAssumption, AddressesStart
<1>2. RetentionInv /\ AddressInv /\ [Next]_vars => AddressInv'
  BY RetentionAssumption, AddressesGoOn
<1> QED
  BY <1>1, <1>2, RetentionInvIsTrue, PTL DEF Spec

LEMMA WindowsHold ==
  ASSUME RetentionAssumption, RetentionInv, AddressInv
  PROVE  WindowsAreHeld
<1> DEFINE end == windowEndSec
<1>1. Reach \in Nat /\ end \in Nat /\ Reach <= end
  BY WindowsEndAtReach DEF RetentionInv
<1>2. Week \in Nat /\ Day \in Nat \ {0} /\ RECENT_MAX \in Nat \ {0}
  BY BoundsAreNumbers
<1>3. /\ DOMAIN log = 1 .. Len(log) /\ Len(log) \in Nat
      /\ \A i \in DOMAIN log : log[i].ts \in Nat
  BY LogIsFinite DEF RetentionInv
<1> HIDE DEF end
<1>4. \A t \in Nat : (t >= end - Week => t >= Reach - Week) /\ (t >= end - Day => t >= Reach - Day)
  BY <1>1, <1>2
\* Once a transfer of the window is lost the rows below the cap are all of the window.
<1>5. ASSUME NEW i \in DOMAIN log \ recent, log[i].ts >= end - Day
      PROVE  Cardinality(recent) = RECENT_MAX
  <2>1. log[i].ts >= Reach - Day
    BY <1>3, <1>4, <1>5
  <2>2. i <= Len(log) - RECENT_MAX /\ i \in Nat /\ i >= 1
    <3>1. ~(i > Len(log) - RECENT_MAX)
      BY <1>5, <2>1 DEF RetentionInv, RawIsHeld
    <3> QED
      BY <1>2, <1>3, <3>1
  <2> DEFINE held == Len(log) - RECENT_MAX + 1 .. Len(log)
  <2>3. \A j \in held : j \in DOMAIN log /\ j > Len(log) - RECENT_MAX /\ i < j
    BY <1>2, <1>3, <2>2
  <2>4. \A j \in held : j \in recent
    <3> TAKE j \in held
    <3>1. log[i].ts <= log[j].ts
      BY <2>3 DEF RetentionInv, LogInOrder
    <3>2. log[j].ts >= Reach - Day
      <4>1. log[i].ts \in Nat /\ log[j].ts \in Nat
        BY <1>3, <2>3
      <4> QED
        BY <1>1, <1>2, <2>1, <3>1, <4>1, StillInside
    <3> QED
      BY <2>3, <3>2 DEF RetentionInv, RawIsHeld
  <2>5. \A j \in recent : j \in held
    <3> TAKE j \in recent
    <3>1. j \in DOMAIN log /\ j > Len(log) - RECENT_MAX
      BY DEF RetentionInv, RawIsHeld
    <3> QED
      BY <1>2, <1>3, <3>1
  <2>6. recent = held
    BY <2>4, <2>5
  <2>7. Cardinality(held) = RECENT_MAX
    <3>1. Len(log) - RECENT_MAX + 1 \in Int /\ Len(log) \in Int
      BY <1>2, <1>3
    <3>2. Cardinality(held) = IF Len(log) - RECENT_MAX + 1 > Len(log) THEN 0 ELSE Len(log) - (Len(log) - RECENT_MAX + 1) + 1
      BY <3>1, FS_Interval
    <3> QED
      BY <1>2, <1>3, <3>2
  <2> QED
    BY <2>6, <2>7
<1>6. CapIsToldAndTight
  BY <1>5 DEF CapIsToldAndTight, end
<1>7. \A m \in Minutes : m >= end - Week => buckets[m] = WrittenIn(m)
  BY <1>4, MinutesAndDays DEF RetentionInv, MinutesAreWhole
<1>8. \A i \in DOMAIN log : log[i].ts >= end - Week => DayOf(log[i].ts) \in addrDays
  BY <1>3, <1>4 DEF RetentionInv, AddressDaysAreHeld
<1>9. \A i \in DOMAIN log : log[i].ts >= end - Day => i \in recent \/ atCap
  <2> SUFFICES ASSUME NEW i \in DOMAIN log, log[i].ts >= end - Day, i \notin recent
               PROVE  atCap
    OBVIOUS
  <2>1. Cardinality(recent) = RECENT_MAX
    BY <1>5
  <2> QED
    BY <1>2, <2>1 DEF atCap
<1>10. WindowsSurviveAHalt
  BY <1>7, <1>8, <1>9 DEF WindowsSurviveAHalt, getHistory, end, AddressInv
<1> QED
  BY <1>6, <1>10 DEF WindowsAreHeld

LEMMA ServedIsTrue ==
  ASSUME RetentionAssumption, RetentionInv
  PROVE  ServedAsItWas
<1> DEFINE end == windowEndSec
<1>1. Reach \in Nat /\ end \in Nat /\ Reach <= end
  BY WindowsEndAtReach DEF RetentionInv
<1>2. Week \in Nat /\ Day \in Nat \ {0} /\ Day <= Week /\ TopKeep \in Nat /\ TOP_PER_BATCH \in Nat
  BY BoundsAreNumbers
<1> HIDE DEF end
<1>3. MeanAndMedianAgree
  <2>1. ASSUME NEW since \in Minutes, since >= end - Day
        PROVE  since >= Reach - Week
    BY <1>1, <1>2, <2>1, MinutesAndDays
  <2> QED
    BY <2>1 DEF MeanAndMedianAgree, RetentionInv, FeesAgree, end
<1>4. ASSUME NEW d \in Days, d * Day >= end - TopKeep
      PROVE  getLargest(TOP_PER_BATCH, d * Day) = Largest(log, {i \in DOMAIN log : log[i].ts >= d * Day}, TOP_PER_BATCH)
  <2> DEFINE begins == d * Day
             since == {i \in DOMAIN log : log[i].ts >= begins}
             shown == {i \in top : log[i].ts >= begins}
  <2>1. d \in Nat /\ begins \in Nat
    BY <1>2, MinutesAndDays
  <2>2. shown \subseteq since /\ IsFiniteSet(since)
    <3>1. top \subseteq DOMAIN log /\ IsFiniteSet(DOMAIN log) /\ since \subseteq DOMAIN log
      BY LogIsFinite DEF RetentionInv, RetentionType
    <3>2. IsFiniteSet(since)
      <4> HIDE DEF since
      <4> QED
        BY <3>1, FS_Subset
    <3> QED
      BY <3>1, <3>2
  <2>3. ASSUME NEW i \in Largest(log, since, TOP_PER_BATCH)
        PROVE  i \in shown
    <3>1. i \in DOMAIN log /\ log[i].ts >= begins /\ i \in since
      BY DEF Largest
    <3> DEFINE e == DayOf(log[i].ts)
    <3>2. log[i].ts \in Minutes /\ log[i].ts \in Nat /\ e \in Days /\ e \in Nat
      BY <3>1, LogIsFinite, MinutesAndDays DEF RetentionInv
    <3>3. d <= e
      <4>1. DayOf(begins) = d
        BY <1>2, <2>1 DEF DayOf
      <4>2. begins <= log[i].ts
        BY <2>1, <3>1, <3>2
      <4> HIDE DEF begins
      <4> QED
        BY <2>1, <3>2, <4>1, <4>2, DaysInOrder
    <3>4. d * Day <= e * Day /\ e * Day \in Nat
      <4> HIDE DEF e
      <4> QED
        BY <1>2, <2>1, <3>2, <3>3
    <3>5. e * Day >= Reach - TopKeep
      <4> DEFINE x == e * Day
      <4>1. begins <= x /\ x \in Nat /\ begins >= end - TopKeep
        BY <1>4, <3>4
      <4> HIDE DEF begins, x
      <4>2. x >= Reach - TopKeep
        BY <1>1, <1>2, <2>1, <4>1
      <4> QED
        BY <4>2 DEF x
    <3>6. OfDay(log, DOMAIN log, e) \subseteq since
      <4> SUFFICES ASSUME NEW j \in DOMAIN log, DayOf(log[j].ts) = e
                   PROVE  log[j].ts >= begins
        BY DEF OfDay
      <4>1. log[j].ts \in Nat
        BY LogIsFinite DEF RetentionInv
      <4>2. e * Day <= log[j].ts
        BY <4>1, DayHolds
      <4> DEFINE x == e * Day
      <4>3. begins <= x /\ x \in Nat /\ x <= log[j].ts
        BY <3>4, <4>2
      <4> HIDE DEF begins, x
      <4> QED
        BY <2>1, <4>1, <4>3
    <3>7. i \in OfDay(log, DOMAIN log, e)
      BY <3>1 DEF OfDay
    <3>8. i \in Largest(log, OfDay(log, DOMAIN log, e), TOP_PER_BATCH)
      <4>1. TOP_PER_BATCH <= TOP_PER_BATCH
        BY <1>2
      <4> HIDE DEF since, e
      <4> QED
        BY <1>2, <2>2, <3>6, <3>7, <4>1, LargestInAPart
    <3>9. i \in top
      <4> HIDE DEF e
      <4> QED
        BY <3>2, <3>5, <3>8 DEF RetentionInv, LargestAreHeld
    <3> QED
      BY <3>1, <3>9
  <2>4. /\ \A j \in since : log[j].amount \in Nat
        /\ \A j, k \in since : log[j].amount = log[k].amount => j = k
    <3>1. \A j \in DOMAIN log : log[j].amount \in Nat /\ j \in Nat
      BY LogIsFinite DEF RetentionInv
    <3>2. \A j, k \in DOMAIN log : j = k \/ j < k \/ k < j
      BY <3>1
    <3>3. \A j, k \in DOMAIN log : log[j].amount = log[k].amount => j = k
      BY <3>2 DEF RetentionInv, LogInOrder
    <3> QED
      BY <3>1, <3>3
  <2>5. Largest(log, since, TOP_PER_BATCH) \subseteq shown
    <3> HIDE DEF since, shown
    <3> QED
      BY <2>3
  <2>6. Largest(log, shown, TOP_PER_BATCH) = Largest(log, since, TOP_PER_BATCH)
    <3> HIDE DEF since, shown
    <3> QED
      BY <1>2, <2>2, <2>4, <2>5, SameLargest
  <2> QED
    BY <2>6 DEF getLargest
<1>5. LargestOfWholeDays
  BY <1>4 DEF LargestOfWholeDays, end
<1> QED
  BY <1>3, <1>5 DEF ServedAsItWas

\* db.js, prune and getDailyHistory: whatever was folded into its day, corrected
\* after that or left by a death between two statements, a day's figure is what
\* was ever counted for it, and the record begins with the first day counted.
THEOREM HistoryIsAlwaysWhole == Spec => []DailyHistoryIsWhole
<1>1. RetentionInv => DailyHistoryIsWhole
  BY RetentionAssumption, HistoryIsWhole
<1> QED
  BY <1>1, RetentionInvIsTrue, PTL

\* db.js, prune, and windowEndSec: however long the chain stands still and however
\* many prunes are cut short, what the windows over time read is held, an address
\* goes only when more blocks came since its last than some prune has made of a
\* week, and a window that lacks a raw transfer says so and holds as many as the
\* cap allows.
THEOREM WindowsAreAlwaysHeld == Spec => []WindowsAreHeld
<1>1. RetentionInv /\ AddressInv => WindowsAreHeld
  BY RetentionAssumption, WindowsHold
<1> QED
  BY <1>1, RetentionInvIsTrue, AddressInvIsTrue, PTL

\* db.js, topOf, trimTop and insertFeeSamples: the largest transfers served over
\* whole days are the largest there were, and the mean and the median of the fees
\* are of the same blocks.
THEOREM AlwaysServedAsItWas == Spec => []ServedAsItWas
<1>1. RetentionInv => ServedAsItWas
  BY RetentionAssumption, ServedIsTrue
<1> QED
  BY <1>1, RetentionInvIsTrue, PTL

----------------------------------------------------------------------------
(* The posting of notable transfers (Drafts), for any feed, ticks and deaths. *)

Posted(d) == \E i \in DOMAIN posts : posts[i] = d
Copies(d) == {i \in DOMAIN posts : posts[i] = d}
IsFirst(d, S) == d \in S /\ \A e \in S : d <= e
Arrived(d) == {t \in Ticks : reached[t] /\ IsFirst(d, tick[t])}
Waiting(d) == {t \in Ticks : d \in tick[t] /\ ~(reached[t] /\ IsFirst(d, tick[t]))}
Cuts == Cardinality(Ticks) * posterDeaths + lostAnswers

PosterType ==
  /\ feed \in Seq(Events)
  /\ drafts \in Seq([event : Events, delivered : BOOLEAN])
  /\ tick \in [Ticks -> SUBSET (1 .. Len(drafts))]
  /\ reached \in [Ticks -> BOOLEAN]
  /\ posts \in Seq(1 .. Len(drafts))
  /\ posterDeaths \in Nat /\ lostAnswers \in Nat

\* What was marked was posted, and so was every draft before a posted one.
MarkedWasPosted == \A d \in DOMAIN drafts : drafts[d].delivered => Posted(d)
PostedFromTheFirst == \A i \in DOMAIN posts : \A d \in 1 .. posts[i] : Posted(d)

\* What a tick has before a draft it is still to send is posted, or is sent first.
EarlierComesFirst ==
  \A t \in Ticks : \A e \in tick[t] : \A d \in 1 .. e : d \in tick[t] \/ Posted(d)

\* A message that arrived is the first of what its tick has left, and was posted.
ReachedWasPosted ==
  \A t \in Ticks : reached[t] => tick[t] # {} /\ \A d \in tick[t] : IsFirst(d, tick[t]) => Posted(d)

\* Without a mark, a draft's posts are those whose ticks still wait for the answer, and those
\* that were cut off; with the mark, each tick that still has it may post it once more.
CopiesAreCounted ==
  \A d \in DOMAIN drafts :
    IF drafts[d].delivered
    THEN Cardinality(Copies(d)) + Cardinality(Waiting(d)) <= Cardinality(Ticks) + Cuts
    ELSE Cardinality(Copies(d)) <= Cuts + Cardinality(Arrived(d))

PosterInv ==
  /\ PosterType
  /\ Posting!OneDraftPerEvent
  /\ MarkedWasPosted
  /\ PostedFromTheFirst
  /\ EarlierComesFirst
  /\ ReachedWasPosted
  /\ CopiesAreCounted
  /\ Posting!FirstPostsInOrder

\* The operators of FiniteSets, as the instance sees them.
LEMMA PostingCounts ==
  \A S : Posting!Cardinality(S) = Cardinality(S) /\ (Posting!IsFiniteSet(S) <=> IsFiniteSet(S))
BY DEF Posting!Cardinality, Posting!IsFiniteSet, Cardinality, IsFiniteSet

LEMMA PosterStarts ==
  ASSUME Posting!DraftsAssumption, Posting!Init
  PROVE  PosterInv
<1>1. /\ feed = <<>> /\ drafts = <<>> /\ posts = <<>> /\ posterDeaths = 0 /\ lostAnswers = 0
      /\ tick = [t \in Ticks |-> {}] /\ reached = [t \in Ticks |-> FALSE]
  BY DEF Posting!Init
<1>2. Len(drafts) = 0 /\ DOMAIN drafts = {} /\ DOMAIN posts = {}
  BY <1>1
<1>3. PosterType
  BY <1>1 DEF PosterType
<1>4. \A t \in Ticks : tick[t] = {} /\ ~reached[t]
  BY <1>1
<1> QED
  BY <1>2, <1>3, <1>4 DEF PosterInv, ReachedWasPosted, Posting!OneDraftPerEvent, MarkedWasPosted, PostedFromTheFirst, EarlierComesFirst,
     CopiesAreCounted, Posting!FirstPostsInOrder

\* The channel, told of one more draft.
LEMMA OneMorePost ==
  ASSUME PosterType, NEW d \in 1 .. Len(drafts), posts' = Append(posts, d)
  PROVE  /\ DOMAIN posts = 1 .. Len(posts) /\ Len(posts) \in Nat /\ DOMAIN posts' = 1 .. Len(posts) + 1
         /\ \A i \in DOMAIN posts : posts'[i] = posts[i] /\ posts[i] \in 1 .. Len(drafts)
         /\ posts' \in Seq(1 .. Len(drafts))
         /\ posts'[Len(posts) + 1] = d
         /\ \A e : Posted(e)' <=> Posted(e) \/ e = d
         /\ \A e : e # d => Copies(e)' = Copies(e)
         /\ \A e : IsFiniteSet(Copies(e)) /\ Cardinality(Copies(e)) \in Nat
         /\ Cardinality(Copies(d)') = Cardinality(Copies(d)) + 1
<1>1. posts \in Seq(1 .. Len(drafts)) /\ Len(posts) \in Nat /\ DOMAIN posts = 1 .. Len(posts)
  BY DEF PosterType
<1>2. /\ posts' \in Seq(1 .. Len(drafts)) /\ Len(posts') = Len(posts) + 1 /\ posts'[Len(posts) + 1] = d
      /\ \A i \in 1 .. Len(posts) : posts'[i] = posts[i]
  BY <1>1, AppendProperties
<1>3. DOMAIN posts' = 1 .. Len(posts) + 1 /\ DOMAIN posts' = DOMAIN posts \cup {Len(posts) + 1}
      /\ Len(posts) + 1 \notin DOMAIN posts
  BY <1>1, <1>2
<1>4. ASSUME NEW e
      PROVE  Posted(e)' <=> Posted(e) \/ e = d
  BY <1>1, <1>2, <1>3 DEF Posted
<1>5. ASSUME NEW e, e # d
      PROVE  Copies(e)' = Copies(e)
  BY <1>1, <1>2, <1>3, <1>5 DEF Copies
<1>6. ASSUME NEW e
      PROVE  IsFiniteSet(Copies(e)) /\ Cardinality(Copies(e)) \in Nat
  <2>1. IsFiniteSet(1 .. Len(posts))
    BY <1>1, FS_Interval
  <2> QED
    BY <1>1, <2>1, FS_Subset, FS_CardinalityType DEF Copies
<1>7. Copies(d)' = Copies(d) \cup {Len(posts) + 1} /\ Len(posts) + 1 \notin Copies(d)
  BY <1>1, <1>2, <1>3 DEF Copies
<1>8. Cardinality(Copies(d)') = Cardinality(Copies(d)) + 1
  BY <1>6, <1>7, FS_AddElement
<1> QED
  BY <1>1, <1>2, <1>3, <1>4, <1>5, <1>6, <1>8

\* A post of what comes next keeps the order.
LEMMA NextPostInOrder ==
  ASSUME PosterInv, NEW t \in Ticks, NEW d \in tick[t], \A e \in tick[t] : d <= e,
         drafts' = drafts \/ Len(drafts') = Len(drafts), posts' = Append(posts, d)
  PROVE  PostedFromTheFirst' /\ Posting!FirstPostsInOrder'
<1>1. /\ PosterType /\ PostedFromTheFirst /\ EarlierComesFirst /\ Posting!FirstPostsInOrder
      /\ d \in 1 .. Len(drafts) /\ Len(drafts) \in Nat
  BY DEF PosterInv, PosterType
<1>2. /\ DOMAIN posts = 1 .. Len(posts) /\ Len(posts) \in Nat /\ DOMAIN posts' = 1 .. Len(posts) + 1
      /\ \A i \in DOMAIN posts : posts'[i] = posts[i] /\ posts[i] \in 1 .. Len(drafts)
      /\ posts'[Len(posts) + 1] = d
      /\ \A e : Posted(e)' <=> Posted(e) \/ e = d
  BY <1>1, OneMorePost
<1>3. \A e \in 1 .. d : e = d \/ Posted(e)
  <2> SUFFICES ASSUME NEW e \in 1 .. d, e # d
               PROVE  Posted(e)
    OBVIOUS
  <2>1. e \notin tick[t]
    BY <1>1
  <2> QED
    BY <1>1, <2>1 DEF EarlierComesFirst
<1>4. PostedFromTheFirst'
  <2> SUFFICES ASSUME NEW i \in DOMAIN posts', NEW e \in 1 .. posts'[i]
               PROVE  Posted(e)'
    BY DEF PostedFromTheFirst
  <2>1. CASE i = Len(posts) + 1
    BY <1>2, <1>3, <2>1
  <2>2. CASE i \in DOMAIN posts
    BY <1>1, <1>2, <2>2 DEF PostedFromTheFirst
  <2> QED
    BY <1>2, <2>1, <2>2
<1>5. Posting!FirstPostsInOrder'
  <2> SUFFICES ASSUME NEW i \in DOMAIN posts', NEW j \in DOMAIN posts', i < j,
                      \A k \in 1 .. i - 1 : posts'[k] # posts'[i], \A k \in 1 .. j - 1 : posts'[k] # posts'[j]
               PROVE  posts'[i] < posts'[j]
    BY DEF Posting!FirstPostsInOrder, Posting!FirstPost
  <2>1. i \in DOMAIN posts /\ posts'[i] = posts[i] /\ posts[i] \in Nat
    BY <1>2
  <2>2. CASE j \in DOMAIN posts
    <3>1. /\ \A k \in 1 .. i - 1 : posts[k] # posts[i]
          /\ \A k \in 1 .. j - 1 : posts[k] # posts[j]
      BY <1>2, <2>1, <2>2
    <3>2. posts[i] < posts[j]
      BY <1>1, <2>1, <2>2, <3>1 DEF Posting!FirstPostsInOrder, Posting!FirstPost
    <3> QED
      BY <1>2, <2>1, <2>2, <3>2
  <2>3. CASE j = Len(posts) + 1
    <3>1. ~Posted(d)
      <4> SUFFICES ASSUME NEW k \in DOMAIN posts
                   PROVE  posts[k] # d
        BY DEF Posted
      <4>1. k \in 1 .. j - 1
        BY <1>2, <2>3
      <4> QED
        BY <1>2, <2>3, <4>1
    <3>2. d \notin 1 .. posts[i]
      BY <1>1, <2>1, <3>1 DEF PostedFromTheFirst
    <3> QED
      BY <1>1, <1>2, <2>1, <2>3, <3>2
  <2> QED
    BY <1>2, <2>2, <2>3
<1> QED
  BY <1>4, <1>5

\* The ticks that have a draft are some of the ticks.
LEMMA TicksAreCounted ==
  ASSUME Posting!DraftsAssumption, PosterType
  PROVE  /\ IsFiniteSet(Ticks) /\ Cardinality(Ticks) \in Nat /\ Cuts \in Nat
         /\ \A S \in SUBSET Ticks : IsFiniteSet(S) /\ Cardinality(S) \in Nat /\ Cardinality(S) <= Cardinality(Ticks)
         /\ \A d : /\ Arrived(d) \in SUBSET Ticks /\ Waiting(d) \in SUBSET Ticks /\ Arrived(d) \cap Waiting(d) = {}
                   /\ IsFiniteSet(Arrived(d)) /\ Cardinality(Arrived(d)) \in Nat
                   /\ IsFiniteSet(Waiting(d)) /\ Cardinality(Waiting(d)) \in Nat
                   /\ Cardinality(Arrived(d)) + Cardinality(Waiting(d)) <= Cardinality(Ticks)
                   /\ IsFiniteSet(Copies(d)) /\ Cardinality(Copies(d)) \in Nat
<1>1. IsFiniteSet(Ticks)
  BY PostingCounts DEF Posting!DraftsAssumption
<1>2. Cardinality(Ticks) \in Nat
      /\ \A S \in SUBSET Ticks : IsFiniteSet(S) /\ Cardinality(S) \in Nat /\ Cardinality(S) <= Cardinality(Ticks)
  BY <1>1, FS_CardinalityType, FS_Subset
<1>3. Cuts \in Nat
  <2>1. \A a, b, c \in Nat : a * b + c \in Nat
    OBVIOUS
  <2> QED
    BY <1>2, <2>1 DEF Cuts, PosterType
<1>4. ASSUME NEW d
      PROVE  /\ Arrived(d) \in SUBSET Ticks /\ Waiting(d) \in SUBSET Ticks /\ Arrived(d) \cap Waiting(d) = {}
             /\ Cardinality(Arrived(d)) + Cardinality(Waiting(d)) <= Cardinality(Ticks)
             /\ IsFiniteSet(Copies(d)) /\ Cardinality(Copies(d)) \in Nat
  <2>1. Arrived(d) \in SUBSET Ticks /\ Waiting(d) \in SUBSET Ticks /\ Arrived(d) \cap Waiting(d) = {}
    BY DEF Arrived, Waiting
  <2>2. /\ IsFiniteSet(Arrived(d)) /\ Cardinality(Arrived(d)) \in Nat
        /\ IsFiniteSet(Waiting(d)) /\ Cardinality(Waiting(d)) \in Nat
    BY <1>2, <2>1
  <2>3. Cardinality(Arrived(d) \cup Waiting(d)) = Cardinality(Arrived(d)) + Cardinality(Waiting(d))
    <3>1. Cardinality(Arrived(d) \cup Waiting(d))
            = Cardinality(Arrived(d)) + Cardinality(Waiting(d)) - Cardinality(Arrived(d) \cap Waiting(d))
      BY <2>2, FS_Union
    <3>2. Cardinality(Arrived(d) \cap Waiting(d)) = 0
      BY <2>1, FS_EmptySet
    <3> QED
      BY <2>2, <3>1, <3>2
  <2>4. Cardinality(Arrived(d) \cup Waiting(d)) <= Cardinality(Ticks)
    BY <1>2, <2>1
  <2>5. IsFiniteSet(1 .. Len(posts)) /\ Copies(d) \in SUBSET (1 .. Len(posts))
    <3>1. posts \in Seq(1 .. Len(drafts))
      BY DEF PosterType
    <3> QED
      BY <3>1, FS_Interval DEF Copies
  <2>6. IsFiniteSet(Copies(d)) /\ Cardinality(Copies(d)) \in Nat
    BY <2>5, FS_Subset, FS_CardinalityType
  <2> QED
    BY <2>1, <2>3, <2>4, <2>6
<1> QED
  BY <1>1, <1>2, <1>3, <1>4

\* The draft that is being sent is the first of those the tick has left.
LEMMA TheFirstIsSent ==
  ASSUME PosterType, NEW t \in Ticks, tick[t] # {}
  PROVE  Posting!Sending(t) \in tick[t] /\ \A e \in tick[t] : Posting!Sending(t) <= e
<1>1. tick[t] \in SUBSET Nat
  BY DEF PosterType
<1>3. \E d \in tick[t] : \A e \in tick[t] : d <= e
  BY <1>1, LeastOf
<1> QED
  BY <1>3 DEF Posting!Sending

\* pushFeed touches nothing of the drafts.
LEMMA PushKeeps ==
  ASSUME Posting!DraftsAssumption, PosterInv, NEW e \in Events, Posting!Push(e)
  PROVE  PosterInv'
<1>1. /\ feed \in Seq(Events) /\ feed' = Posting!Shown(<<e>> \o feed)
      /\ UNCHANGED <<drafts, tick, reached, posts, posterDeaths, lostAnswers>>
  BY DEF PosterInv, PosterType, Posting!Push
<1> DEFINE entries == <<e>> \o feed
           kept == IF Len(entries) < FeedMax THEN Len(entries) ELSE FeedMax
<1>2. entries \in Seq(Events) /\ Len(entries) \in Nat /\ FeedMax \in Nat
  BY <1>1 DEF Posting!DraftsAssumption
<1>3. feed' = SubSeq(entries, 1, kept)
  BY <1>1 DEF Posting!Shown
<1> HIDE DEF entries
<1>4. kept \in Nat /\ kept <= Len(entries)
  BY <1>2
<1> HIDE DEF kept
<1>5. \A i \in 1 .. kept : entries[i] \in Events
  BY <1>2, <1>4
<1>6. feed' \in Seq(Events)
  BY <1>2, <1>3, <1>4, <1>5, SubSeqProperties
<1>7. /\ \A d : /\ (Posted(d)' <=> Posted(d)) /\ Copies(d)' = Copies(d)
                /\ Arrived(d)' = Arrived(d) /\ Waiting(d)' = Waiting(d)
      /\ Cuts' = Cuts
  BY <1>1 DEF Posted, Copies, Arrived, Waiting, Cuts
<1> QED
  BY <1>1, <1>6, <1>7 DEF PosterInv, PosterType, Posting!OneDraftPerEvent, MarkedWasPosted, PostedFromTheFirst,
     EarlierComesFirst, ReachedWasPosted, CopiesAreCounted, Posting!FirstPostsInOrder, Posting!FirstPost

\* Each fresh entry of the feed has a place of its own, and each place an entry.
FreshUpTo(i) == {j \in Posting!Fresh : j <= i}

LEMMA FreshEntries ==
  ASSUME PosterType
  PROVE  /\ Posting!Fresh \in SUBSET (1 .. Len(feed)) /\ IsFiniteSet(Posting!Fresh)
         /\ Cardinality(Posting!Fresh) \in Nat
         /\ \A i \in Posting!Fresh : feed[i] \in Events /\ feed[i] \notin Posting!Drafted
         /\ \A i, j \in Posting!Fresh : feed[i] = feed[j] => i = j
<1>1. feed \in Seq(Events) /\ Len(feed) \in Nat /\ DOMAIN feed = 1 .. Len(feed)
  BY DEF PosterType
<1>2. Posting!Fresh \in SUBSET (1 .. Len(feed))
  BY <1>1 DEF Posting!Fresh
<1>3. IsFiniteSet(1 .. Len(feed))
  BY <1>1, FS_Interval
<1>4. \A i \in Posting!Fresh : feed[i] \in Events /\ feed[i] \notin Posting!Drafted
  BY <1>1 DEF Posting!Fresh
<1>5. ASSUME NEW i \in Posting!Fresh, NEW j \in Posting!Fresh, feed[i] = feed[j]
      PROVE  i = j
  <2>1. (\A k \in 1 .. i - 1 : feed[k] # feed[i]) /\ (\A k \in 1 .. j - 1 : feed[k] # feed[j])
    BY <1>1 DEF Posting!Fresh
  <2>2. i \in 1 .. Len(feed) /\ j \in 1 .. Len(feed)
    BY <1>2
  <2> QED
    BY <1>1, <1>5, <2>1, <2>2
<1> QED
  BY <1>2, <1>3, <1>4, <1>5, FS_Subset, FS_CardinalityType

LEMMA PlacesAreFilled ==
  ASSUME PosterType
  PROVE  \A k \in 1 .. Cardinality(Posting!Fresh) :
           Posting!FreshAt(k) \in Posting!Fresh /\ Posting!Place(Posting!FreshAt(k)) = k
<1> DEFINE n == Cardinality(Posting!Fresh)
           place == [i \in Posting!Fresh |-> Posting!Place(i)]
<1>1. Posting!Fresh \in SUBSET Nat /\ IsFiniteSet(Posting!Fresh) /\ n \in Nat
  BY FreshEntries
<1>2. ASSUME NEW i \in Posting!Fresh
      PROVE  /\ IsFiniteSet(FreshUpTo(i)) /\ Posting!Place(i) = Cardinality(FreshUpTo(i))
             /\ Posting!Place(i) \in Nat /\ Posting!Place(i) \in 1 .. n
  <2>1. i \in Nat
    BY <1>1
  <2>2. FreshUpTo(i) \in SUBSET Posting!Fresh /\ i \in FreshUpTo(i)
    BY <1>1, <2>1 DEF FreshUpTo
  <2>3. IsFiniteSet(FreshUpTo(i)) /\ Cardinality(FreshUpTo(i)) <= n /\ Cardinality(FreshUpTo(i)) \in Nat
    BY <1>1, <2>2, FS_Subset, FS_CardinalityType
  <2>4. Cardinality(FreshUpTo(i)) # 0
    BY <2>2, <2>3, FS_EmptySet
  <2>5. Posting!Place(i) = Cardinality(FreshUpTo(i))
    BY PostingCounts DEF Posting!Place, FreshUpTo
  <2> QED
    BY <1>1, <2>3, <2>4, <2>5
<1>3. ASSUME NEW i \in Posting!Fresh, NEW j \in Posting!Fresh, i < j
      PROVE  Posting!Place(i) # Posting!Place(j)
  <2>1. i \in Nat /\ j \in Nat
    BY <1>1
  <2>2. FreshUpTo(i) \in SUBSET FreshUpTo(j) /\ j \in FreshUpTo(j) /\ j \notin FreshUpTo(i)
    <3>1. \A k \in Posting!Fresh : k \in Nat
      BY <1>1
    <3>2. \A k \in Posting!Fresh : k <= i => k <= j
      BY <1>3, <2>1, <3>1
    <3>3. FreshUpTo(i) \in SUBSET FreshUpTo(j)
      BY <3>2 DEF FreshUpTo
    <3>4. j \in FreshUpTo(j) /\ j \notin FreshUpTo(i)
      BY <1>3, <2>1 DEF FreshUpTo
    <3> QED
      BY <3>3, <3>4
  <2>3. Cardinality(FreshUpTo(i)) # Cardinality(FreshUpTo(j))
    BY <1>2, <2>2, FS_Subset
  <2> QED
    BY <1>2, <2>3
<1>4. \A i, j \in Posting!Fresh : Posting!Place(i) = Posting!Place(j) => i = j
  <2> SUFFICES ASSUME NEW i \in Posting!Fresh, NEW j \in Posting!Fresh, i # j
               PROVE  Posting!Place(i) # Posting!Place(j)
    OBVIOUS
  <2>1. i < j \/ j < i
    BY <1>1
  <2> QED
    BY <1>3, <2>1
<1>5. place \in Injection(Posting!Fresh, 1 .. n)
  BY <1>2, <1>4 DEF Injection, IsInjective
<1>6. IsFiniteSet(1 .. n) /\ Cardinality(1 .. n) = n
  <2> HIDE DEF n
  <2> QED
    BY <1>1, FS_Interval
<1>7. place \in Surjection(Posting!Fresh, 1 .. n)
  BY <1>5, <1>6, FS_Injection
<1>8. ASSUME NEW k \in 1 .. n
      PROVE  \E i \in Posting!Fresh : Posting!Place(i) = k
  BY <1>7, <1>8 DEF Surjection
<1> QED
  BY <1>8 DEF Posting!FreshAt

\* A function on the first numbers is a sequence.
LEMMA TableIsASequence ==
  ASSUME NEW n \in Nat, NEW S, NEW s \in [1 .. n -> S]
  PROVE  s \in Seq(S) /\ Len(s) = n
OBVIOUS

\* INSERT OR IGNORE: the new drafts come after the old, are of events that had none, and each of another.
LEMMA InsertedProperties ==
  ASSUME PosterType, Posting!OneDraftPerEvent
  PROVE  /\ Posting!Inserted \in Seq([event : Events, delivered : BOOLEAN])
         /\ Len(Posting!Inserted) \in Nat /\ Len(drafts) <= Len(Posting!Inserted) /\ Len(drafts) \in Nat
         /\ \A d \in 1 .. Len(drafts) : Posting!Inserted[d] = drafts[d]
         /\ \A d \in 1 .. Len(Posting!Inserted) : d \notin 1 .. Len(drafts) => Posting!Inserted[d].delivered = FALSE
         /\ \A c, d \in 1 .. Len(Posting!Inserted) : Posting!Inserted[c].event = Posting!Inserted[d].event => c = d
<1> DEFINE n == Cardinality(Posting!Fresh)
           new == Posting!New
           table == Posting!Inserted
           At(k) == Posting!FreshAt(k)
<1>1. drafts \in Seq([event : Events, delivered : BOOLEAN]) /\ Len(drafts) \in Nat /\ DOMAIN drafts = 1 .. Len(drafts)
  BY DEF PosterType
<1>2. n \in Nat
  BY FreshEntries
<1>3. ASSUME NEW k \in 1 .. n
      PROVE  feed[At(k)] \in Events /\ feed[At(k)] \notin Posting!Drafted
  BY <1>3, FreshEntries, PlacesAreFilled
<1>4. ASSUME NEW k \in 1 .. n, NEW l \in 1 .. n, feed[At(k)] = feed[At(l)]
      PROVE  k = l
  <2>1. At(k) = At(l)
    BY <1>4, FreshEntries, PlacesAreFilled
  <2> QED
    BY <1>4, <2>1, PlacesAreFilled
<1>5. /\ new \in Seq([event : Events, delivered : BOOLEAN]) /\ Len(new) = n
      /\ \A k \in 1 .. n : new[k].event = feed[At(k)] /\ new[k].delivered = FALSE
  <2>1. \A k \in 1 .. n : [event |-> feed[At(k)], delivered |-> FALSE] \in [event : Events, delivered : BOOLEAN]
    BY <1>3
  <2>2. /\ new \in [1 .. n -> [event : Events, delivered : BOOLEAN]]
        /\ \A k \in 1 .. n : new[k] = [event |-> feed[At(k)], delivered |-> FALSE]
    BY <2>1, PostingCounts DEF Posting!New
  <2> HIDE DEF n, new
  <2>3. new \in Seq([event : Events, delivered : BOOLEAN]) /\ Len(new) = n
    BY <1>2, <2>2, TableIsASequence
  <2>4. ASSUME NEW k \in 1 .. n
        PROVE  new[k].event = feed[At(k)] /\ new[k].delivered = FALSE
    BY <2>2
  <2> QED
    BY <2>3, <2>4
<1>6. table = drafts \o new
  BY DEF Posting!Inserted
<1> HIDE DEF new, table, n, At
<1>7. /\ table \in Seq([event : Events, delivered : BOOLEAN]) /\ Len(table) = Len(drafts) + n
      /\ \A d \in 1 .. Len(drafts) : table[d] = drafts[d]
      /\ \A d \in Len(drafts) + 1 .. Len(drafts) + n : table[d] = new[d - Len(drafts)]
  <2>1. /\ drafts \o new \in Seq([event : Events, delivered : BOOLEAN]) /\ Len(drafts \o new) = Len(drafts) + n
        /\ \A d \in 1 .. Len(drafts) + n :
             (drafts \o new)[d] = IF d <= Len(drafts) THEN drafts[d] ELSE new[d - Len(drafts)]
    BY <1>1, <1>5, ConcatProperties
  <2> QED
    BY <1>1, <1>2, <1>6, <2>1
<1>8. ASSUME NEW d \in 1 .. Len(table), d \notin 1 .. Len(drafts)
      PROVE  /\ d - Len(drafts) \in 1 .. n
             /\ table[d].event = feed[At(d - Len(drafts))] /\ table[d].delivered = FALSE
  <2>1. d - Len(drafts) \in 1 .. n /\ d \in Len(drafts) + 1 .. Len(drafts) + n
    BY <1>1, <1>2, <1>7, <1>8
  <2> QED
    BY <1>5, <1>7, <2>1
<1>9. \A d \in 1 .. Len(drafts) : table[d].event \in Posting!Drafted
  BY <1>1, <1>7 DEF Posting!Drafted
<1>10. ASSUME NEW c \in 1 .. Len(table), NEW d \in 1 .. Len(table), table[c].event = table[d].event
       PROVE  c = d
  <2>1. CASE c \in 1 .. Len(drafts) /\ d \in 1 .. Len(drafts)
    BY <1>1, <1>7, <1>10, <2>1 DEF Posting!OneDraftPerEvent
  <2>2. CASE c \in 1 .. Len(drafts) /\ d \notin 1 .. Len(drafts)
    BY <1>3, <1>8, <1>9, <1>10, <2>2
  <2>3. CASE c \notin 1 .. Len(drafts) /\ d \in 1 .. Len(drafts)
    BY <1>3, <1>8, <1>9, <1>10, <2>3
  <2>4. CASE c \notin 1 .. Len(drafts) /\ d \notin 1 .. Len(drafts)
    <3>1. /\ c - Len(drafts) \in 1 .. n /\ d - Len(drafts) \in 1 .. n
          /\ feed[At(c - Len(drafts))] = feed[At(d - Len(drafts))]
      BY <1>8, <1>10, <2>4
    <3>2. c - Len(drafts) = d - Len(drafts)
      BY <1>4, <3>1
    <3>3. c \in Int /\ d \in Int
      BY <1>7
    <3> QED
      BY <1>1, <3>2, <3>3
  <2> QED
    BY <2>1, <2>2, <2>3, <2>4
<1>11. \A d \in 1 .. Len(table) : d \notin 1 .. Len(drafts) => table[d].delivered = FALSE
  BY <1>8
<1>12. Len(table) \in Nat /\ Len(drafts) <= Len(table)
  BY <1>1, <1>2, <1>7
<1> QED
  BY <1>1, <1>7, <1>10, <1>11, <1>12 DEF table

\* A tick begins: the new drafts carry no mark and no post, and what it reads carries no mark.
LEMMA BeginKeeps ==
  ASSUME Posting!DraftsAssumption, PosterInv, NEW t \in Ticks, Posting!BeginTick(t)
  PROVE  PosterInv'
<1>1. /\ tick[t] = {} /\ drafts' = Posting!Inserted /\ tick' = [tick EXCEPT ![t] = Posting!Undelivered']
      /\ UNCHANGED <<feed, reached, posts, posterDeaths, lostAnswers>>
  BY DEF Posting!BeginTick
<1>2. PosterType /\ PosterInv
  BY DEF PosterInv
<1>3. /\ drafts' \in Seq([event : Events, delivered : BOOLEAN])
      /\ Len(drafts') \in Nat /\ Len(drafts) <= Len(drafts') /\ Len(drafts) \in Nat
      /\ DOMAIN drafts = 1 .. Len(drafts) /\ DOMAIN drafts' = 1 .. Len(drafts')
      /\ \A d \in 1 .. Len(drafts) : drafts'[d] = drafts[d]
      /\ \A d \in 1 .. Len(drafts') : d \notin 1 .. Len(drafts) => drafts'[d].delivered = FALSE
      /\ \A c, d \in 1 .. Len(drafts') : drafts'[c].event = drafts'[d].event => c = d
  <2>1. Posting!OneDraftPerEvent /\ drafts \in Seq([event : Events, delivered : BOOLEAN])
    BY DEF PosterInv, PosterType
  <2>2. drafts' \in Seq([event : Events, delivered : BOOLEAN])
    BY <1>1, <1>2, <2>1, InsertedProperties
  <2>3. /\ Len(drafts) <= Len(drafts')
        /\ \A d \in 1 .. Len(drafts) : drafts'[d] = drafts[d]
        /\ \A d \in 1 .. Len(drafts') : d \notin 1 .. Len(drafts) => drafts'[d].delivered = FALSE
        /\ \A c, d \in 1 .. Len(drafts') : drafts'[c].event = drafts'[d].event => c = d
    BY <1>1, <1>2, <2>1, InsertedProperties
  <2> QED
    BY <2>1, <2>2, <2>3
<1>4. 1 .. Len(drafts) \in SUBSET (1 .. Len(drafts'))
  BY <1>3
<1>5. Posting!Undelivered' = {d \in 1 .. Len(drafts') : ~drafts'[d].delivered}
  BY <1>3 DEF Posting!Undelivered
<1>6. /\ \A u \in Ticks : tick'[u] = IF u = t THEN Posting!Undelivered' ELSE tick[u]
      /\ tick' \in [Ticks -> SUBSET (1 .. Len(drafts'))]
  <2>1. tick \in [Ticks -> SUBSET (1 .. Len(drafts))]
    BY <1>2 DEF PosterType
  <2>2. tick \in [Ticks -> SUBSET (1 .. Len(drafts'))]
    BY <1>4, <2>1
  <2>3. Posting!Undelivered' \in SUBSET (1 .. Len(drafts'))
    BY <1>5
  <2> QED
    BY <1>1, <2>2, <2>3
<1>7. PosterType'
  <2>1. /\ posts \in Seq(1 .. Len(drafts)) /\ feed \in Seq(Events) /\ posterDeaths \in Nat
        /\ reached \in [Ticks -> BOOLEAN] /\ lostAnswers \in Nat
    BY <1>2 DEF PosterType
  <2>2. posts \in Seq(1 .. Len(drafts'))
    <3>1. 1 .. Len(drafts) \subseteq 1 .. Len(drafts')
      BY <1>4
    <3> QED
      BY <2>1, <3>1, SeqMonotonic
  <2> QED
    BY <1>1, <1>3, <1>6, <2>1, <2>2 DEF PosterType
<1>8. \A d : (Posted(d)' <=> Posted(d)) /\ Copies(d)' = Copies(d)
  BY <1>1 DEF Posted, Copies
<1>9. Posting!OneDraftPerEvent'
  BY <1>3 DEF Posting!OneDraftPerEvent
<1>10. \A d \in 1 .. Len(drafts') : drafts'[d].delivered => d \in 1 .. Len(drafts) /\ drafts[d].delivered /\ Posted(d)
  <2> SUFFICES ASSUME NEW d \in 1 .. Len(drafts'), drafts'[d].delivered
               PROVE  d \in 1 .. Len(drafts) /\ drafts[d].delivered /\ Posted(d)
    OBVIOUS
  <2>1. d \in 1 .. Len(drafts)
    BY <1>3
  <2>2. drafts[d].delivered
    BY <1>3, <2>1
  <2> QED
    BY <1>2, <1>3, <2>1, <2>2 DEF PosterInv, MarkedWasPosted
<1>11. MarkedWasPosted'
  BY <1>3, <1>8, <1>10 DEF MarkedWasPosted
<1>12. PostedFromTheFirst'
  BY <1>1, <1>2, <1>8 DEF PosterInv, PostedFromTheFirst
<1>13. EarlierComesFirst'
  <2> SUFFICES ASSUME NEW u \in Ticks, NEW e \in tick'[u], NEW d \in 1 .. e
               PROVE  d \in tick'[u] \/ Posted(d)'
    BY DEF EarlierComesFirst
  <2>1. CASE u # t
    BY <1>2, <1>6, <1>8, <2>1 DEF PosterInv, EarlierComesFirst
  <2>2. CASE u = t
    <3>1. e \in 1 .. Len(drafts')
      BY <1>5, <1>6, <2>2
    <3>2. d \in 1 .. Len(drafts')
      BY <1>3, <3>1
    <3>3. drafts'[d].delivered \/ d \in tick'[u]
      BY <1>5, <1>6, <2>2, <3>2
    <3> QED
      BY <1>8, <1>10, <3>2, <3>3
  <2> QED
    BY <2>1, <2>2
<1>14. ~reached[t] /\ ReachedWasPosted' /\ Cuts' = Cuts
       /\ \A d : Arrived(d)' = Arrived(d)
  <2>1. ~reached[t]
    BY <1>1, <1>2 DEF PosterInv, ReachedWasPosted
  <2>2. ReachedWasPosted'
    BY <1>1, <1>2, <1>6, <1>8, <2>1 DEF PosterInv, ReachedWasPosted
  <2>3. ASSUME NEW d
        PROVE  Arrived(d)' = Arrived(d)
    BY <1>1, <1>6, <2>1 DEF Arrived
  <2> QED
    BY <1>1, <2>1, <2>2, <2>3 DEF Cuts
<1>16. CopiesAreCounted'
  <2> SUFFICES ASSUME NEW d \in 1 .. Len(drafts')
               PROVE  IF drafts'[d].delivered
                      THEN Cardinality(Copies(d)') + Cardinality(Waiting(d)') <= Cardinality(Ticks) + Cuts'
                      ELSE Cardinality(Copies(d)') <= Cuts' + Cardinality(Arrived(d)')
    BY <1>3 DEF CopiesAreCounted
  <2>1. CASE drafts'[d].delivered
    <3>1. d \in 1 .. Len(drafts) /\ drafts[d].delivered
      BY <1>10, <2>1
    <3>2. d \notin tick[t] /\ d \notin tick'[t]
      BY <1>1, <1>5, <1>6, <2>1
    <3>3. Waiting(d)' = Waiting(d)
      BY <1>1, <1>6, <3>2 DEF Waiting
    <3> QED
      BY <1>2, <1>3, <1>8, <1>14, <2>1, <3>1, <3>3 DEF PosterInv, CopiesAreCounted
  <2>2. CASE ~drafts'[d].delivered /\ d \in 1 .. Len(drafts)
    <3>1. ~drafts[d].delivered
      BY <1>3, <2>2
    <3> QED
      BY <1>2, <1>3, <1>8, <1>14, <2>2, <3>1 DEF PosterInv, CopiesAreCounted
  <2>3. CASE ~drafts'[d].delivered /\ d \notin 1 .. Len(drafts)
    <3>1. Copies(d) = {}
      BY <1>2, <2>3 DEF PosterType, Copies
    <3>2. Cardinality(Copies(d)') = 0
      BY <1>8, <3>1, FS_EmptySet
    <3>3. Cuts' \in Nat /\ Cardinality(Arrived(d)') \in Nat
      BY <1>2, <1>14, TicksAreCounted
    <3> QED
      BY <2>3, <3>2, <3>3
  <2> QED
    BY <2>1, <2>2, <2>3
<1>15. Posting!FirstPostsInOrder'
  BY <1>1, <1>2 DEF PosterInv, Posting!FirstPostsInOrder, Posting!FirstPost
<1> QED
  BY <1>7, <1>9, <1>11, <1>12, <1>13, <1>14, <1>15, <1>16 DEF PosterInv

\* The message arrives: a draft that comes next is posted once more.
LEMMA ArrivalKeeps ==
  ASSUME Posting!DraftsAssumption, PosterInv, NEW t \in Ticks, Posting!Arrives(t)
  PROVE  PosterInv'
<1>1. PosterType /\ PosterInv /\ tick[t] # {} /\ ~reached[t]
  BY DEF PosterInv, Posting!Arrives
<1>2. PICK d \in tick[t] : d = Posting!Sending(t) /\ \A e \in tick[t] : d <= e
  BY <1>1, TheFirstIsSent
<1>3. /\ posts' = Append(posts, d) /\ reached' = [reached EXCEPT ![t] = TRUE]
      /\ UNCHANGED <<feed, drafts, tick, posterDeaths, lostAnswers>>
  BY <1>2 DEF Posting!Arrives
<1>4. /\ tick \in [Ticks -> SUBSET (1 .. Len(drafts))] /\ reached \in [Ticks -> BOOLEAN]
      /\ d \in 1 .. Len(drafts) /\ tick[t] \in SUBSET Nat
      /\ \A e \in tick[t] : IsFirst(e, tick[t]) <=> e = d
  BY <1>1, <1>2 DEF PosterType, IsFirst
<1>5. /\ reached' \in [Ticks -> BOOLEAN] /\ reached'[t]
      /\ \A u \in Ticks : u # t => reached'[u] = reached[u]
  BY <1>3, <1>4
<1>6. /\ posts' \in Seq(1 .. Len(drafts))
      /\ \A e : Posted(e)' <=> Posted(e) \/ e = d
      /\ \A e : e # d => Copies(e)' = Copies(e)
      /\ Cardinality(Copies(d)') = Cardinality(Copies(d)) + 1
  BY <1>1, <1>3, <1>4, OneMorePost
<1>7. PosterType'
  BY <1>1, <1>3, <1>5, <1>6 DEF PosterType
<1>8. Posting!OneDraftPerEvent' /\ MarkedWasPosted' /\ EarlierComesFirst'
  BY <1>1, <1>3, <1>6 DEF PosterInv, Posting!OneDraftPerEvent, MarkedWasPosted, EarlierComesFirst
<1>9. PostedFromTheFirst' /\ Posting!FirstPostsInOrder'
  BY <1>1, <1>2, <1>3, NextPostInOrder
<1>10. ReachedWasPosted'
  <2> SUFFICES ASSUME NEW u \in Ticks, reached'[u]
               PROVE  tick[u] # {} /\ \A e \in tick[u] : IsFirst(e, tick[u]) => Posted(e)'
    BY <1>3 DEF ReachedWasPosted
  <2>1. CASE u = t
    BY <1>1, <1>4, <1>6, <2>1
  <2>2. CASE u # t
    BY <1>1, <1>5, <1>6, <2>2 DEF PosterInv, ReachedWasPosted
  <2> QED
    BY <2>1, <2>2
<1>11. Cuts' = Cuts
  BY <1>3 DEF Cuts
<1>12. CopiesAreCounted'
  <2> SUFFICES ASSUME NEW e \in DOMAIN drafts
               PROVE  IF drafts[e].delivered
                      THEN Cardinality(Copies(e)') + Cardinality(Waiting(e)') <= Cardinality(Ticks) + Cuts
                      ELSE Cardinality(Copies(e)') <= Cuts + Cardinality(Arrived(e)')
    BY <1>3, <1>11 DEF CopiesAreCounted
  <2>1. IF drafts[e].delivered
        THEN Cardinality(Copies(e)) + Cardinality(Waiting(e)) <= Cardinality(Ticks) + Cuts
        ELSE Cardinality(Copies(e)) <= Cuts + Cardinality(Arrived(e))
    BY <1>1 DEF PosterInv, CopiesAreCounted
  <2>2. CASE e # d
    <3>1. ~IsFirst(e, tick[t])
      BY <1>4, <2>2 DEF IsFirst
    <3>2. Arrived(e)' = Arrived(e) /\ Waiting(e)' = Waiting(e)
      BY <1>3, <1>5, <3>1 DEF Arrived, Waiting
    <3> QED
      BY <1>6, <2>1, <2>2, <3>2
  <2>3. CASE e = d
    <3>1. /\ Arrived(d)' = Arrived(d) \cup {t} /\ t \notin Arrived(d)
          /\ Waiting(d)' = Waiting(d) \ {t} /\ t \in Waiting(d)
      BY <1>1, <1>2, <1>3, <1>4, <1>5 DEF Arrived, Waiting
    <3>2. /\ IsFiniteSet(Arrived(d)) /\ Cardinality(Arrived(d)) \in Nat
          /\ IsFiniteSet(Waiting(d)) /\ Cardinality(Waiting(d)) \in Nat
          /\ Cardinality(Copies(d)) \in Nat /\ Cuts \in Nat /\ Cardinality(Ticks) \in Nat
      BY <1>1, TicksAreCounted
    <3>3. Cardinality(Arrived(d) \cup {t}) = Cardinality(Arrived(d)) + 1
      BY <3>1, <3>2, FS_AddElement
    <3>4. Cardinality(Waiting(d) \ {t}) = Cardinality(Waiting(d)) - 1
      BY <3>1, <3>2, FS_RemoveElement
    <3>5. /\ Cardinality(Arrived(d)') = Cardinality(Arrived(d)) + 1
          /\ Cardinality(Waiting(d)') = Cardinality(Waiting(d)) - 1
      BY <3>1, <3>3, <3>4
    <3> QED
      BY <1>6, <2>1, <2>3, <3>2, <3>5
  <2> QED
    BY <2>2, <2>3
<1> QED
  BY <1>7, <1>8, <1>9, <1>10, <1>12 DEF PosterInv

\* The answer arrives: the draft is marked, and the tick has it no more.
LEMMA SentKeeps ==
  ASSUME Posting!DraftsAssumption, PosterInv, NEW t \in Ticks, Posting!Sent(t)
  PROVE  PosterInv'
<1>1. PosterType /\ PosterInv /\ reached[t] /\ tick[t] # {}
  BY DEF PosterInv, ReachedWasPosted, Posting!Sent
<1>2. PICK d \in tick[t] : d = Posting!Sending(t) /\ \A e \in tick[t] : d <= e
  BY <1>1, TheFirstIsSent
<1>3. /\ drafts' = [drafts EXCEPT ![d].delivered = TRUE] /\ reached' = [reached EXCEPT ![t] = FALSE]
      /\ tick' = [tick EXCEPT ![t] = tick[t] \ {d}] /\ UNCHANGED <<feed, posts, posterDeaths, lostAnswers>>
  BY <1>2 DEF Posting!Sent, Posting!Delivered, Posting!Left
<1>4. /\ drafts \in Seq([event : Events, delivered : BOOLEAN]) /\ Len(drafts) \in Nat /\ DOMAIN drafts = 1 .. Len(drafts)
      /\ tick \in [Ticks -> SUBSET (1 .. Len(drafts))] /\ reached \in [Ticks -> BOOLEAN]
      /\ d \in 1 .. Len(drafts) /\ tick[t] \in SUBSET Nat
      /\ \A e \in tick[t] : IsFirst(e, tick[t]) <=> e = d
  BY <1>1, <1>2 DEF PosterType, IsFirst
<1>5. /\ Len(drafts') = Len(drafts) /\ DOMAIN drafts' = 1 .. Len(drafts)
      /\ drafts' \in Seq([event : Events, delivered : BOOLEAN])
      /\ \A e \in 1 .. Len(drafts) : e # d => drafts'[e] = drafts[e]
      /\ \A e \in 1 .. Len(drafts) : drafts'[e].event = drafts[e].event
      /\ drafts'[d].delivered = TRUE
  <2>1. drafts \in [1 .. Len(drafts) -> [event : Events, delivered : BOOLEAN]]
    BY <1>4, LenProperties
  <2>2. [drafts[d] EXCEPT !.delivered = TRUE] \in [event : Events, delivered : BOOLEAN]
        /\ [drafts[d] EXCEPT !.delivered = TRUE].event = drafts[d].event
        /\ [drafts[d] EXCEPT !.delivered = TRUE].delivered = TRUE
    BY <1>4, <2>1
  <2>3. /\ drafts' \in [1 .. Len(drafts) -> [event : Events, delivered : BOOLEAN]]
        /\ drafts'[d] = [drafts[d] EXCEPT !.delivered = TRUE]
        /\ \A e \in 1 .. Len(drafts) : e # d => drafts'[e] = drafts[e]
    BY <1>3, <1>4, <2>1, <2>2
  <2>4. drafts' \in Seq([event : Events, delivered : BOOLEAN]) /\ Len(drafts') = Len(drafts)
    BY <1>4, <2>3, TableIsASequence
  <2> QED
    BY <1>4, <2>2, <2>3, <2>4
<1>6. /\ \A u \in Ticks : u # t => tick'[u] = tick[u] /\ reached'[u] = reached[u]
      /\ tick'[t] = tick[t] \ {d} /\ ~reached'[t]
      /\ tick' \in [Ticks -> SUBSET (1 .. Len(drafts))] /\ reached' \in [Ticks -> BOOLEAN]
  BY <1>3, <1>4
<1>7. /\ \A e : (Posted(e)' <=> Posted(e)) /\ Copies(e)' = Copies(e)
      /\ Posted(d) /\ Cuts' = Cuts
  <2>1. Posted(d)
    BY <1>1, <1>2, <1>4 DEF PosterInv, ReachedWasPosted
  <2> QED
    BY <1>3, <2>1 DEF Posted, Copies, Cuts
<1>8. PosterType'
  BY <1>1, <1>3, <1>5, <1>6 DEF PosterType
<1>9. Posting!OneDraftPerEvent'
  BY <1>1, <1>4, <1>5 DEF PosterInv, Posting!OneDraftPerEvent
<1>10. MarkedWasPosted'
  <2> SUFFICES ASSUME NEW e \in 1 .. Len(drafts), drafts'[e].delivered
               PROVE  Posted(e)'
    BY <1>5 DEF MarkedWasPosted
  <2> QED
    BY <1>1, <1>4, <1>5, <1>7 DEF PosterInv, MarkedWasPosted
<1>11. PostedFromTheFirst' /\ Posting!FirstPostsInOrder'
  BY <1>1, <1>3, <1>7 DEF PosterInv, PostedFromTheFirst, Posting!FirstPostsInOrder, Posting!FirstPost
<1>12. EarlierComesFirst'
  <2> SUFFICES ASSUME NEW u \in Ticks, NEW e \in tick'[u], NEW c \in 1 .. e
               PROVE  c \in tick'[u] \/ Posted(c)
    BY <1>7 DEF EarlierComesFirst
  <2>1. e \in tick[u]
    BY <1>6
  <2>2. c \in tick[u] \/ Posted(c)
    BY <1>1, <2>1 DEF PosterInv, EarlierComesFirst
  <2> QED
    BY <1>6, <1>7, <2>2
<1>13. ReachedWasPosted'
  BY <1>1, <1>6, <1>7 DEF PosterInv, ReachedWasPosted
<1>14. CopiesAreCounted'
  <2> SUFFICES ASSUME NEW e \in 1 .. Len(drafts)
               PROVE  IF drafts'[e].delivered
                      THEN Cardinality(Copies(e)) + Cardinality(Waiting(e)') <= Cardinality(Ticks) + Cuts
                      ELSE Cardinality(Copies(e)) <= Cuts + Cardinality(Arrived(e)')
    BY <1>5, <1>7 DEF CopiesAreCounted
  <2>1. IF drafts[e].delivered
        THEN Cardinality(Copies(e)) + Cardinality(Waiting(e)) <= Cardinality(Ticks) + Cuts
        ELSE Cardinality(Copies(e)) <= Cuts + Cardinality(Arrived(e))
    BY <1>1, <1>4 DEF PosterInv, CopiesAreCounted
  <2>2. CASE e # d
    <3>1. ~IsFirst(e, tick[t])
      BY <1>4, <2>2 DEF IsFirst
    <3>2. e \in tick'[t] <=> e \in tick[t]
      BY <1>6, <2>2
    <3>3. Arrived(e)' = Arrived(e) /\ Waiting(e)' = Waiting(e)
      BY <1>6, <3>1, <3>2 DEF Arrived, Waiting
    <3> QED
      BY <1>5, <2>1, <2>2, <3>3
  <2>3. CASE e = d
    <3>1. Waiting(d)' = Waiting(d)
      BY <1>1, <1>2, <1>4, <1>6 DEF Waiting
    <3>2. /\ Cardinality(Arrived(d)) \in Nat /\ Cardinality(Waiting(d)) \in Nat
          /\ Cardinality(Arrived(d)) + Cardinality(Waiting(d)) <= Cardinality(Ticks)
          /\ Cardinality(Copies(d)) \in Nat /\ Cuts \in Nat /\ Cardinality(Ticks) \in Nat
      BY <1>1, TicksAreCounted
    <3>3. Cardinality(Copies(d)) + Cardinality(Waiting(d)) <= Cardinality(Ticks) + Cuts
      BY <2>1, <2>3, <3>2
    <3> QED
      BY <1>5, <2>3, <3>1, <3>3
  <2> QED
    BY <2>2, <2>3
<1> QED
  BY <1>8, <1>9, <1>10, <1>11, <1>12, <1>13, <1>14 DEF PosterInv

\* A send throws: the tick has nothing more, and a message that arrived had no answer.
LEMMA FailureKeeps ==
  ASSUME Posting!DraftsAssumption, PosterInv, NEW t \in Ticks, Posting!SendFails(t)
  PROVE  PosterInv'
<1>1. /\ tick' = [tick EXCEPT ![t] = {}] /\ reached' = [reached EXCEPT ![t] = FALSE]
      /\ UNCHANGED <<feed, drafts, posts, posterDeaths>>
      /\ lostAnswers' = IF reached[t] THEN lostAnswers + 1 ELSE lostAnswers
  BY DEF Posting!SendFails, Posting!AfterFailure
<1>2. /\ PosterType /\ PosterInv /\ posterDeaths \in Nat /\ lostAnswers \in Nat
      /\ tick \in [Ticks -> SUBSET (1 .. Len(drafts))] /\ reached \in [Ticks -> BOOLEAN]
  BY DEF PosterInv, PosterType
<1>3. /\ \A u \in Ticks : u # t => tick'[u] = tick[u] /\ reached'[u] = reached[u]
      /\ tick'[t] = {} /\ ~reached'[t] /\ lostAnswers' \in Nat
      /\ tick' \in [Ticks -> SUBSET (1 .. Len(drafts))] /\ reached' \in [Ticks -> BOOLEAN]
  BY <1>1, <1>2
<1>4. \A e : (Posted(e)' <=> Posted(e)) /\ Copies(e)' = Copies(e)
  BY <1>1 DEF Posted, Copies
<1>5. PosterType' /\ EarlierComesFirst' /\ ReachedWasPosted'
  <2>1. PosterType'
    BY <1>1, <1>2, <1>3 DEF PosterType
  <2>2. EarlierComesFirst'
    BY <1>2, <1>3, <1>4 DEF PosterInv, EarlierComesFirst
  <2>3. ReachedWasPosted'
    BY <1>2, <1>3, <1>4 DEF PosterInv, ReachedWasPosted
  <2> QED
    BY <2>1, <2>2, <2>3
<1>6. /\ Cardinality(Ticks) \in Nat /\ Cuts \in Nat
      /\ Cuts' = IF reached[t] THEN Cuts + 1 ELSE Cuts
  <2>1. Cardinality(Ticks) \in Nat /\ Cuts \in Nat
    BY <1>2, TicksAreCounted
  <2>2. \A c, l \in Nat : c * posterDeaths + (l + 1) = (c * posterDeaths + l) + 1
    BY <1>2
  <2> QED
    BY <1>1, <1>2, <2>1, <2>2 DEF Cuts
<1>7. CopiesAreCounted'
  <2> SUFFICES ASSUME NEW e \in DOMAIN drafts
               PROVE  IF drafts[e].delivered
                      THEN Cardinality(Copies(e)) + Cardinality(Waiting(e)') <= Cardinality(Ticks) + Cuts'
                      ELSE Cardinality(Copies(e)) <= Cuts' + Cardinality(Arrived(e)')
    BY <1>1, <1>4 DEF CopiesAreCounted
  <2>1. IF drafts[e].delivered
        THEN Cardinality(Copies(e)) + Cardinality(Waiting(e)) <= Cardinality(Ticks) + Cuts
        ELSE Cardinality(Copies(e)) <= Cuts + Cardinality(Arrived(e))
    BY <1>2 DEF PosterInv, CopiesAreCounted
  <2>2. /\ Cardinality(Copies(e)) \in Nat
        /\ IsFiniteSet(Arrived(e)) /\ Cardinality(Arrived(e)) \in Nat
        /\ IsFiniteSet(Waiting(e)) /\ Cardinality(Waiting(e)) \in Nat
    BY <1>2, TicksAreCounted
  <2>3. Waiting(e)' \in SUBSET Waiting(e) /\ Arrived(e)' = Arrived(e) \ {t}
    <3>1. t \notin Waiting(e)' /\ t \notin Arrived(e)'
      BY <1>3 DEF Waiting, Arrived
    <3>2. ASSUME NEW u \in Ticks, u # t
          PROVE  (u \in Waiting(e)' <=> u \in Waiting(e)) /\ (u \in Arrived(e)' <=> u \in Arrived(e))
      BY <1>3, <3>2 DEF Waiting, Arrived
    <3>3. Waiting(e) \in SUBSET Ticks /\ Waiting(e)' \in SUBSET Ticks
          /\ Arrived(e) \in SUBSET Ticks /\ Arrived(e)' \in SUBSET Ticks
      BY DEF Waiting, Arrived
    <3> QED
      BY <3>1, <3>2, <3>3
  <2>4. Cardinality(Waiting(e)') \in Nat /\ Cardinality(Waiting(e)') <= Cardinality(Waiting(e))
    BY <2>2, <2>3, FS_Subset, FS_CardinalityType
  <2>5. CASE drafts[e].delivered
    BY <1>6, <2>1, <2>2, <2>4, <2>5
  <2>6. CASE ~drafts[e].delivered /\ reached[t]
    <3>1. Cardinality(Arrived(e)') = Cardinality(Arrived(e)) \/ Cardinality(Arrived(e)') = Cardinality(Arrived(e)) - 1
      <4>1. CASE t \in Arrived(e)
        BY <2>2, <2>3, <4>1, FS_RemoveElement
      <4>2. CASE t \notin Arrived(e)
        <5>1. Arrived(e)' = Arrived(e)
          BY <2>3, <4>2
        <5> QED
          BY <5>1
      <4> QED
        BY <4>1, <4>2
    <3> QED
      BY <1>6, <2>1, <2>2, <2>6, <3>1
  <2>7. CASE ~drafts[e].delivered /\ ~reached[t]
    <3>1. t \notin Arrived(e)
      BY <2>7 DEF Arrived
    <3>2. Arrived(e)' = Arrived(e)
      BY <2>3, <3>1
    <3> QED
      BY <1>6, <2>1, <2>7, <3>2
  <2> QED
    BY <2>5, <2>6, <2>7
<1> QED
  BY <1>1, <1>2, <1>4, <1>5, <1>7 DEF PosterInv, Posting!OneDraftPerEvent, MarkedWasPosted, PostedFromTheFirst,
     Posting!FirstPostsInOrder, Posting!FirstPost

\* The process dies: no tick has anything, and what arrived of each is not known any more.
LEMMA DeathKeeps ==
  ASSUME Posting!DraftsAssumption, PosterInv, Posting!Crash
  PROVE  PosterInv'
<1>1. /\ PosterType /\ PosterInv
      /\ feed' = <<>> /\ tick' = [t \in Ticks |-> {}] /\ reached' = [t \in Ticks |-> FALSE]
      /\ UNCHANGED <<drafts, posts, lostAnswers>> /\ posterDeaths' = posterDeaths + 1
  BY DEF PosterInv, Posting!Crash
<1>2. posterDeaths \in Nat /\ lostAnswers \in Nat
  BY <1>1 DEF PosterType
<1>3. \A t \in Ticks : tick'[t] = {} /\ ~reached'[t]
  BY <1>1
<1>4. \A e : (Posted(e)' <=> Posted(e)) /\ Copies(e)' = Copies(e) /\ Arrived(e)' = {} /\ Waiting(e)' = {}
  BY <1>1, <1>3 DEF Posted, Copies, Arrived, Waiting
<1>5. PosterType' /\ EarlierComesFirst' /\ ReachedWasPosted'
  <2>1. feed' \in Seq(Events) /\ posterDeaths' \in Nat
    BY <1>1, <1>2
  <2> QED
    BY <1>1, <1>3, <2>1 DEF PosterType, EarlierComesFirst, ReachedWasPosted
<1>6. Cardinality(Ticks) \in Nat /\ Cuts \in Nat /\ Cuts' = Cuts + Cardinality(Ticks)
  <2>1. Cardinality(Ticks) \in Nat /\ Cuts \in Nat
    BY <1>1, TicksAreCounted
  <2>2. \A c \in Nat : c * (posterDeaths + 1) + lostAnswers = (c * posterDeaths + lostAnswers) + c
    BY <1>2
  <2> QED
    BY <1>1, <2>1, <2>2 DEF Cuts
<1>7. CopiesAreCounted'
  <2> SUFFICES ASSUME NEW e \in DOMAIN drafts
               PROVE  IF drafts[e].delivered
                      THEN Cardinality(Copies(e)) + 0 <= Cardinality(Ticks) + Cuts'
                      ELSE Cardinality(Copies(e)) <= Cuts' + 0
    <3>1. Cardinality({}) = 0
      BY FS_EmptySet
    <3> QED
      BY <1>1, <1>4, <3>1 DEF CopiesAreCounted
  <2>1. IF drafts[e].delivered
        THEN Cardinality(Copies(e)) + Cardinality(Waiting(e)) <= Cardinality(Ticks) + Cuts
        ELSE Cardinality(Copies(e)) <= Cuts + Cardinality(Arrived(e))
    BY <1>1 DEF PosterInv, CopiesAreCounted
  <2>2. /\ Cardinality(Copies(e)) \in Nat /\ Cardinality(Waiting(e)) \in Nat
        /\ Cardinality(Arrived(e)) \in Nat /\ Cardinality(Arrived(e)) <= Cardinality(Ticks)
    BY <1>1, TicksAreCounted
  <2> QED
    BY <1>6, <2>1, <2>2
<1> QED
  BY <1>1, <1>4, <1>5, <1>7 DEF PosterInv, Posting!OneDraftPerEvent, MarkedWasPosted, PostedFromTheFirst,
     Posting!FirstPostsInOrder, Posting!FirstPost

LEMMA PosterInvIsEnough ==
  ASSUME Posting!DraftsAssumption, PosterInv
  PROVE  PostedOnceInOrder
<1>1. Posting!ResentOnlyWithCause
  <2>1. PosterType /\ posterDeaths \in Nat /\ lostAnswers \in Nat
    BY DEF PosterInv, PosterType
  <2>2. \A c \in Nat : c * (1 + posterDeaths) + lostAnswers = c + (c * posterDeaths + lostAnswers)
    BY <2>1
  <2>3. Cardinality(Ticks) \in Nat /\ Cuts \in Nat
    BY <2>1, TicksAreCounted
  <2>4. Cardinality(Ticks) * (1 + posterDeaths) + lostAnswers = Cardinality(Ticks) + Cuts
    BY <2>2, <2>3 DEF Cuts
  <2> SUFFICES ASSUME NEW d \in DOMAIN drafts
               PROVE  Cardinality(Copies(d)) <= Cardinality(Ticks) + Cuts
    BY <2>4, PostingCounts DEF Posting!ResentOnlyWithCause, Copies
  <2>5. IF drafts[d].delivered
        THEN Cardinality(Copies(d)) + Cardinality(Waiting(d)) <= Cardinality(Ticks) + Cuts
        ELSE Cardinality(Copies(d)) <= Cuts + Cardinality(Arrived(d))
    BY DEF PosterInv, CopiesAreCounted
  <2>6. /\ Cardinality(Copies(d)) \in Nat /\ Cardinality(Waiting(d)) \in Nat
        /\ Cardinality(Arrived(d)) \in Nat /\ Cardinality(Arrived(d)) <= Cardinality(Ticks)
    BY <2>1, TicksAreCounted
  <2> QED
    BY <2>3, <2>5, <2>6
<1> QED
  BY <1>1 DEF PosterInv, PostedOnceInOrder

\* whalewatch.js, evaluate and deliverPendingDrafts, for any feed, ticks and deaths: an event becomes one
\* draft, the channel first hears of the drafts in order, and of one again only by overlap, a lost answer or a death.
THEOREM PostingIsOnceInOrder == JobsSpec => []PostedOnceInOrder
<1>1. JobsInit => PosterInv
  BY JobsAssumption, PosterStarts DEF JobsInit
<1>2. ASSUME PosterInv, [JobsNext]_jobsVars
      PROVE  PosterInv'
  <2>1. CASE UNCHANGED <<feed, drafts, tick, reached, posts, posterDeaths, lostAnswers>>
    <3>1. /\ \A e : /\ (Posted(e)' <=> Posted(e)) /\ Copies(e)' = Copies(e)
                    /\ Arrived(e)' = Arrived(e) /\ Waiting(e)' = Waiting(e)
          /\ Cuts' = Cuts
      BY <2>1 DEF Posted, Copies, Arrived, Waiting, Cuts
    <3> QED
      BY <1>2, <2>1, <3>1 DEF PosterInv, PosterType, Posting!OneDraftPerEvent, MarkedWasPosted, PostedFromTheFirst,
         EarlierComesFirst, ReachedWasPosted, CopiesAreCounted, Posting!FirstPostsInOrder, Posting!FirstPost
  <2>2. CASE Posting!Next
    <3>1. ASSUME NEW e \in Events, Posting!Push(e)
          PROVE  PosterInv'
      BY <1>2, <3>1, JobsAssumption, PushKeeps
    <3>2. ASSUME NEW t \in Ticks, Posting!BeginTick(t)
          PROVE  PosterInv'
      BY <1>2, <3>2, JobsAssumption, BeginKeeps
    <3>3. ASSUME NEW t \in Ticks, Posting!Sent(t)
          PROVE  PosterInv'
      BY <1>2, <3>3, JobsAssumption, SentKeeps
    <3>4. ASSUME NEW t \in Ticks, Posting!SendFails(t)
          PROVE  PosterInv'
      BY <1>2, <3>4, JobsAssumption, FailureKeeps
    <3>6. ASSUME NEW t \in Ticks, Posting!Arrives(t)
          PROVE  PosterInv'
      BY <1>2, <3>6, JobsAssumption, ArrivalKeeps
    <3>5. ASSUME Posting!Crash
          PROVE  PosterInv'
      BY <1>2, <3>5, JobsAssumption, DeathKeeps
    <3> QED
      BY <2>2, <3>1, <3>2, <3>3, <3>4, <3>5, <3>6 DEF Posting!Next
  <2> QED
    BY <1>2, <2>1, <2>2 DEF JobsNext, PostingStep, WeeklyStep, jobsVars, postingVars
<1>3. PosterInv => PostedOnceInOrder
  BY JobsAssumption, PosterInvIsEnough
<1> QED
  BY <1>1, <1>2, <1>3, PTL DEF JobsSpec

----------------------------------------------------------------------------
(* The draft of the weekly report (WeeklyReport), for any chain and calendar. *)

\* A function on an interval has a greatest value there.
LEMMA PeakOf ==
  ASSUME NEW a \in Int, NEW b \in Int, a <= b, NEW f, \A i \in a .. b : f[i] \in Int
  PROVE  \E m \in a .. b : \A n \in a .. b : f[m] >= f[n]
<1> DEFINE HasPeak(k) == \E m \in a .. a + k : \A n \in a .. a + k : f[m] >= f[n]
           Without == {k \in 0 .. b - a : ~HasPeak(k)}
<1>1. Without = {}
  <2> SUFFICES ASSUME Without # {}
               PROVE  FALSE
    OBVIOUS
  <2>1. Without \in SUBSET Nat
    OBVIOUS
  <2>2. PICK k \in Without : \A l \in Without : k <= l
    <3> HIDE DEF Without
    <3> QED
      BY <2>1, LeastOf
  <2>3. k \in 0 .. b - a /\ ~HasPeak(k)
    BY <2>2
  <2>4. HasPeak(0)
    <3>1. a .. a + 0 = {a} /\ f[a] \in Int
      OBVIOUS
    <3> QED
      BY <3>1
  <2>5. k - 1 \in 0 .. b - a
    <3>1. k # 0
      BY <2>3, <2>4
    <3> QED
      BY <2>3, <3>1
  <2>6. HasPeak(k - 1)
    <3>1. k - 1 \notin Without
      <4> HIDE DEF Without
      <4> QED
        BY <2>2, <2>3
    <3> QED
      BY <2>5, <3>1
  <2>7. PICK m \in a .. a + (k - 1) : \A n \in a .. a + (k - 1) : f[m] >= f[n]
    BY <2>6
  <2>8. m \in a .. a + k /\ a + k \in a .. a + k /\ f[m] \in Int /\ f[a + k] \in Int
    BY <2>3, <2>5, <2>7
  <2>9. \A n \in a .. a + k : f[n] \in Int /\ (n = a + k \/ n \in a .. a + (k - 1))
    BY <2>3
  <2>10. CASE f[m] >= f[a + k]
    <3>1. \A n \in a .. a + k : f[m] >= f[n]
      BY <2>7, <2>9, <2>10
    <3> QED
      BY <2>3, <2>8, <3>1
  <2>11. CASE ~(f[m] >= f[a + k])
    <3>1. ASSUME NEW n \in a .. a + k
          PROVE  f[a + k] >= f[n]
      <4>1. CASE n = a + k
        BY <2>8, <4>1
      <4>2. CASE n \in a .. a + (k - 1)
        <5>1. f[m] >= f[n] /\ f[n] \in Int
          BY <2>7, <2>9, <4>2
        <5> QED
          BY <2>8, <2>11, <5>1
      <4> QED
        BY <2>9, <4>1, <4>2
    <3> QED
      BY <2>3, <2>8, <3>1
  <2> QED
    BY <2>10, <2>11
<1>2. b - a \in 0 .. b - a /\ a + (b - a) = b
  OBVIOUS
<1>3. HasPeak(b - a)
  BY <1>1, <1>2
<1> QED
  BY <1>2, <1>3

\* The operators of FiniteSets, as the instance sees them.
LEMMA WeeklyCounts == \A S : Weekly!Cardinality(S) = Cardinality(S)
BY DEF Weekly!Cardinality, Weekly!IsFiniteSet, Cardinality

LEMMA Calendar ==
  ASSUME Weekly!WeeklyAssumption
  PROVE  /\ {WeekLength, FirstStep} \subseteq Nat \ {0} /\ MaxBlock \in Nat /\ Published \in Nat
         /\ Weekly!Blocks = 0 .. MaxBlock /\ Weekly!head = MaxBlock /\ Weekly!Days = 0 .. Published - 1
         /\ Weekly!reportWindow.from = Published - WeekLength /\ Weekly!reportWindow.to = Published - 1
         /\ Weekly!reportWindow.prevFrom = Published - 2 * WeekLength
         /\ Weekly!supplyReadDays = Published - 2 * WeekLength - 1 .. Published - 1
         /\ Weekly!supplyReadDays \in SUBSET (0 .. Published - 1)
         /\ Published - 2 * WeekLength \in 1 .. Published - WeekLength - 1
<1>1. {WeekLength, FirstStep} \subseteq Nat \ {0} /\ MaxBlock \in Nat /\ Published \in Nat /\ Published > 2 * WeekLength
  BY DEF Weekly!WeeklyAssumption
<1>2. /\ Weekly!Blocks = 0 .. MaxBlock /\ Weekly!head = MaxBlock /\ Weekly!Days = 0 .. Published - 1
      /\ Weekly!reportWindow.from = Published - WeekLength /\ Weekly!reportWindow.to = Published - 1
      /\ Weekly!reportWindow.prevFrom = Published - 2 * WeekLength
  BY DEF Weekly!Blocks, Weekly!head, Weekly!Days, Weekly!reportWindow
<1>3. Weekly!supplyReadDays = Published - 2 * WeekLength - 1 .. Published - 1
  BY <1>2 DEF Weekly!supplyReadDays
<1>4. WeekLength \in Nat \ {0}
  BY <1>1
<1> QED
  BY <1>1, <1>2, <1>3, <1>4

\* The block that closes a day: the last of those stamped before the next midnight.
Closes(n, d) == n \in 0 .. MaxBlock /\ \A m \in 0 .. MaxBlock : stamp[m] < d + 1 <=> m <= n

ReportType ==
  /\ stamp \in [0 .. MaxBlock -> 0 .. Published]
  /\ \A m, n \in 0 .. MaxBlock : m <= n => stamp[m] <= stamp[n]
  /\ minted \in [0 .. MaxBlock -> {1, -1}]
  /\ wrong \in (0 .. Published - 1) \cup {-1}
  /\ recordFirst \in 0 .. Published - 1 /\ stamp[0] <= recordFirst
  /\ todo \in SUBSET (0 .. Published - 1)
  /\ DOMAIN reads \in SUBSET (0 .. Published - 1)

ReadsAreCloses == \A d \in DOMAIN reads : Closes(reads[d], d)

\* Where a search stands: the midnight lies between its bounds.
SearchStands ==
  phase \in {"up", "down", "halve"} =>
    /\ todo # {} /\ lo \in 0 .. MaxBlock /\ hi \in 0 .. MaxBlock /\ step \in Nat \ {0}
    /\ phase # "down" => stamp[lo] < Weekly!Midnight
    /\ stamp[hi] >= Weekly!Midnight
    /\ phase = "up" => hi = MaxBlock

\* What the report rests on is read or still to be read, and inside the record.
ReportCovers ==
  /\ Weekly!supplyReadDays \subseteq DOMAIN reads \cup todo
  /\ phase \notin {"start", "failed"} => recordFirst <= Weekly!reportWindow.prevFrom
  /\ phase = "drafted" => Weekly!supplyReadDays \subseteq DOMAIN reads /\ Weekly!priorHigh \in DOMAIN reads

ReportInv == ReportType /\ ReadsAreCloses /\ SearchStands /\ ReportCovers

\* Stamps that never fall from one block to the next never fall.
LEMMA StampsAreSorted ==
  ASSUME MaxBlock \in Nat, NEW s \in [0 .. MaxBlock -> Nat], \A n \in 1 .. MaxBlock : s[n - 1] <= s[n]
  PROVE  \A m, n \in 0 .. MaxBlock : m <= n => s[m] <= s[n]
<1> SUFFICES ASSUME NEW m \in 0 .. MaxBlock
             PROVE  \A n \in 0 .. MaxBlock : m <= n => s[m] <= s[n]
  OBVIOUS
<1> DEFINE Falls == {n \in 0 .. MaxBlock : m <= n /\ ~(s[m] <= s[n])}
<1> SUFFICES ASSUME Falls # {}
             PROVE  FALSE
  OBVIOUS
<1>1. Falls \in SUBSET Nat
  OBVIOUS
<1>2. PICK n \in Falls : \A k \in Falls : n <= k
  <2> HIDE DEF Falls
  <2> QED
    BY <1>1, LeastOf
<1>3. n \in 0 .. MaxBlock /\ m <= n /\ ~(s[m] <= s[n]) /\ s[m] \in Nat /\ s[n] \in Nat
  BY <1>2
<1>4. n # m
  BY <1>3
<1>5. n - 1 \in 0 .. MaxBlock /\ m <= n - 1 /\ n \in 1 .. MaxBlock
  BY <1>3, <1>4
<1>6. s[m] <= s[n - 1]
  <2>1. n - 1 \notin Falls
    BY <1>2, <1>3
  <2> QED
    BY <1>5, <2>1
<1>7. s[n - 1] <= s[n] /\ s[n - 1] \in Nat
  BY <1>5
<1> QED
  BY <1>3, <1>6, <1>7

LEMMA ReportStarts ==
  ASSUME Weekly!WeeklyAssumption, Weekly!Init
  PROVE  ReportInv
<1>1. /\ stamp \in [0 .. MaxBlock -> 0 .. Published] /\ \A n \in 1 .. MaxBlock : stamp[n - 1] <= stamp[n]
      /\ minted \in [0 .. MaxBlock -> {1, -1}] /\ wrong \in (0 .. Published - 1) \cup {-1}
      /\ recordFirst \in 0 .. Published - 1 /\ stamp[0] <= recordFirst
      /\ phase = "start" /\ todo = Weekly!supplyReadDays /\ DOMAIN reads = {}
  BY Calendar DEF Weekly!Init
<1>2. stamp \in [0 .. MaxBlock -> Nat]
  BY <1>1, Calendar
<1>3. \A m, n \in 0 .. MaxBlock : m <= n => stamp[m] <= stamp[n]
  BY <1>1, <1>2, StampsAreSorted, Calendar
<1>4. ReportType
  BY <1>1, <1>3, Calendar DEF ReportType
<1> QED
  BY <1>1, <1>4 DEF ReportInv, ReadsAreCloses, SearchStands, ReportCovers

LEMMA NextIsADay ==
  ASSUME Weekly!WeeklyAssumption, ReportType, todo # {}
  PROVE  Weekly!NextDay \in todo /\ Weekly!NextDay \in 0 .. Published - 1 /\ Weekly!Midnight = Weekly!NextDay + 1
<1>1. todo \in SUBSET (0 .. Published - 1) /\ Published - 1 \in Int
  BY Calendar DEF ReportType
<1>2. \E d \in todo : \A e \in todo : d >= e
  BY <1>1, GreatestOf
<1>3. Weekly!NextDay \in todo
  BY <1>2 DEF Weekly!NextDay, Weekly!Latest
<1> QED
  BY <1>1, <1>3 DEF Weekly!Midnight

\* A step that reads no close leaves everything but the search as it is.
LEMMA OnlyTheSearchMoves ==
  ASSUME ReportInv, UNCHANGED <<stamp, minted, wrong, recordFirst, todo, reads>>,
         phase' # "drafted", phase' \notin {"start", "failed"} => recordFirst <= Weekly!reportWindow.prevFrom,
         SearchStands'
  PROVE  ReportInv'
<1>2. Weekly!supplyReadDays' = Weekly!supplyReadDays /\ Weekly!reportWindow' = Weekly!reportWindow
  BY DEF Weekly!supplyReadDays, Weekly!reportWindow
<1>3. ReportType' /\ ReadsAreCloses'
  BY DEF ReportInv, ReportType, ReadsAreCloses, Closes
<1>4. ReportCovers'
  BY <1>2 DEF ReportInv, ReportCovers
<1> QED
  BY <1>3, <1>4 DEF ReportInv

\* The script moves within a search, or gives up.
LEMMA SearchKeeps ==
  ASSUME Weekly!WeeklyAssumption, ReportInv,
         \/ Weekly!assertSeriesCovers \/ Weekly!BeginSearch \/ Weekly!GallopUp \/ Weekly!GallopDown \/ Weekly!Halve
         \/ Weekly!GivesUp
  PROVE  ReportInv'
<1>1. /\ ReportType /\ SearchStands /\ ReportCovers
      /\ MaxBlock \in Nat /\ Published \in Nat /\ FirstStep \in Nat \ {0}
      /\ Weekly!Blocks = 0 .. MaxBlock /\ Weekly!head = MaxBlock
      /\ \A n \in 0 .. MaxBlock : stamp[n] \in Nat
  <2>1. /\ ReportType /\ SearchStands /\ ReportCovers
        /\ MaxBlock \in Nat /\ Published \in Nat /\ FirstStep \in Nat \ {0}
        /\ Weekly!Blocks = 0 .. MaxBlock /\ Weekly!head = MaxBlock
    BY Calendar DEF ReportInv
  <2>2. stamp \in [0 .. MaxBlock -> 0 .. Published]
    BY <2>1 DEF ReportType
  <2> QED
    BY <2>1, <2>2
<1>2. UNCHANGED <<stamp, minted, wrong, recordFirst, todo, reads>>
  BY DEF Weekly!assertSeriesCovers, Weekly!BeginSearch, Weekly!GallopUp, Weekly!GallopDown, Weekly!Halve, Weekly!GivesUp,
     Weekly!series
<1>3. Weekly!Midnight' = Weekly!Midnight
  BY <1>2 DEF Weekly!Midnight, Weekly!NextDay, Weekly!Latest
<1>4. CASE Weekly!assertSeriesCovers
  <2>1. /\ phase' \in {"next", "failed"}
        /\ phase' = "next" => recordFirst <= Weekly!reportWindow.prevFrom
    BY <1>4 DEF Weekly!assertSeriesCovers
  <2>2. SearchStands'
    BY <2>1 DEF SearchStands
  <2> QED
    BY <1>2, <2>1, <2>2, OnlyTheSearchMoves
<1>5. CASE Weekly!GivesUp
  <2>1. phase' = "failed"
    BY <1>5 DEF Weekly!GivesUp
  <2>2. SearchStands'
    BY <2>1 DEF SearchStands
  <2> QED
    BY <1>2, <2>1, <2>2, OnlyTheSearchMoves
<1>6. CASE Weekly!BeginSearch
  <2>1. phase = "next" /\ todo # {} /\ recordFirst <= Weekly!reportWindow.prevFrom
    BY <1>1, <1>6 DEF Weekly!BeginSearch, ReportCovers
  <2>2. Weekly!Midnight \in Int
    BY <1>1, <2>1, NextIsADay
  <2>3. CASE phase' = "failed"
    <3>1. SearchStands'
      BY <2>3 DEF SearchStands
    <3> QED
      BY <1>2, <2>1, <2>3, <3>1, OnlyTheSearchMoves
  <2>4. CASE phase' # "failed"
    <3>1. /\ stamp[MaxBlock] >= Weekly!Midnight /\ step' = FirstStep
          /\ \E guess \in 0 .. MaxBlock :
               IF stamp[guess] < Weekly!Midnight THEN lo' = guess /\ hi' = MaxBlock /\ phase' = "up"
               ELSE hi' = guess /\ lo' = 0 /\ phase' = "down"
      BY <1>1, <1>6, <2>2, <2>4 DEF Weekly!BeginSearch
    <3>2. PICK guess \in 0 .. MaxBlock :
            IF stamp[guess] < Weekly!Midnight THEN lo' = guess /\ hi' = MaxBlock /\ phase' = "up"
            ELSE hi' = guess /\ lo' = 0 /\ phase' = "down"
      BY <3>1
    <3>3. MaxBlock \in 0 .. MaxBlock /\ 0 \in 0 .. MaxBlock /\ stamp[guess] \in Nat
      BY <1>1
    <3>4. SearchStands'
      BY <1>1, <1>2, <1>3, <2>1, <2>2, <3>1, <3>2, <3>3 DEF SearchStands
    <3>5. phase' \in {"up", "down"}
      BY <3>2
    <3> QED
      BY <1>2, <2>1, <3>4, <3>5, OnlyTheSearchMoves
  <2> QED
    BY <2>3, <2>4
<1>7. CASE Weekly!GallopUp
  <2>1. /\ phase = "up" /\ todo # {} /\ lo \in 0 .. MaxBlock /\ hi = MaxBlock /\ step \in Nat \ {0}
        /\ stamp[lo] < Weekly!Midnight /\ stamp[MaxBlock] >= Weekly!Midnight
        /\ recordFirst <= Weekly!reportWindow.prevFrom
    BY <1>1, <1>7 DEF Weekly!GallopUp, SearchStands, ReportCovers
  <2>2. Weekly!Midnight \in Int
    BY <1>1, <2>1, NextIsADay
  <2>3. PICK n : /\ n = Weekly!Earliest({MaxBlock, lo + step})
                 /\ IF stamp[n] >= Weekly!Midnight THEN hi' = n /\ phase' = "halve" /\ UNCHANGED <<lo, step>>
                    ELSE lo' = n /\ step' = 2 * step /\ UNCHANGED <<hi, phase>>
    BY <1>1, <1>7 DEF Weekly!GallopUp
  <2>4. n \in {MaxBlock, lo + step} /\ n <= MaxBlock
    <3>1. \E m \in {MaxBlock, lo + step} : \A e \in {MaxBlock, lo + step} : m <= e
      BY <1>1, <2>1
    <3>2. n \in {MaxBlock, lo + step} /\ \A e \in {MaxBlock, lo + step} : n <= e
      BY <2>3, <3>1 DEF Weekly!Earliest
    <3> QED
      BY <3>2
  <2>5. n \in 0 .. MaxBlock
    BY <1>1, <2>1, <2>4
  <2>6. SearchStands' /\ phase' \in {"up", "halve"}
    <3>1. CASE stamp[n] >= Weekly!Midnight
      BY <1>1, <1>2, <1>3, <2>1, <2>3, <2>5, <3>1 DEF SearchStands
    <3>2. CASE ~(stamp[n] >= Weekly!Midnight)
      <4>1. stamp[n] < Weekly!Midnight /\ 2 * step \in Nat \ {0} /\ MaxBlock \in 0 .. MaxBlock
        BY <1>1, <2>1, <2>2, <2>5, <3>2
      <4> QED
        BY <1>1, <1>2, <1>3, <2>1, <2>3, <2>5, <3>2, <4>1 DEF SearchStands
    <3> QED
      BY <3>1, <3>2
  <2> QED
    BY <1>2, <2>1, <2>6, OnlyTheSearchMoves
<1>8. CASE Weekly!GallopDown
  <2>1. /\ phase = "down" /\ todo # {} /\ lo \in 0 .. MaxBlock /\ hi \in 0 .. MaxBlock /\ step \in Nat \ {0}
        /\ stamp[hi] >= Weekly!Midnight
        /\ recordFirst <= Weekly!reportWindow.prevFrom
    BY <1>1, <1>8 DEF Weekly!GallopDown, SearchStands, ReportCovers
  <2>2. Weekly!Midnight \in Int
    BY <1>1, <2>1, NextIsADay
  <2>3. CASE hi = 0
    <3>1. phase' = "failed"
      BY <1>8, <2>3 DEF Weekly!GallopDown
    <3>2. SearchStands'
      BY <3>1 DEF SearchStands
    <3> QED
      BY <1>2, <3>1, <3>2, OnlyTheSearchMoves
  <2>4. CASE hi # 0
    <3>1. PICK n : /\ n = Weekly!Latest({0, hi - step})
                   /\ IF stamp[n] < Weekly!Midnight THEN lo' = n /\ phase' = "halve" /\ UNCHANGED <<hi, step>>
                      ELSE hi' = n /\ step' = 2 * step /\ UNCHANGED <<lo, phase>>
      BY <1>8, <2>4 DEF Weekly!GallopDown
    <3>2. n \in {0, hi - step} /\ n >= 0
      <4>1. \E m \in {0, hi - step} : \A e \in {0, hi - step} : m >= e
        BY <1>1, <2>1
      <4>2. n \in {0, hi - step} /\ \A e \in {0, hi - step} : n >= e
        BY <3>1, <4>1 DEF Weekly!Latest
      <4> QED
        BY <4>2
    <3>3. n \in 0 .. MaxBlock
      BY <1>1, <2>1, <3>2
    <3>4. SearchStands' /\ phase' \in {"down", "halve"}
      <4>1. CASE stamp[n] < Weekly!Midnight
        BY <1>1, <1>2, <1>3, <2>1, <3>1, <3>3, <4>1 DEF SearchStands
      <4>2. CASE ~(stamp[n] < Weekly!Midnight)
        <5>1. stamp[n] >= Weekly!Midnight /\ 2 * step \in Nat \ {0}
          BY <1>1, <2>1, <2>2, <3>3, <4>2
        <5> QED
          BY <1>1, <1>2, <1>3, <2>1, <3>1, <3>3, <4>2, <5>1 DEF SearchStands
      <4> QED
        BY <4>1, <4>2
    <3> QED
      BY <1>2, <2>1, <3>4, OnlyTheSearchMoves
  <2> QED
    BY <2>3, <2>4
<1>9. CASE Weekly!Halve
  <2>1. /\ phase = "halve" /\ todo # {} /\ lo \in 0 .. MaxBlock /\ hi \in 0 .. MaxBlock /\ step \in Nat \ {0}
        /\ stamp[lo] < Weekly!Midnight /\ stamp[hi] >= Weekly!Midnight
        /\ recordFirst <= Weekly!reportWindow.prevFrom /\ hi - lo > 1
    BY <1>1, <1>9 DEF Weekly!Halve, Weekly!Bracketed, SearchStands, ReportCovers
  <2>2. Weekly!Midnight \in Int
    BY <1>1, <2>1, NextIsADay
  <2>3. PICK mid : /\ mid = lo + (hi - lo) \div 2
                   /\ IF stamp[mid] < Weekly!Midnight THEN lo' = mid /\ UNCHANGED hi ELSE hi' = mid /\ UNCHANGED lo
    BY <1>9 DEF Weekly!Halve, Weekly!Before
  <2>4. mid \in 0 .. MaxBlock
    BY <1>1, <2>1, <2>3
  <2>5. stamp[mid] < Weekly!Midnight \/ stamp[mid] >= Weekly!Midnight
    BY <1>1, <2>2, <2>4
  <2>6. phase' = phase /\ step' = step
    BY <1>9 DEF Weekly!Halve
  <2>7. SearchStands'
    BY <1>1, <1>2, <1>3, <2>1, <2>3, <2>4, <2>5, <2>6 DEF SearchStands
  <2> QED
    BY <1>2, <2>1, <2>6, <2>7, OnlyTheSearchMoves
<1> QED
  BY <1>4, <1>5, <1>6, <1>7, <1>8, <1>9

\* Between two bounds that meet lies the midnight: the lower is the close.
LEMMA FoundKeeps ==
  ASSUME Weekly!WeeklyAssumption, ReportInv, Weekly!Found
  PROVE  ReportInv'
<1>1. /\ ReportType /\ SearchStands /\ ReportCovers /\ ReadsAreCloses
      /\ MaxBlock \in Nat /\ stamp \in [0 .. MaxBlock -> 0 .. Published] /\ Published \in Nat
  BY Calendar DEF ReportInv, ReportType
<1>2. /\ phase = "halve" /\ todo # {} /\ lo \in 0 .. MaxBlock /\ hi \in 0 .. MaxBlock
      /\ stamp[lo] < Weekly!Midnight /\ stamp[hi] >= Weekly!Midnight /\ ~(hi - lo > 1)
      /\ recordFirst <= Weekly!reportWindow.prevFrom
  BY <1>1 DEF Weekly!Found, Weekly!Bracketed, SearchStands, ReportCovers
<1>3. PICK d \in todo : d = Weekly!NextDay /\ d \in 0 .. Published - 1 /\ Weekly!Midnight = d + 1
  BY <1>1, <1>2, NextIsADay
<1>4. /\ reads' = [e \in DOMAIN reads \cup {d} |-> IF e = d THEN lo ELSE reads[e]]
      /\ todo' = todo \ {d} /\ phase' = "next" /\ UNCHANGED <<stamp, minted, wrong, recordFirst>>
  BY <1>3 DEF Weekly!Found, Weekly!series
<1>5. Closes(lo, d)
  <2>1. \A m, n \in 0 .. MaxBlock : m <= n => stamp[m] <= stamp[n]
    BY <1>1 DEF ReportType
  <2>2. ASSUME NEW m \in 0 .. MaxBlock
        PROVE  stamp[m] < d + 1 <=> m <= lo
    <3>1. stamp[m] \in Nat /\ stamp[lo] \in Nat /\ stamp[hi] \in Nat
      BY <1>1, <1>2
    <3>2. CASE m <= lo
      BY <1>2, <1>3, <2>1, <3>1, <3>2
    <3>3. CASE ~(m <= lo)
      <4>1. hi <= m
        BY <1>2, <3>3
      <4>2. stamp[hi] <= stamp[m]
        BY <1>2, <2>1, <4>1
      <4> QED
        BY <1>2, <1>3, <3>1, <3>3, <4>2
    <3> QED
      BY <3>2, <3>3
  <2> QED
    BY <1>2, <2>2 DEF Closes
<1>6. DOMAIN reads' = DOMAIN reads \cup {d} /\ \A e \in DOMAIN reads' : reads'[e] = IF e = d THEN lo ELSE reads[e]
  BY <1>4
<1>7. \A n, e : Closes(n, e) => Closes(n, e)'
  BY <1>4 DEF Closes
<1>8. ReadsAreCloses'
  <2> SUFFICES ASSUME NEW e \in DOMAIN reads', NEW n, n = reads'[e]
               PROVE  Closes(n, e)'
    BY DEF ReadsAreCloses, Closes
  <2>1. CASE e = d
    BY <1>5, <1>6, <1>7, <2>1
  <2>2. CASE e # d
    BY <1>1, <1>6, <1>7, <2>2 DEF ReadsAreCloses
  <2> QED
    BY <2>1, <2>2
<1>9. ReportType'
  BY <1>1, <1>3, <1>4, <1>6 DEF ReportType
<1>10. SearchStands'
  BY <1>4 DEF SearchStands
<1>11. ReportCovers'
  <2>1. Weekly!supplyReadDays' = Weekly!supplyReadDays /\ Weekly!reportWindow' = Weekly!reportWindow
    BY DEF Weekly!supplyReadDays, Weekly!reportWindow
  <2> QED
    BY <1>1, <1>2, <1>4, <1>6, <2>1 DEF ReportCovers
<1> QED
  BY <1>8, <1>9, <1>10, <1>11 DEF ReportInv

\* Mints less burns add up.
LEMMA IssuedAddsUp ==
  ASSUME MaxBlock \in Nat, NEW A \in SUBSET (0 .. MaxBlock), NEW B \in SUBSET (0 .. MaxBlock), A \cap B = {}
  PROVE  /\ Weekly!Issued(A) \in Int /\ Weekly!Issued(B) \in Int
         /\ Weekly!Issued(A \cup B) = Weekly!Issued(A) + Weekly!Issued(B)
<1> DEFINE Of(S, k) == {n \in S : minted[n] = k}
<1>1. IsFiniteSet(0 .. MaxBlock)
  BY FS_Interval
<1>2. ASSUME NEW S \in SUBSET (0 .. MaxBlock), NEW k \in {1, -1}
      PROVE  IsFiniteSet(Of(S, k)) /\ Cardinality(Of(S, k)) \in Nat
  <2>1. Of(S, k) \in SUBSET (0 .. MaxBlock)
    OBVIOUS
  <2> HIDE DEF Of
  <2> QED
    BY <1>1, <2>1, FS_Subset, FS_CardinalityType
<1>3. ASSUME NEW k \in {1, -1}
      PROVE  Cardinality(Of(A \cup B, k)) = Cardinality(Of(A, k)) + Cardinality(Of(B, k))
  <2>1. Of(A \cup B, k) = Of(A, k) \cup Of(B, k) /\ Of(A, k) \cap Of(B, k) = {}
    OBVIOUS
  <2>2. IsFiniteSet(Of(A, k)) /\ IsFiniteSet(Of(B, k)) /\ Cardinality(Of(A, k)) \in Nat /\ Cardinality(Of(B, k)) \in Nat
    BY <1>2
  <2> HIDE DEF Of
  <2>3. /\ Cardinality(Of(A, k) \cup Of(B, k)) = Cardinality(Of(A, k)) + Cardinality(Of(B, k)) - Cardinality({})
        /\ Cardinality({}) = 0
    <3>1. Cardinality(Of(A, k) \cup Of(B, k))
            = Cardinality(Of(A, k)) + Cardinality(Of(B, k)) - Cardinality(Of(A, k) \cap Of(B, k))
      BY <2>2, FS_Union
    <3> QED
      BY <2>1, <3>1, FS_EmptySet
  <2>4. Cardinality(Of(A, k) \cup Of(B, k)) = Cardinality(Of(A, k)) + Cardinality(Of(B, k))
    BY <2>2, <2>3
  <2> QED
    BY <2>1, <2>4
<1>4. \A S : Weekly!Issued(S) = Cardinality(Of(S, 1)) - Cardinality(Of(S, -1))
  BY WeeklyCounts DEF Weekly!Issued
<1> HIDE DEF Of
<1>5. /\ Cardinality(Of(A, 1)) \in Nat /\ Cardinality(Of(A, -1)) \in Nat
      /\ Cardinality(Of(B, 1)) \in Nat /\ Cardinality(Of(B, -1)) \in Nat
  BY <1>2
<1>6. /\ Cardinality(Of(A \cup B, 1)) = Cardinality(Of(A, 1)) + Cardinality(Of(B, 1))
      /\ Cardinality(Of(A \cup B, -1)) = Cardinality(Of(A, -1)) + Cardinality(Of(B, -1))
  BY <1>3
<1>7. /\ Weekly!Issued(A) = Cardinality(Of(A, 1)) - Cardinality(Of(A, -1))
      /\ Weekly!Issued(B) = Cardinality(Of(B, 1)) - Cardinality(Of(B, -1))
      /\ Weekly!Issued(A \cup B) = Cardinality(Of(A \cup B, 1)) - Cardinality(Of(A \cup B, -1))
  BY <1>4
<1> QED
  BY <1>5, <1>6, <1>7

StampedIn(D) == {n \in 0 .. MaxBlock : stamp[n] \in D}

\* Between the closes of two days lie the blocks stamped after the first day and up to the second.
LEMMA NetIsTheDifference ==
  ASSUME MaxBlock \in Nat, Published \in Nat, ReportType, NEW a \in Int, NEW b \in Int, a <= b,
         NEW m, NEW n, Closes(m, a), Closes(n, b)
  PROVE  /\ Weekly!totalSupply(m) \in Int /\ Weekly!totalSupply(n) \in Int
         /\ Weekly!Issued(StampedIn(a + 1 .. b)) \in Int
         /\ Weekly!totalSupply(n) = Weekly!totalSupply(m) + Weekly!Issued(StampedIn(a + 1 .. b))
<1>1. /\ m \in 0 .. MaxBlock /\ n \in 0 .. MaxBlock
      /\ \A k \in 0 .. MaxBlock : stamp[k] < a + 1 <=> k <= m
      /\ \A k \in 0 .. MaxBlock : stamp[k] < b + 1 <=> k <= n
  BY DEF Closes
<1>2. \A k \in 0 .. MaxBlock : stamp[k] \in Nat
  BY DEF ReportType
<1>3. m <= n
  <2>1. stamp[m] < a + 1 /\ stamp[m] \in Nat
    BY <1>1, <1>2
  <2>2. stamp[m] < b + 1
    BY <2>1
  <2> QED
    BY <1>1, <2>2
<1>4. StampedIn(a + 1 .. b) = m + 1 .. n
  <2>1. ASSUME NEW k \in 0 .. MaxBlock
        PROVE  stamp[k] \in a + 1 .. b <=> k \in m + 1 .. n
    <3>1. stamp[k] \in a + 1 .. b <=> ~(stamp[k] < a + 1) /\ stamp[k] < b + 1
      BY <1>2
    <3>2. k \in m + 1 .. n <=> ~(k <= m) /\ k <= n
      BY <1>1
    <3> QED
      BY <1>1, <3>1, <3>2
  <2>2. m + 1 .. n \in SUBSET (0 .. MaxBlock)
    BY <1>1
  <2> QED
    BY <2>1, <2>2 DEF StampedIn
<1>5. /\ 0 .. m \in SUBSET (0 .. MaxBlock) /\ m + 1 .. n \in SUBSET (0 .. MaxBlock)
      /\ (0 .. m) \cap (m + 1 .. n) = {} /\ 0 .. n = (0 .. m) \cup (m + 1 .. n)
  BY <1>1, <1>3
<1>6. /\ Weekly!Issued(0 .. m) \in Int /\ Weekly!Issued(m + 1 .. n) \in Int
      /\ Weekly!Issued((0 .. m) \cup (m + 1 .. n)) = Weekly!Issued(0 .. m) + Weekly!Issued(m + 1 .. n)
  BY <1>5, IssuedAddsUp
<1>7. Weekly!totalSupply(m) = Weekly!Issued(0 .. m) /\ Weekly!totalSupply(n) = Weekly!Issued((0 .. m) \cup (m + 1 .. n))
  BY <1>5 DEF Weekly!totalSupply
<1> QED
  BY <1>4, <1>6, <1>7

\* The index's figure for the days between two closes is that difference, and one more if a day of them is wrong.
LEMMA NetOfDays ==
  ASSUME Weekly!WeeklyAssumption, ReportType, NEW a \in Int, NEW b \in Int, a <= b,
         NEW m, NEW n, Closes(m, a), Closes(n, b)
  PROVE  /\ Weekly!totalSupply(m) \in Int /\ Weekly!totalSupply(n) \in Int /\ Weekly!net(a + 1 .. b) \in Int
         /\ Weekly!totalSupply(n) - Weekly!totalSupply(m) = Weekly!net(a + 1 .. b) <=> wrong \notin a + 1 .. b
<1>1. MaxBlock \in Nat /\ Published \in Nat /\ Weekly!Blocks = 0 .. MaxBlock
  BY Calendar
<1>2. /\ Weekly!totalSupply(m) \in Int /\ Weekly!totalSupply(n) \in Int
      /\ Weekly!Issued(StampedIn(a + 1 .. b)) \in Int
      /\ Weekly!totalSupply(n) = Weekly!totalSupply(m) + Weekly!Issued(StampedIn(a + 1 .. b))
  BY <1>1, NetIsTheDifference
<1>3. Weekly!net(a + 1 .. b) = Weekly!Issued(StampedIn(a + 1 .. b)) + (IF wrong \in a + 1 .. b THEN 1 ELSE 0)
  BY <1>1 DEF Weekly!net, StampedIn
<1>4. CASE wrong \in a + 1 .. b
  BY <1>2, <1>3, <1>4
<1>5. CASE wrong \notin a + 1 .. b
  BY <1>2, <1>3, <1>5
<1> QED
  BY <1>4, <1>5

\* Every day of the record has a close.
LEMMA EveryDayCloses ==
  ASSUME MaxBlock \in Nat, Published \in Nat, ReportType, NEW d \in Int, stamp[0] <= d
  PROVE  \E n : Closes(n, d)
<1> DEFINE By == {n \in 0 .. MaxBlock : stamp[n] < d + 1}
<1>1. /\ \A n \in 0 .. MaxBlock : stamp[n] \in Nat
      /\ \A m, n \in 0 .. MaxBlock : m <= n => stamp[m] <= stamp[n]
  BY DEF ReportType
<1>2. 0 \in By
  BY <1>1
<1>3. By \in SUBSET (0 .. MaxBlock)
  OBVIOUS
<1>4. PICK n \in By : \A k \in By : n >= k
  <2> HIDE DEF By
  <2>1. By # {} /\ MaxBlock \in Int
    BY <1>2
  <2> QED
    BY <1>3, <2>1, GreatestOf
<1>5. ASSUME NEW m \in 0 .. MaxBlock
      PROVE  stamp[m] < d + 1 <=> m <= n
  <2>1. n \in 0 .. MaxBlock /\ stamp[n] < d + 1
    BY <1>4
  <2>2. CASE m <= n
    <3>1. stamp[m] <= stamp[n] /\ stamp[m] \in Nat /\ stamp[n] \in Nat
      BY <1>1, <2>1, <2>2
    <3> QED
      BY <2>1, <2>2, <3>1
  <2>3. CASE ~(m <= n)
    <3>1. m \notin By
      <4> HIDE DEF By
      <4> QED
        BY <1>4, <2>1, <2>3
    <3> QED
      BY <2>3, <3>1
  <2> QED
    BY <2>2, <2>3
<1> QED
  BY <1>4, <1>5 DEF Closes

LEMMA CloseOfIs ==
  ASSUME Weekly!WeeklyAssumption, NEW d, NEW n, Closes(n, d)
  PROVE  Weekly!CloseOf(d) = n
<1> DEFINE By == {m \in Weekly!Blocks : stamp[m] < d + 1}
<1>1. n \in 0 .. MaxBlock /\ MaxBlock \in Nat
  BY Calendar DEF Closes
<1>2. \A m : m \in By <=> m \in 0 .. n
  BY <1>1, Calendar DEF Closes
<1> HIDE DEF By
<1>3. By = 0 .. n
  BY <1>2
<1>4. \A x \in 0 .. n : (\A y \in 0 .. n : x >= y) <=> x = n
  BY <1>1
<1>5. Weekly!Latest(By) = n
  BY <1>1, <1>3, <1>4 DEF Weekly!Latest
<1> QED
  BY <1>5 DEF Weekly!CloseOf, By

LEMMA FirstAndLastRead ==
  ASSUME Weekly!WeeklyAssumption, ReportType, DOMAIN reads # {}
  PROVE  /\ Weekly!FirstRead \in DOMAIN reads /\ Weekly!FirstRead \in 0 .. Published - 1
         /\ \A d \in Int : d >= Weekly!FirstRead =>
              /\ Weekly!LastReadBy(d) \in DOMAIN reads /\ Weekly!LastReadBy(d) \in 0 .. Published - 1
              /\ Weekly!LastReadBy(d) <= d
<1>1. DOMAIN reads \in SUBSET (0 .. Published - 1) /\ Published - 1 \in Int
  BY Calendar DEF ReportType
<1>2. DOMAIN reads \in SUBSET Nat
  BY <1>1
<1>3. \E x \in DOMAIN reads : \A y \in DOMAIN reads : x <= y
  BY <1>2, LeastOf
<1>4. Weekly!FirstRead \in DOMAIN reads
  BY <1>3 DEF Weekly!FirstRead, Weekly!Earliest
<1>5. ASSUME NEW d \in Int, d >= Weekly!FirstRead
      PROVE  Weekly!LastReadBy(d) \in DOMAIN reads /\ Weekly!LastReadBy(d) <= d
  <2> DEFINE By == {r \in DOMAIN reads : r <= d}
  <2>1. By \in SUBSET (0 .. Published - 1)
    BY <1>1
  <2>2. By # {}
    BY <1>4, <1>5
  <2>3. \E x \in By : \A y \in By : x >= y
    <3> HIDE DEF By
    <3> QED
      BY <1>1, <2>1, <2>2, GreatestOf
  <2>4. Weekly!Latest(By) \in By
    <3> HIDE DEF By
    <3> QED
      BY <2>3 DEF Weekly!Latest
  <2> QED
    BY <2>4 DEF Weekly!LastReadBy
<1> QED
  BY <1>1, <1>4, <1>5

\* The close of a day that was not read, rebuilt from one that was: true where the index is right.
LEMMA ClosesFromIs ==
  ASSUME Weekly!WeeklyAssumption, ReportType, ReadsAreCloses, DOMAIN reads # {}, NEW d \in recordFirst .. Published - 1
  PROVE  /\ Weekly!closesFrom[d] \in Int
         /\ Weekly!totalSupply(Weekly!CloseOf(d)) \in Int
         /\ wrong = -1 => Weekly!closesFrom[d] = Weekly!totalSupply(Weekly!CloseOf(d))
<1>1. /\ MaxBlock \in Nat /\ Published \in Nat /\ recordFirst \in 0 .. Published - 1 /\ stamp[0] <= recordFirst
      /\ Weekly!reportWindow.to = Published - 1 /\ stamp[0] \in Nat /\ d \in Nat
  <2>1. /\ MaxBlock \in Nat /\ Published \in Nat /\ Weekly!reportWindow.to = Published - 1
    BY Calendar
  <2>2. /\ recordFirst \in 0 .. Published - 1 /\ stamp[0] <= recordFirst /\ stamp \in [0 .. MaxBlock -> 0 .. Published]
    BY DEF ReportType
  <2> QED
    BY <2>1, <2>2
<1>2. PICK n : Closes(n, d)
  BY <1>1, EveryDayCloses
<1>3. Weekly!CloseOf(d) = n
  BY <1>2, CloseOfIs
<1>4. Weekly!closesFrom[d] =
        IF d >= Weekly!FirstRead
        THEN Weekly!totalSupply(reads[Weekly!LastReadBy(d)]) + Weekly!net(Weekly!LastReadBy(d) + 1 .. d)
        ELSE Weekly!totalSupply(reads[Weekly!FirstRead]) - Weekly!net(d + 1 .. Weekly!FirstRead)
  BY <1>1 DEF Weekly!closesFrom
<1>5. Weekly!FirstRead \in DOMAIN reads /\ Weekly!FirstRead \in 0 .. Published - 1
  BY FirstAndLastRead
<1>6. CASE d >= Weekly!FirstRead
  <2>1. PICK r \in DOMAIN reads : r = Weekly!LastReadBy(d) /\ r \in 0 .. Published - 1 /\ r <= d
    BY <1>1, <1>6, FirstAndLastRead
  <2>2. Closes(reads[r], r) /\ r \in Int
    BY <2>1 DEF ReadsAreCloses
  <2>3. /\ Weekly!totalSupply(reads[r]) \in Int /\ Weekly!totalSupply(n) \in Int /\ Weekly!net(r + 1 .. d) \in Int
        /\ Weekly!totalSupply(n) - Weekly!totalSupply(reads[r]) = Weekly!net(r + 1 .. d) <=> wrong \notin r + 1 .. d
    BY <1>1, <1>2, <2>1, <2>2, NetOfDays
  <2>4. wrong = -1 => wrong \notin r + 1 .. d
    BY <2>1
  <2>5. Weekly!closesFrom[d] = Weekly!totalSupply(reads[r]) + Weekly!net(r + 1 .. d)
    BY <1>4, <1>6, <2>1
  <2> QED
    BY <1>3, <2>3, <2>4, <2>5
<1>7. CASE ~(d >= Weekly!FirstRead)
  <2>1. PICK r \in DOMAIN reads : r = Weekly!FirstRead /\ r \in 0 .. Published - 1 /\ d <= r
    BY <1>1, <1>5, <1>7
  <2>2. Closes(reads[r], r) /\ r \in Int
    BY <2>1 DEF ReadsAreCloses
  <2>3. /\ Weekly!totalSupply(reads[r]) \in Int /\ Weekly!totalSupply(n) \in Int /\ Weekly!net(d + 1 .. r) \in Int
        /\ Weekly!totalSupply(reads[r]) - Weekly!totalSupply(n) = Weekly!net(d + 1 .. r) <=> wrong \notin d + 1 .. r
    BY <1>1, <1>2, <2>1, <2>2, NetOfDays
  <2>4. wrong = -1 => wrong \notin d + 1 .. r
    BY <1>1
  <2>5. Weekly!closesFrom[d] = Weekly!totalSupply(reads[r]) - Weekly!net(d + 1 .. r)
    BY <1>4, <1>7, <2>1
  <2> QED
    BY <1>3, <2>3, <2>4, <2>5
<1> QED
  BY <1>6, <1>7

\* The highest close before the week is a day of the record, and none before the week closed higher.
LEMMA PriorHighIs ==
  ASSUME Weekly!WeeklyAssumption, ReportType, ReadsAreCloses, DOMAIN reads # {},
         recordFirst <= Weekly!reportWindow.prevFrom
  PROVE  /\ Weekly!priorHigh \in recordFirst .. Weekly!reportWindow.from - 1
         /\ \A e \in recordFirst .. Weekly!reportWindow.from - 1 :
              Weekly!closesFrom[Weekly!priorHigh] >= Weekly!closesFrom[e]
<1> DEFINE first == recordFirst
           last == Weekly!reportWindow.from - 1
           highest == {d \in first .. last : \A e \in first .. last : Weekly!closesFrom[d] >= Weekly!closesFrom[e]}
<1>1. /\ Published \in Nat /\ first \in Int /\ last \in Int /\ first <= last /\ first >= 0
      /\ \A d \in first .. last : d \in recordFirst .. Published - 1
  <2>1. /\ Published \in Nat /\ Weekly!reportWindow.from = Published - WeekLength /\ WeekLength \in Nat \ {0}
        /\ Weekly!reportWindow.prevFrom = Published - 2 * WeekLength
    BY Calendar
  <2>2. recordFirst \in 0 .. Published - 1
    BY DEF ReportType
  <2> QED
    BY <2>1, <2>2
<1>2. \A d \in first .. last : Weekly!closesFrom[d] \in Int
  BY <1>1, ClosesFromIs
<1>3. \E d \in first .. last : \A e \in first .. last : Weekly!closesFrom[d] >= Weekly!closesFrom[e]
  <2> HIDE DEF first, last
  <2> QED
    BY <1>1, <1>2, PeakOf
<1>4. highest # {}
  BY <1>3
<1>5. \A d \in highest : Weekly!Entered(d) \in Nat
  <2>1. Weekly!FirstRead \in Nat
    BY <1>1, FirstAndLastRead
  <2>2. \A d \in highest : d \in Nat
    BY <1>1
  <2> HIDE DEF highest
  <2> QED
    BY <2>1, <2>2 DEF Weekly!Entered
<1>6. \E d \in highest : \A e \in highest : Weekly!Entered(d) <= Weekly!Entered(e)
  <2> DEFINE Places == {Weekly!Entered(d) : d \in highest}
  <2> HIDE DEF highest
  <2>1. Places \in SUBSET Nat /\ Places # {}
    BY <1>4, <1>5
  <2>2. PICK p \in Places : \A q \in Places : p <= q
    <3> HIDE DEF Places
    <3> QED
      BY <2>1, LeastOf
  <2> QED
    BY <2>2
<1>7. Weekly!priorHigh = CHOOSE d \in highest : \A e \in highest : Weekly!Entered(d) <= Weekly!Entered(e)
  BY DEF Weekly!priorHigh
<1>8. Weekly!priorHigh \in highest
  <2> HIDE DEF highest
  <2> QED
    BY <1>6, <1>7
<1> QED
  BY <1>8

\* Once everything is read, the highest close before the week is read as well, and the report built on both.
LEMMA ReadHighestKeeps ==
  ASSUME Weekly!WeeklyAssumption, ReportInv, Weekly!ReadHighest
  PROVE  ReportInv'
<1>1. /\ ReportType /\ ReportCovers /\ ReadsAreCloses
      /\ phase = "next" /\ todo = {} /\ UNCHANGED <<stamp, minted, wrong, recordFirst, reads>>
      /\ IF Weekly!priorHigh \in DOMAIN reads \/ rounds = 3
         THEN phase' = "build" /\ todo' = todo
         ELSE todo' = {Weekly!priorHigh} /\ phase' = phase
  BY DEF ReportInv, Weekly!ReadHighest, Weekly!series
<1>2. recordFirst <= Weekly!reportWindow.prevFrom /\ Weekly!supplyReadDays \subseteq DOMAIN reads
  BY <1>1 DEF ReportCovers
<1>3. DOMAIN reads # {}
  <2>1. Published - 1 \in Weekly!supplyReadDays
    BY Calendar
  <2> QED
    BY <1>2, <2>1
<1>4. Weekly!priorHigh \in 0 .. Published - 1
  <2>1. Weekly!priorHigh \in recordFirst .. Weekly!reportWindow.from - 1
    BY <1>1, <1>2, <1>3, PriorHighIs
  <2>2. /\ Published \in Nat /\ Weekly!reportWindow.from = Published - WeekLength /\ WeekLength \in Nat \ {0}
        /\ recordFirst \in 0 .. Published - 1
    BY <1>1, Calendar DEF ReportType
  <2> QED
    BY <2>1, <2>2
<1>5. todo' \in SUBSET (0 .. Published - 1)
  BY <1>1, <1>4
<1>6. ReportType' /\ ReadsAreCloses'
  BY <1>1, <1>5 DEF ReportType, ReadsAreCloses, Closes
<1>7. phase' \in {"build", "next"}
  BY <1>1
<1>8. SearchStands'
  BY <1>7 DEF SearchStands
<1>9. ReportCovers'
  <2>1. Weekly!supplyReadDays' = Weekly!supplyReadDays /\ Weekly!reportWindow' = Weekly!reportWindow
    BY DEF Weekly!supplyReadDays, Weekly!reportWindow
  <2> QED
    BY <1>1, <1>2, <1>7, <2>1 DEF ReportCovers
<1> QED
  BY <1>6, <1>8, <1>9 DEF ReportInv

\* The highest close before the week depends on the chain, the index and the reads only.
LEMMA SamePriorHigh ==
  ASSUME UNCHANGED <<stamp, minted, wrong, recordFirst, reads>>
  PROVE  Weekly!priorHigh' = Weekly!priorHigh
<1>1. Weekly!reportWindow' = Weekly!reportWindow
  BY DEF Weekly!reportWindow
<1>2. Weekly!FirstRead' = Weekly!FirstRead /\ \A d : Weekly!LastReadBy(d)' = Weekly!LastReadBy(d)
  BY DEF Weekly!FirstRead, Weekly!LastReadBy, Weekly!Earliest, Weekly!Latest
<1>3. \A n, D : Weekly!totalSupply(n)' = Weekly!totalSupply(n) /\ Weekly!net(D)' = Weekly!net(D)
  BY DEF Weekly!totalSupply, Weekly!net, Weekly!Issued
<1>4. Weekly!closesFrom' = Weekly!closesFrom
  BY <1>1, <1>2, <1>3 DEF Weekly!closesFrom
<1>5. \A d : Weekly!Entered(d)' = Weekly!Entered(d)
  BY <1>2 DEF Weekly!Entered
<1> QED
  BY <1>1, <1>4, <1>5 DEF Weekly!priorHigh

LEMMA BuildKeeps ==
  ASSUME Weekly!WeeklyAssumption, ReportInv, Weekly!buildReport
  PROVE  ReportInv'
<1>1. /\ ReportType /\ ReportCovers /\ ReadsAreCloses
      /\ phase = "build" /\ UNCHANGED <<stamp, minted, wrong, recordFirst, todo, reads>>
      /\ phase' = IF Weekly!supplyReadDays \subseteq DOMAIN reads /\ Weekly!priorHigh \in DOMAIN reads
                  THEN "drafted" ELSE "failed"
  BY DEF ReportInv, Weekly!buildReport, Weekly!series
<1>2. ReportType' /\ ReadsAreCloses'
  BY <1>1 DEF ReportType, ReadsAreCloses, Closes
<1>3. phase' \in {"drafted", "failed"}
  BY <1>1
<1>4. SearchStands'
  BY <1>3 DEF SearchStands
<1>5. ReportCovers'
  <2>1. Weekly!supplyReadDays' = Weekly!supplyReadDays /\ Weekly!reportWindow' = Weekly!reportWindow
    BY DEF Weekly!supplyReadDays, Weekly!reportWindow
  <2>2. Weekly!priorHigh' = Weekly!priorHigh
    BY <1>1, SamePriorHigh
  <2> QED
    BY <1>1, <1>3, <2>1, <2>2 DEF ReportCovers
<1> QED
  BY <1>2, <1>4, <1>5 DEF ReportInv

LEMMA ReportInvIsEnough ==
  ASSUME Weekly!WeeklyAssumption, ReportInv
  PROVE  ReportIsTrue
<1>1. /\ ReportType /\ ReadsAreCloses /\ ReportCovers
      /\ MaxBlock \in Nat /\ Published \in Nat
      /\ DOMAIN reads \in SUBSET (0 .. Published - 1)
  BY Calendar DEF ReportInv, ReportType
<1>2. Weekly!CloseIsTheLastBlockBefore
  BY <1>1, CloseOfIs DEF ReadsAreCloses, Weekly!CloseIsTheLastBlockBefore
<1>3. Weekly!ChecksFindTheWrongDay
  <2>1. ASSUME NEW p \in Weekly!Consecutive
        PROVE  Weekly!supplyChecks(p[1], p[2]) <=> wrong \notin p[1] + 1 .. p[2]
    <3>1. p[1] \in DOMAIN reads /\ p[2] \in DOMAIN reads /\ p[1] < p[2]
      BY DEF Weekly!Consecutive
    <3>2. PICK a \in DOMAIN reads, b \in DOMAIN reads : a = p[1] /\ b = p[2]
      BY <3>1
    <3>3. a \in Int /\ b \in Int /\ a <= b /\ Closes(reads[a], a) /\ Closes(reads[b], b)
      BY <1>1, <3>1, <3>2 DEF ReadsAreCloses
    <3>4. Weekly!totalSupply(reads[b]) - Weekly!totalSupply(reads[a]) = Weekly!net(a + 1 .. b) <=> wrong \notin a + 1 .. b
      BY <1>1, <3>3, NetOfDays
    <3> QED
      BY <3>2, <3>4 DEF Weekly!supplyChecks
  <2> QED
    BY <2>1 DEF Weekly!ChecksFindTheWrongDay, Weekly!supplyOk
<1>4. ASSUME phase = "drafted", wrong = -1
      PROVE  Weekly!newHigh <=> \A d \in recordFirst .. Weekly!reportWindow.from - 1 :
                                  Weekly!totalSupply(Weekly!CloseOf(d)) < Weekly!WeekHigh
  <2>1. /\ Weekly!supplyReadDays \subseteq DOMAIN reads /\ Weekly!priorHigh \in DOMAIN reads
        /\ recordFirst <= Weekly!reportWindow.prevFrom
    BY <1>1, <1>4 DEF ReportCovers
  <2>2. DOMAIN reads # {}
    BY <2>1
  <2> DEFINE before == recordFirst .. Weekly!reportWindow.from - 1
             Supply(d) == Weekly!totalSupply(Weekly!CloseOf(d))
  <2>3. PICK h \in before : h = Weekly!priorHigh /\ \A e \in before : Weekly!closesFrom[h] >= Weekly!closesFrom[e]
    BY <1>1, <2>1, <2>2, PriorHighIs
  <2>4. \A d \in before : d \in recordFirst .. Published - 1
    <3>1. Published \in Nat /\ Weekly!reportWindow.from = Published - WeekLength /\ WeekLength \in Nat \ {0}
      BY Calendar
    <3> QED
      BY <1>1, <3>1 DEF ReportType
  <2>5. \A d \in before : Supply(d) \in Int /\ Weekly!closesFrom[d] = Supply(d)
    BY <1>1, <1>4, <2>2, <2>4, ClosesFromIs
  <2>6. Weekly!totalSupply(reads[Weekly!priorHigh]) = Supply(h)
    <3>1. h \in DOMAIN reads
      BY <2>1, <2>3
    <3>2. Weekly!CloseOf(h) = reads[h]
      BY <1>1, <3>1, CloseOfIs DEF ReadsAreCloses
    <3> QED
      BY <2>3, <3>2
  <2>7. Weekly!WeekHigh \in Int
    <3> DEFINE from == Weekly!reportWindow.from
               to == Weekly!reportWindow.to
               high == [d \in from .. to |-> Weekly!totalSupply(reads[d])]
    <3>1. from \in Int /\ to \in Int /\ from <= to /\ \A d \in from .. to : d \in DOMAIN reads
      <4>1. /\ from = Published - WeekLength /\ to = Published - 1 /\ WeekLength \in Nat \ {0} /\ Published \in Nat
            /\ Weekly!supplyReadDays = Published - 2 * WeekLength - 1 .. Published - 1
        BY Calendar
      <4>2. from .. to \in SUBSET Weekly!supplyReadDays
        BY <4>1
      <4> QED
        BY <2>1, <4>1, <4>2
    <3>2. ASSUME NEW d \in from .. to
          PROVE  Weekly!totalSupply(reads[d]) \in Int
      <4>1. Closes(reads[d], d) /\ d \in Int
        BY <1>1, <3>1 DEF ReadsAreCloses
      <4> QED
        BY <1>1, <4>1, NetOfDays
    <3>3. \A d \in from .. to : high[d] \in Int
      BY <3>2
    <3>4. PICK m \in from .. to : \A n \in from .. to : high[m] >= high[n]
      <4> HIDE DEF from, to, high
      <4> QED
        BY <3>1, <3>3, PeakOf
    <3> DEFINE S == {Weekly!totalSupply(reads[d]) : d \in from .. to}
    <3>5. high[m] \in S /\ \A y \in S : high[m] >= y
      BY <3>4
    <3>6. S \in SUBSET Int
      BY <3>2
    <3>7. Weekly!WeekHigh = Weekly!Latest(S)
      BY DEF Weekly!WeekHigh
    <3> HIDE DEF S, high
    <3>8. Weekly!Latest(S) \in S
      BY <3>5 DEF Weekly!Latest
    <3> QED
      BY <3>6, <3>7, <3>8
  <2>8. Weekly!newHigh <=> Weekly!WeekHigh > Supply(h)
    BY <2>6 DEF Weekly!newHigh
  <2>9. \A e \in before : Supply(h) >= Supply(e)
    BY <2>3, <2>5
  <2> HIDE DEF before, Supply
  <2>10. Weekly!newHigh <=> \A d \in before : Supply(d) < Weekly!WeekHigh
    BY <2>3, <2>5, <2>7, <2>8, <2>9
  <2> QED
    BY <2>10 DEF before, Supply
<1>5. Weekly!NewHighIsTrue
  BY <1>4 DEF Weekly!NewHighIsTrue
<1> QED
  BY <1>2, <1>3, <1>5 DEF ReportIsTrue

\* scripts/weekly*.mjs, for any chain and any week: each day's close is the last block before midnight,
\* a check fails exactly where index and chain disagree, and a new high is one.
THEOREM TheReportIsTrue == JobsSpec => []ReportIsTrue
<1>1. JobsInit => ReportInv
  BY JobsAssumption, ReportStarts DEF JobsInit
<1>2. ASSUME ReportInv, [JobsNext]_jobsVars
      PROVE  ReportInv'
  <2>1. CASE UNCHANGED weeklyVars
    <3>1. UNCHANGED <<stamp, minted, wrong, recordFirst, phase, todo, lo, hi, step, reads>>
      BY <2>1 DEF weeklyVars
    <3>2. /\ Weekly!supplyReadDays' = Weekly!supplyReadDays /\ Weekly!reportWindow' = Weekly!reportWindow
          /\ Weekly!Midnight' = Weekly!Midnight
      BY <3>1 DEF Weekly!supplyReadDays, Weekly!reportWindow, Weekly!Midnight, Weekly!NextDay, Weekly!Latest
    <3>3. Weekly!priorHigh' = Weekly!priorHigh
      BY <3>1, SamePriorHigh
    <3>4. ReportType' /\ ReadsAreCloses'
      BY <1>2, <3>1 DEF ReportInv, ReportType, ReadsAreCloses, Closes
    <3>5. SearchStands' /\ ReportCovers'
      BY <1>2, <3>1, <3>2, <3>3 DEF ReportInv, SearchStands, ReportCovers
    <3> QED
      BY <3>4, <3>5 DEF ReportInv
  <2>2. CASE Weekly!Next
    BY <1>2, <2>2, JobsAssumption, SearchKeeps, FoundKeeps, ReadHighestKeeps, BuildKeeps DEF Weekly!Next, Weekly!Step
  <2> QED
    BY <1>2, <2>1, <2>2 DEF JobsNext, PostingStep, WeeklyStep, jobsVars
<1>3. ReportInv => ReportIsTrue
  BY JobsAssumption, ReportInvIsEnough
<1> QED
  BY <1>1, <1>2, <1>3, PTL DEF JobsSpec
=============================================================================
