---------------------------- MODULE EscrowProofs ----------------------------
(***************************************************************************)
(* What a STRICT budget is for, for every value of the constants: the      *)
(* server's accounts agree with its lease rows (Conservation), and, with   *)
(* sound timing and no late Reconcile, all holders together never serve    *)
(* more than the cap (NoOverspend), because the caches and the pool        *)
(* implement an Escrow (ImplementsEscrow).                                 *)
(*                                                                         *)
(* All three speak of sums over the lease rows.  Total adds the values of  *)
(* a function on a finite set in the order CHOOSE picks them; the first    *)
(* section proves that the order does not matter.  An induction over       *)
(* finite sets is done by a smallest counterexample, which the             *)
(* well-foundedness of strict inclusion provides.                          *)
(***************************************************************************)
EXTENDS LeaseAccountingProofs, FiniteSetTheorems

-----------------------------------------------------------------------------
(* Sums over finite sets *)

\* The element a sum over s takes first.
Some(s) == CHOOSE x \in s : TRUE

\* g gives, for every subset of S, the sum of f over it.
IsPartialSums(f, S, g) ==
    g = [s \in SUBSET S |-> IF s = {} THEN 0 ELSE f[Some(s)] + g[s \ {Some(s)}]]

PartialSums(f) ==
    CHOOSE g : g = [s \in SUBSET DOMAIN f |->
                      IF s = {} THEN 0 ELSE f[Some(s)] + g[s \ {Some(s)}]]

\* Total is the last of the partial sums: the one over all of f's domain.
LEMMA TotalIsPartialSum == ASSUME NEW f PROVE Total(f) = PartialSums(f)[DOMAIN f]
BY DEF Total, PartialSums, Some

\* Any set of subsets of a finite set has one with no other below it: instead of
\* an induction, the smallest set of which a claim fails.
LEMMA SmallestSubset ==
    ASSUME NEW S, IsFiniteSet(S), NEW C, C \subseteq SUBSET S, C # {}
    PROVE  \E s \in C : \A u \in C : u \subseteq s => u = s
<1>1. IsWellFoundedOn(StrictSubsetOrdering(S), SUBSET S)
  BY FS_StrictSubsetOrderingWellFounded, FS_FiniteSubsetsOfFinite
<1>2. PICK s \in C : \A u \in C : ~(<<u, s>> \in StrictSubsetOrdering(S))
  BY <1>1, WFMin
<1>3. \A u \in C : u \subseteq s => u = s
  BY <1>2 DEF StrictSubsetOrdering
<1> QED
  BY <1>3

LEMMA SomeOf == ASSUME NEW s, s # {} PROVE Some(s) \in s
BY DEF Some

\* Partial sums are determined by the numbers they add.
LEMMA SumsAgree ==
    ASSUME NEW f, NEW k, NEW S, NEW T, NEW g, NEW h,
           IsPartialSums(f, S, g), IsPartialSums(k, T, h),
           NEW U \in SUBSET (S \cap T), IsFiniteSet(U), \A x \in U : f[x] = k[x]
    PROVE  \A s \in SUBSET U : g[s] = h[s]
<1> DEFINE C == {s \in SUBSET U : g[s] # h[s]}
<1> SUFFICES ASSUME C # {} PROVE FALSE
  OBVIOUS
<1>0. C \subseteq SUBSET U
  OBVIOUS
<1>1. PICK s \in C : \A u \in C : u \subseteq s => u = s
  <2> HIDE DEF C
  <2> QED
    BY <1>0, SmallestSubset
<1>2. /\ g[s] = IF s = {} THEN 0 ELSE f[Some(s)] + g[s \ {Some(s)}]
      /\ h[s] = IF s = {} THEN 0 ELSE k[Some(s)] + h[s \ {Some(s)}]
  BY DEF IsPartialSums
<1>3. s # {}
  BY <1>2
<1>4. Some(s) \in s
  BY <1>3, SomeOf
<1>5. s \ {Some(s)} \in SUBSET U /\ s \ {Some(s)} \notin C
  BY <1>1, <1>4
<1> QED
  BY <1>2, <1>3, <1>4, <1>5

\* The recursion that defines them has a solution.
LEMMA SumsExist ==
    ASSUME NEW f, NEW S, IsFiniteSet(S)
    PROVE  \E g : IsPartialSums(f, S, g)
<1> DEFINE C == {s \in SUBSET S : ~ \E g : IsPartialSums(f, s, g)}
           Sums(s) == CHOOSE g : IsPartialSums(f, s, g)
<1> SUFFICES ASSUME C # {} PROVE FALSE
  OBVIOUS
<1>0. C \subseteq SUBSET S
  OBVIOUS
<1>1. PICK m \in C : \A u \in C : u \subseteq m => u = m
  <2> HIDE DEF C
  <2> QED
    BY <1>0, SmallestSubset
<1>2. ASSUME NEW u \in SUBSET m, u # m PROVE IsPartialSums(f, u, Sums(u))
  BY <1>1, <1>2
<1> HIDE DEF Sums
<1> DEFINE G == [s \in SUBSET m |->
                   IF s = {} THEN 0
                   ELSE f[Some(s)] + Sums(s \ {Some(s)})[s \ {Some(s)}]]
<1>3. ASSUME NEW s \in SUBSET m, s # {}
      PROVE  G[s \ {Some(s)}] = Sums(s \ {Some(s)})[s \ {Some(s)}]
  <2> DEFINE u == s \ {Some(s)}
             v == u \ {Some(u)}
  <2>1. u \in SUBSET m /\ u # m
    BY <1>3, SomeOf
  <2>2. IsPartialSums(f, u, Sums(u))
    BY <1>2, <2>1
  <2>3. Sums(u)[u] = IF u = {} THEN 0 ELSE f[Some(u)] + Sums(u)[v]
    BY <2>2 DEF IsPartialSums
  <2>4. CASE u = {}
    BY <2>1, <2>3, <2>4
  <2>5. CASE u # {}
    <3>1. v \in SUBSET m /\ v # m /\ v \in SUBSET u
      BY <2>1, <2>5, SomeOf
    <3>2. IsPartialSums(f, v, Sums(v))
      BY <1>2, <3>1
    <3>3. IsFiniteSet(v)
      BY <3>1, FS_Subset
    <3>4. Sums(u)[v] = Sums(v)[v]
      <4> HIDE DEF u, v
      <4> QED
      BY <2>2, <3>1, <3>2, <3>3, SumsAgree
    <3> QED
      BY <2>1, <2>3, <2>5, <3>4
  <2> QED
    BY <2>4, <2>5
<1>4. IsPartialSums(f, m, G)
  BY <1>3 DEF IsPartialSums
<1> QED
  BY <1>1, <1>4

\* So PartialSums, which picks a solution, is one.
LEMMA PartialSumsOf ==
    ASSUME NEW f, NEW S, IsFiniteSet(S), DOMAIN f = S
    PROVE  IsPartialSums(f, S, PartialSums(f))
<1> DEFINE P(g) == IsPartialSums(f, S, g)
<1>1. \E g : P(g)
  BY SumsExist
<1>2. PartialSums(f) = CHOOSE g : P(g)
  BY DEF PartialSums, IsPartialSums
<1> HIDE DEF P
<1>3. P(CHOOSE g : P(g))
  BY <1>1
<1> QED
  BY <1>2, <1>3 DEF P

LEMMA SumsAreIntegers ==
    ASSUME NEW S, IsFiniteSet(S), NEW f \in [S -> Int], NEW g, IsPartialSums(f, S, g)
    PROVE  \A s \in SUBSET S : g[s] \in Int
<1> DEFINE C == {s \in SUBSET S : g[s] \notin Int}
<1> SUFFICES ASSUME C # {} PROVE FALSE
  OBVIOUS
<1>1. C \subseteq SUBSET S
  OBVIOUS
<1>2. PICK s \in C : \A u \in C : u \subseteq s => u = s
  <2> HIDE DEF C
  <2> QED
    BY <1>1, SmallestSubset
<1>3. g[s] = IF s = {} THEN 0 ELSE f[Some(s)] + g[s \ {Some(s)}]
  BY DEF IsPartialSums
<1>4. s # {} /\ Some(s) \in s
  BY <1>3, SomeOf
<1>5. g[s \ {Some(s)}] \in Int
  BY <1>2, <1>4
<1> QED
  BY <1>3, <1>4, <1>5

\* Any element may be taken first: if s were the smallest set for which it is not
\* so, take Some(s) and x off it in either order.
LEMMA SumsSplit ==
    ASSUME NEW S, IsFiniteSet(S), NEW f \in [S -> Int], NEW g, IsPartialSums(f, S, g)
    PROVE  \A s \in SUBSET S : \A x \in s : g[s] = f[x] + g[s \ {x}]
<1> DEFINE C == {s \in SUBSET S : \E x \in s : g[s] # f[x] + g[s \ {x}]}
<1> SUFFICES ASSUME C # {} PROVE FALSE
  OBVIOUS
<1>1. C \subseteq SUBSET S
  OBVIOUS
<1>2. PICK s \in C : \A u \in C : u \subseteq s => u = s
  <2> HIDE DEF C
  <2> QED
    BY <1>1, SmallestSubset
<1>3. PICK x \in s : g[s] # f[x] + g[s \ {x}]
  OBVIOUS
<1> DEFINE y == Some(s)
<1>4. y \in s
  BY <1>3, SomeOf
<1>5. \A u \in SUBSET S : g[u] = IF u = {} THEN 0 ELSE f[Some(u)] + g[u \ {Some(u)}]
  BY DEF IsPartialSums
<1>6. g[s] = f[y] + g[s \ {y}]
  BY <1>3, <1>5
<1> HIDE DEF y
<1>7. x # y
  BY <1>3, <1>6
<1>8. g[s \ {y}] = f[x] + g[(s \ {y}) \ {x}] /\ g[s \ {x}] = f[y] + g[(s \ {x}) \ {y}]
  <2>1. s \ {y} \in SUBSET S /\ s \ {y} # s /\ x \in s \ {y}
    BY <1>4, <1>7
  <2>2. s \ {x} \in SUBSET S /\ s \ {x} # s /\ y \in s \ {x}
    BY <1>3, <1>4, <1>7
  <2>3. s \ {y} \notin C /\ s \ {x} \notin C
    BY <1>2, <2>1, <2>2
  <2>4. \A u \in SUBSET S : u \notin C => \A z \in u : g[u] = f[z] + g[u \ {z}]
    OBVIOUS
  <2> HIDE DEF C
  <2> QED
    BY <2>1, <2>2, <2>3, <2>4
<1>9. (s \ {y}) \ {x} = (s \ {x}) \ {y}
  <2> HIDE DEF C
  <2> QED
    OBVIOUS
<1>10. g[s \ {y}] = f[x] + g[(s \ {x}) \ {y}]
  BY <1>8, <1>9, Zenon
<1>11. f[x] \in Int /\ f[y] \in Int /\ g[(s \ {x}) \ {y}] \in Int
  BY <1>3, <1>4, SumsAreIntegers
<1> HIDE DEF C
<1> QED
  BY <1>3, <1>6, <1>8, <1>10, <1>11

\* The same of Total.
LEMMA TotalSplit ==
    ASSUME NEW S, IsFiniteSet(S), NEW f \in [S -> Int]
    PROVE  /\ IsPartialSums(f, S, PartialSums(f))
           /\ Total(f) = PartialSums(f)[S]
           /\ Total(f) \in Int
           /\ \A x \in S : Total(f) = f[x] + PartialSums(f)[S \ {x}]
<1>1. DOMAIN f = S
  OBVIOUS
<1>2. IsPartialSums(f, S, PartialSums(f))
  BY <1>1, PartialSumsOf
<1>3. Total(f) = PartialSums(f)[S]
  BY <1>1, TotalIsPartialSum
<1>4. S \in SUBSET S
  OBVIOUS
<1>5. Total(f) \in Int
  BY <1>2, <1>3, <1>4, SumsAreIntegers
<1>6. \A x \in S : Total(f) = f[x] + PartialSums(f)[S \ {x}]
  BY <1>2, <1>3, <1>4, SumsSplit
<1> QED
  BY <1>2, <1>3, <1>5, <1>6

\* Changing one value changes the sum by as much.
LEMMA TotalUpdate ==
    ASSUME NEW S, IsFiniteSet(S), NEW f \in [S -> Int], NEW k \in [S -> Int],
           NEW x \in S, \A y \in S : y # x => k[y] = f[y]
    PROVE  Total(k) = Total(f) - f[x] + k[x]
<1> DEFINE P == PartialSums(f)
           Q == PartialSums(k)
           rest == S \ {x}
<1>1. P[rest] = Q[rest]
  <2>1. IsPartialSums(f, S, P) /\ IsPartialSums(k, S, Q)
    BY TotalSplit
  <2>2. rest \in SUBSET (S \cap S) /\ IsFiniteSet(rest) /\ \A y \in rest : f[y] = k[y]
    BY FS_Subset
  <2> HIDE DEF P, Q, rest
  <2>3. \A s \in SUBSET rest : P[s] = Q[s]
    BY <2>1, <2>2, SumsAgree
  <2> QED
    BY <2>3
<1>2. IsPartialSums(f, S, P)
  BY TotalSplit
<1>3. P[rest] \in Int
  BY <1>2, SumsAreIntegers
<1>4. Total(f) = f[x] + P[rest] /\ Total(k) = k[x] + Q[rest]
  BY TotalSplit
<1> QED
  BY <1>1, <1>3, <1>4

\* Larger values have a larger sum.
LEMMA TotalMonotone ==
    ASSUME NEW S, IsFiniteSet(S), NEW f \in [S -> Int], NEW k \in [S -> Int],
           \A x \in S : f[x] <= k[x]
    PROVE  Total(f) <= Total(k)
<1> DEFINE P == PartialSums(f)
           Q == PartialSums(k)
           C == {s \in SUBSET S : ~(P[s] <= Q[s])}
<1>1. IsPartialSums(f, S, P) /\ IsPartialSums(k, S, Q)
  BY TotalSplit
<1>2. Total(f) = P[S] /\ Total(k) = Q[S]
  BY TotalSplit
<1> HIDE DEF P, Q
<1> SUFFICES ASSUME C # {} PROVE FALSE
  BY <1>2
<1>3. C \subseteq SUBSET S
  OBVIOUS
<1>4. PICK s \in C : \A u \in C : u \subseteq s => u = s
  <2> HIDE DEF C
  <2> QED
    BY <1>3, SmallestSubset
<1> DEFINE y == Some(s)
           r == s \ {y}
<1>5. /\ P[s] = IF s = {} THEN 0 ELSE f[y] + P[r]
      /\ Q[s] = IF s = {} THEN 0 ELSE k[y] + Q[r]
  BY <1>1 DEF IsPartialSums
<1>6. s # {} /\ y \in s
  BY <1>5, SomeOf
<1>7. r \in SUBSET S /\ P[r] <= Q[r]
  BY <1>4, <1>6
<1>8. P[r] \in Int /\ Q[r] \in Int /\ f[y] \in Int /\ k[y] \in Int /\ f[y] <= k[y]
  BY <1>1, <1>6, <1>7, SumsAreIntegers
<1> HIDE DEF y, r
<1> QED
  BY <1>5, <1>6, <1>7, <1>8

\* The sum of sums.
LEMMA TotalAdds ==
    ASSUME NEW S, IsFiniteSet(S), NEW f \in [S -> Int], NEW k \in [S -> Int],
           NEW m \in [S -> Int], \A x \in S : m[x] = f[x] + k[x]
    PROVE  Total(m) = Total(f) + Total(k)
<1> DEFINE P == PartialSums(f)
           Q == PartialSums(k)
           R == PartialSums(m)
           C == {s \in SUBSET S : R[s] # P[s] + Q[s]}
<1>1. IsPartialSums(f, S, P) /\ IsPartialSums(k, S, Q) /\ IsPartialSums(m, S, R)
  BY TotalSplit
<1>2. Total(f) = P[S] /\ Total(k) = Q[S] /\ Total(m) = R[S]
  BY TotalSplit
<1> HIDE DEF P, Q, R
<1> SUFFICES ASSUME C # {} PROVE FALSE
  BY <1>2
<1>3. C \subseteq SUBSET S
  OBVIOUS
<1>4. PICK s \in C : \A u \in C : u \subseteq s => u = s
  <2> HIDE DEF C
  <2> QED
    BY <1>3, SmallestSubset
<1> DEFINE y == Some(s)
           r == s \ {y}
<1>5. /\ P[s] = IF s = {} THEN 0 ELSE f[y] + P[r]
      /\ Q[s] = IF s = {} THEN 0 ELSE k[y] + Q[r]
      /\ R[s] = IF s = {} THEN 0 ELSE m[y] + R[r]
  BY <1>1 DEF IsPartialSums
<1>6. s # {} /\ y \in s
  BY <1>5, SomeOf
<1>7. r \in SUBSET S /\ R[r] = P[r] + Q[r]
  BY <1>4, <1>6
<1>8. P[r] \in Int /\ Q[r] \in Int /\ f[y] \in Int /\ k[y] \in Int /\ m[y] = f[y] + k[y]
  BY <1>1, <1>6, <1>7, SumsAreIntegers
<1> HIDE DEF y, r
<1> QED
  BY <1>5, <1>6, <1>7, <1>8

\* A sum of zeros is its own double.
LEMMA TotalOfZeros ==
    ASSUME NEW S, IsFiniteSet(S), NEW f \in [S -> Int], \A x \in S : f[x] = 0
    PROVE  Total(f) = 0
<1>1. Total(f) = Total(f) + Total(f)
  <2>1. \A x \in S : f[x] = f[x] + f[x]
    OBVIOUS
  <2> QED
    BY <2>1, TotalAdds
<1>2. Total(f) \in Int
  BY TotalSplit
<1>3. \A n \in Int : n = n + n => n = 0
  OBVIOUS
<1> QED
  BY <1>1, <1>2, <1>3, Zenon

-----------------------------------------------------------------------------
(* Sums over the lease rows *)

LEMMA LeaseIdsFinite == IsFiniteSet(LeaseIds)
<1>1. IsFiniteSet(0..MaxNonce)
  BY PoolAssumption, FS_Interval
<1> QED
  BY <1>1, PoolAssumption, FS_Product DEF LeaseIds

\* What is leased out and not attested, and what is attested, of each lease.
Outstanding == [id \in LeaseIds |->
                  IF IsLive(id) THEN lease[id].amount - lease[id].spent ELSE 0]
Attested == [id \in LeaseIds |-> lease[id].spent]

\* What can still be served from each lease, with what was served; and the least
\* the server must have booked as spent of it.
Exposed == [id \in LeaseIds |-> IF IsLive(id) THEN lease[id].amount ELSE served[id]]

LEMMA SumTypes ==
    ASSUME TypeOK
    PROVE  /\ Outstanding \in [LeaseIds -> Int]
           /\ Attested \in [LeaseIds -> Int]
           /\ Exposed \in [LeaseIds -> Int]
           /\ Settled \in [LeaseIds -> Int]
           /\ served \in [LeaseIds -> Int]
<1>1. \A id \in LeaseIds : /\ lease[id].amount \in Nat
                           /\ lease[id].spent \in Nat
                           /\ served[id] \in Nat
  BY DEF TypeOK, PoolTypeOK, Row
<1>2. served \in [LeaseIds -> Int]
  BY DEF TypeOK
<1> QED
  BY <1>1, <1>2 DEF Outstanding, Attested, Exposed, Settled

\* Each sum changes by what the row of id changes.
SumsFollow(id) ==
    /\ Total(Outstanding') = Total(Outstanding) - Outstanding[id] + Outstanding'[id]
    /\ Total(Attested') = Total(Attested) - lease[id].spent + lease'[id].spent
    /\ Total(Exposed') = Total(Exposed) - Exposed[id] + Exposed'[id]
    /\ Total(Settled') = Total(Settled) - Settled[id] + Settled'[id]

LEMMA OneRow ==
    ASSUME TypeOK, TypeOK', UNCHANGED served,
           NEW id \in LeaseIds, \A i \in LeaseIds : i # id => lease'[i] = lease[i]
    PROVE  SumsFollow(id)
<1>1. /\ Outstanding \in [LeaseIds -> Int] /\ Outstanding' \in [LeaseIds -> Int]
      /\ Attested \in [LeaseIds -> Int] /\ Attested' \in [LeaseIds -> Int]
      /\ Exposed \in [LeaseIds -> Int] /\ Exposed' \in [LeaseIds -> Int]
      /\ Settled \in [LeaseIds -> Int] /\ Settled' \in [LeaseIds -> Int]
  <2>1. \A i \in LeaseIds : /\ lease'[i].amount \in Nat
                            /\ lease'[i].spent \in Nat
                            /\ served'[i] \in Nat
    BY DEF TypeOK, PoolTypeOK, Row
  <2> QED
    BY <2>1, SumTypes DEF Outstanding, Attested, Exposed, Settled
<1>2. \A i \in LeaseIds : i # id => /\ Outstanding'[i] = Outstanding[i]
                                    /\ Attested'[i] = Attested[i]
                                    /\ Exposed'[i] = Exposed[i]
                                    /\ Settled'[i] = Settled[i]
  BY DEF Outstanding, Attested, Exposed, Settled, IsLive
<1>3. Total(Outstanding') = Total(Outstanding) - Outstanding[id] + Outstanding'[id]
  BY <1>1, <1>2, LeaseIdsFinite, TotalUpdate
<1>4. Total(Attested') = Total(Attested) - Attested[id] + Attested'[id]
  BY <1>1, <1>2, LeaseIdsFinite, TotalUpdate
<1>5. Total(Exposed') = Total(Exposed) - Exposed[id] + Exposed'[id]
  BY <1>1, <1>2, LeaseIdsFinite, TotalUpdate
<1>6. Total(Settled') = Total(Settled) - Settled[id] + Settled'[id]
  BY <1>1, <1>2, LeaseIdsFinite, TotalUpdate
<1> QED
  BY <1>3, <1>4, <1>5, <1>6 DEF SumsFollow, Attested

\* The accounts against the rows.
Books ==
    /\ leasedOut = Total(Outstanding)
    /\ attested = Total(Attested)
    /\ attested <= spent

\* Nothing is exposed beyond the cap, and the pool has booked what is settled.
Covered ==
    /\ Total(Exposed) <= Cap
    /\ Total(Settled) <= spent

LEMMA TotalsAreIntegers ==
    ASSUME TypeOK
    PROVE  /\ Total(Outstanding) \in Int /\ Total(Attested) \in Int
           /\ Total(Exposed) \in Int /\ Total(Settled) \in Int /\ Total(served) \in Int
<1>1. /\ Outstanding \in [LeaseIds -> Int] /\ Attested \in [LeaseIds -> Int]
      /\ Exposed \in [LeaseIds -> Int] /\ Settled \in [LeaseIds -> Int]
      /\ served \in [LeaseIds -> Int]
  BY SumTypes
<1> QED
  BY <1>1, LeaseIdsFinite, TotalSplit

\* What is exposed is what is settled and what is outstanding.
LEMMA ExposedSplits ==
    ASSUME TypeOK
    PROVE  Total(Exposed) = Total(Settled) + Total(Outstanding)
<1>1. /\ Outstanding \in [LeaseIds -> Int]
      /\ Exposed \in [LeaseIds -> Int] /\ Settled \in [LeaseIds -> Int]
  BY SumTypes
<1>2. \A id \in LeaseIds : Exposed[id] = Settled[id] + Outstanding[id]
  <2>1. \A id \in LeaseIds : /\ lease[id].amount \in Nat
                             /\ lease[id].spent \in Nat
                             /\ served[id] \in Nat
    BY DEF TypeOK, PoolTypeOK, Row
  <2> QED
    BY <2>1 DEF Exposed, Settled, Outstanding
<1> QED
  BY <1>1, <1>2, LeaseIdsFinite, TotalAdds

-----------------------------------------------------------------------------
(* The pool's handlers and the accounts *)

\* A grant is within what is available, which Balanced makes the cap less what is
\* leased out and booked: no more than the cap less what is exposed.
LEMMA GrantBooks ==
    ASSUME TypeOK, TypeOK', Balanced, Books, UNCHANGED served,
           NEW id \in LeaseIds, NEW units \in Nat, BudgetGrant(id, units),
           UnitsOK(id)
    PROVE  Books' /\ (Covered => Covered')
<1>1. CASE UNCHANGED poolVars
  <2>1. UNCHANGED <<Outstanding, Attested, Exposed, Settled>>
    BY <1>1 DEF poolVars, Outstanding, Attested, Exposed, Settled, IsLive
  <2> QED
    BY <1>1, <2>1 DEF Books, Covered, poolVars
<1>2. CASE ~ UNCHANGED poolVars
  <2> DEFINE grant == Least(units, available)
  <2>1. /\ lease[id].state = "none"
        /\ lease' = [lease EXCEPT ![id] = [state |-> "live", amount |-> grant,
                                           spent |-> 0, grantedMs |-> now]]
        /\ leasedOut' = leasedOut + grant
        /\ UNCHANGED <<spent, attested>>
    BY <1>2 DEF BudgetGrant
  <2>2. /\ available \in Int /\ leasedOut \in Int /\ spent \in Int /\ attested \in Int
        /\ Cap \in Nat /\ lease[id].amount \in Nat /\ lease[id].spent \in Nat
        /\ lease \in [LeaseIds -> Row] /\ served[id] \in Nat
    BY PoolAssumption DEF TypeOK, PoolTypeOK, Row
  <2>3. grant \in Int /\ grant <= available
    BY <2>2 DEF Least
  <2> HIDE DEF grant
  <2>4. /\ lease'[id] = [state |-> "live", amount |-> grant, spent |-> 0, grantedMs |-> now]
        /\ \A i \in LeaseIds : i # id => lease'[i] = lease[i]
    BY <2>1, <2>2
  <2>5. served[id] = 0 /\ lease[id].spent = 0
    BY <2>1, <2>2 DEF UnitsOK
  <2>6. SumsFollow(id)
    BY <2>4, OneRow
  <2>7. /\ Total(Outstanding') = Total(Outstanding) + grant
        /\ Total(Attested') = Total(Attested)
        /\ Total(Exposed') = Total(Exposed) + grant
        /\ Total(Settled') = Total(Settled)
    <3>1. /\ Outstanding[id] = 0 /\ Exposed[id] = 0 /\ Settled[id] = 0
          /\ Outstanding'[id] = grant /\ Exposed'[id] = grant /\ Settled'[id] = 0
          /\ lease'[id].spent = 0
      BY <2>1, <2>3, <2>4, <2>5 DEF Outstanding, Exposed, Settled, IsLive
    <3> QED
      BY <2>3, <2>5, <2>6, <3>1, TotalsAreIntegers DEF SumsFollow
  <2> QED
    BY <2>1, <2>2, <2>3, <2>7, ExposedSplits, TotalsAreIntegers
       DEF Books, Covered, Balanced
<1> QED
  BY <1>1, <1>2

\* A report moves what it newly attests from outstanding to settled.
LEMMA ReportBooks ==
    ASSUME TypeOK, TypeOK', Books, UNCHANGED served,
           NEW id \in LeaseIds, NEW units \in Nat, BudgetReport(id, units)
    PROVE  Books' /\ (Covered => Covered')
<1>1. CASE ~ IsLive(id)
  <2>1. UNCHANGED <<Outstanding, Attested, Exposed, Settled>>
    BY <1>1 DEF BudgetReport, poolVars, Outstanding, Attested, Exposed, Settled, IsLive
  <2> QED
    BY <1>1, <2>1 DEF BudgetReport, Books, Covered, poolVars
<1>2. CASE IsLive(id)
  <2> DEFINE folded == Folded(lease[id], units)
             delta == folded - lease[id].spent
  <2>1. /\ lease' = [lease EXCEPT ![id].spent = folded]
        /\ leasedOut' = leasedOut - delta
        /\ spent' = spent + delta
        /\ attested' = attested + delta
    BY <1>2 DEF BudgetReport
  <2>2. /\ leasedOut \in Int /\ spent \in Int /\ attested \in Int /\ Cap \in Nat
        /\ lease[id].amount \in Nat /\ lease[id].spent \in Nat
        /\ lease \in [LeaseIds -> Row] /\ lease[id] \in Row
    BY PoolAssumption DEF TypeOK, PoolTypeOK, Row
  <2>3. folded \in Nat
    BY <2>2, FoldedType
  <2> HIDE DEF folded
  <2>4. /\ lease'[id] = [lease[id] EXCEPT !.spent = folded]
        /\ \A i \in LeaseIds : i # id => lease'[i] = lease[i]
    BY <2>1, <2>2
  <2>5. /\ Outstanding[id] = lease[id].amount - lease[id].spent
        /\ Outstanding'[id] = lease[id].amount - folded
        /\ Exposed'[id] = Exposed[id] /\ Exposed[id] \in Int
        /\ Settled[id] = lease[id].spent /\ Settled'[id] = folded
        /\ lease'[id].spent = folded
    BY <1>2, <2>2, <2>4 DEF Outstanding, Exposed, Settled, IsLive, Row
  <2>6. /\ Total(Outstanding') = Total(Outstanding) - delta
        /\ Total(Attested') = Total(Attested) + delta
        /\ Total(Exposed') = Total(Exposed)
        /\ Total(Settled') = Total(Settled) + delta
    <3>1. SumsFollow(id)
      BY <2>4, OneRow
    <3> QED
      BY <2>2, <2>3, <2>5, <3>1, TotalsAreIntegers DEF SumsFollow
  <2> QED
    BY <2>1, <2>2, <2>3, <2>6, TotalsAreIntegers DEF Books, Covered
<1> QED
  BY <1>1, <1>2

\* A return settles the lease at what was served of it, and exposes no more.
LEMMA ReturnBooks ==
    ASSUME TypeOK, TypeOK', Books, UNCHANGED served,
           NEW id \in LeaseIds, NEW units \in Nat, BudgetReturn(id, units),
           UnitsOK(id), UnitsOK(id)'
    PROVE  Books' /\ (Covered => Covered')
<1>1. CASE ~ IsLive(id)
  <2>1. UNCHANGED <<Outstanding, Attested, Exposed, Settled>>
    BY <1>1 DEF BudgetReturn, poolVars, Outstanding, Attested, Exposed, Settled, IsLive
  <2> QED
    BY <1>1, <2>1 DEF BudgetReturn, Books, Covered, poolVars
<1>2. CASE IsLive(id)
  <2> DEFINE folded == Folded(lease[id], units)
             delta == folded - lease[id].spent
  <2>1. /\ lease' = [lease EXCEPT ![id].spent = folded, ![id].state = "returned"]
        /\ leasedOut' = leasedOut - (lease[id].amount - lease[id].spent)
        /\ spent' = spent + delta
        /\ attested' = attested + delta
    BY <1>2 DEF BudgetReturn
  <2>2. /\ leasedOut \in Int /\ spent \in Int /\ attested \in Int /\ Cap \in Nat
        /\ lease[id].amount \in Nat /\ lease[id].spent \in Nat /\ served[id] \in Nat
        /\ lease \in [LeaseIds -> Row] /\ lease[id] \in Row
    BY PoolAssumption DEF TypeOK, PoolTypeOK, Row
  <2>3. folded \in Nat
    BY <2>2, FoldedType
  <2> HIDE DEF folded
  <2>4. /\ lease'[id] = [lease[id] EXCEPT !.spent = folded, !.state = "returned"]
        /\ \A i \in LeaseIds : i # id => lease'[i] = lease[i]
    BY <2>1, <2>2
  <2>5. /\ Outstanding[id] = lease[id].amount - lease[id].spent
        /\ Outstanding'[id] = 0
        /\ Exposed[id] = lease[id].amount /\ Exposed'[id] = served[id]
        /\ Settled[id] = lease[id].spent /\ Settled'[id] = served[id]
        /\ lease'[id].spent = folded
    BY <1>2, <2>2, <2>4 DEF Outstanding, Exposed, Settled, IsLive, Row
  <2>6. served[id] = folded /\ served[id] <= lease[id].amount
    BY <2>2, <2>4 DEF UnitsOK, Row
  <2>7. /\ Total(Outstanding') = Total(Outstanding) - (lease[id].amount - lease[id].spent)
        /\ Total(Attested') = Total(Attested) + delta
        /\ Total(Exposed') = Total(Exposed) - (lease[id].amount - served[id])
        /\ Total(Settled') = Total(Settled) + delta
    <3>1. SumsFollow(id)
      BY <2>4, OneRow
    <3> QED
      BY <2>2, <2>3, <2>5, <2>6, <3>1, TotalsAreIntegers DEF SumsFollow
  <2> QED
    BY <2>1, <2>2, <2>3, <2>6, <2>7, TotalsAreIntegers DEF Books, Covered
<1> QED
  BY <1>1, <1>2

\* A reclaimed lease is booked as spent to its last unit, of which no more than
\* that was served.
LEMMA ExpireBooks ==
    ASSUME TypeOK, TypeOK', Books, UNCHANGED served,
           NEW id \in LeaseIds, Expire(id), UnitsOK(id)
    PROVE  Books' /\ (Covered => Covered')
<1>1. /\ IsLive(id)
      /\ lease' = [lease EXCEPT ![id].state = "expired"]
      /\ leasedOut' = leasedOut - (lease[id].amount - lease[id].spent)
      /\ spent' = spent + (lease[id].amount - lease[id].spent)
      /\ UNCHANGED attested
  BY DEF Expire
<1>2. /\ leasedOut \in Int /\ spent \in Int /\ attested \in Int /\ Cap \in Nat
      /\ lease[id].amount \in Nat /\ lease[id].spent \in Nat /\ served[id] \in Nat
      /\ lease \in [LeaseIds -> Row] /\ lease[id] \in Row
  BY PoolAssumption DEF TypeOK, PoolTypeOK, Row
<1>3. /\ lease'[id] = [lease[id] EXCEPT !.state = "expired"]
      /\ \A i \in LeaseIds : i # id => lease'[i] = lease[i]
  BY <1>1, <1>2
<1>4. /\ Outstanding[id] = lease[id].amount - lease[id].spent
      /\ Outstanding'[id] = 0
      /\ Exposed[id] = lease[id].amount /\ Exposed'[id] = served[id]
      /\ Settled[id] = lease[id].spent /\ Settled'[id] = served[id]
      /\ lease'[id].spent = lease[id].spent
  BY <1>1, <1>2, <1>3 DEF Outstanding, Exposed, Settled, IsLive, Row
<1>5. lease[id].spent <= served[id] /\ served[id] <= lease[id].amount
  BY DEF UnitsOK
<1>6. /\ Total(Outstanding') = Total(Outstanding) - (lease[id].amount - lease[id].spent)
      /\ Total(Attested') = Total(Attested)
      /\ Total(Exposed') = Total(Exposed) - (lease[id].amount - served[id])
      /\ Total(Settled') = Total(Settled) + (served[id] - lease[id].spent)
  <2>1. SumsFollow(id)
    BY <1>3, OneRow
  <2> QED
    BY <1>2, <1>4, <2>1, TotalsAreIntegers DEF SumsFollow
<1> QED
  BY <1>1, <1>2, <1>5, <1>6, TotalsAreIntegers DEF Books, Covered

\* A figure that counts all that is settled lets nothing settled be granted again.
LEMMA ReconcileBooks ==
    ASSUME TypeOK, Books, UNCHANGED served, NEW acked \in 0..Cap, Reconcile(acked)
    PROVE  Books' /\ (Covered /\ Total(Settled) <= acked => Covered')
<1>1. /\ spent' = Largest(attested, acked)
      /\ UNCHANGED <<leasedOut, attested, lease>>
  BY DEF Reconcile
<1>2. UNCHANGED <<Outstanding, Attested, Exposed, Settled>>
  BY <1>1 DEF Outstanding, Attested, Exposed, Settled, IsLive
<1>3. attested \in Int /\ acked \in Int
  BY PoolAssumption DEF TypeOK, PoolTypeOK
<1>4. Largest(attested, acked) \in Int /\ attested <= Largest(attested, acked)
        /\ acked <= Largest(attested, acked)
  BY <1>3 DEF Largest
<1> QED
  BY <1>1, <1>2, <1>3, <1>4, TotalsAreIntegers DEF Books, Covered

\* The figure of a Reconcile under way counts all that was settled when the ledger
\* was read.
CallsOK == \A c \in calls : Total(c.asOf) <= c.acked

\* What the ledger counts is at least what is settled, and within the cap.
LEMMA ReadCounts ==
    ASSUME TypeOK, AccountInv, Covered, NEW acked \in 0..Cap, ControllerReconcile(acked)
    PROVE  Total(Settled) <= acked
<1>1. \A id \in LeaseIds : Settled[id] <= served[id] /\ Settled[id] <= Exposed[id]
  <2>1. \A id \in LeaseIds : /\ served[id] \in Nat /\ lease[id].spent \in Nat
                             /\ lease[id].amount \in Nat /\ UnitsOK(id)
    BY DEF TypeOK, PoolTypeOK, Row, AccountInv
  <2> QED
    BY <2>1 DEF UnitsOK, Settled, Exposed
<1>2. Total(Settled) <= Total(served) /\ Total(Settled) <= Total(Exposed)
  BY <1>1, SumTypes, LeaseIdsFinite, TotalMonotone
<1>3. acked = Least(Total(served), Cap)
  BY DEF ControllerReconcile
<1> QED
  BY <1>2, <1>3, TotalsAreIntegers, PoolAssumption DEF Least, Covered

\* The steps of the server and of the grantor.
ServerStep ==
    \/ \E m \in net : ServerDraw(m) \/ ServerReport(m) \/ ServerReturn(m)
    \/ \E id \in LeaseIds : Reclaim(id)
    \/ \E c \in calls : ServerReconcile(c)

\* Each of them is one handler's step, and serves nothing.
LEMMA ServerBooks ==
    ASSUME TypeOK, TypeOK', Balanced, Books, AccountInv, AccountInv', ServerStep
    PROVE  Books' /\ (~LateReconcile /\ CallsOK /\ Covered => Covered')
<1>1. \A id \in LeaseIds : UnitsOK(id) /\ UnitsOK(id)'
  BY DEF AccountInv
<1>2. ASSUME NEW m \in net, ServerDraw(m) \/ ServerReport(m) \/ ServerReturn(m)
      PROVE  Books' /\ (Covered => Covered')
  <2>1. m.id \in LeaseIds /\ m.units \in Nat
    BY DEF TypeOK, Request
  <2>2. CASE ServerDraw(m)
    BY <1>1, <2>1, <2>2, GrantBooks DEF ServerDraw
  <2>3. CASE ServerReport(m)
    BY <2>1, <2>3, ReportBooks DEF ServerReport
  <2>4. CASE ServerReturn(m)
    BY <1>1, <2>1, <2>4, ReturnBooks DEF ServerReturn
  <2> QED
    BY <1>2, <2>2, <2>3, <2>4
<1>3. ASSUME NEW id \in LeaseIds, Reclaim(id)
      PROVE  Books' /\ (Covered => Covered')
  BY <1>1, <1>3, ExpireBooks DEF Reclaim
<1>4. ASSUME NEW c \in calls, ServerReconcile(c)
      PROVE  Books' /\ (~LateReconcile /\ CallsOK /\ Covered => Covered')
  <2>1. c.acked \in 0..Cap /\ Reconcile(c.acked) /\ UNCHANGED served
    BY <1>4 DEF ServerReconcile, TypeOK, ReconcileCall
  <2>2. ~LateReconcile /\ CallsOK => Total(Settled) <= c.acked
    BY <1>4 DEF ServerReconcile, UpToDate, CallsOK
  <2> QED
    BY <2>1, <2>2, ReconcileBooks
<1> QED
  BY <1>2, <1>3, <1>4 DEF ServerStep

\* The other steps leave the pool alone.
LEMMA OnlyServerMovesPool ==
    ASSUME [Next]_vars, ~ ServerStep
    PROVE  UNCHANGED poolVars
<1>1. Tick \/ (\E acked \in 0..Cap : ControllerReconcile(acked)) => UNCHANGED poolVars
  BY DEF Tick, ControllerReconcile
<1>2. UNCHANGED vars => UNCHANGED poolVars
  BY DEF vars, poolVars
<1>3. ASSUME NEW h \in Holders,
             \/ \E t \in Spenders : SpendStep(h, t)
             \/ \E w \in Slots : Acquire(h, w) \/ RefillStep(h, w)
             \/ ReturnBegin(h) \/ ReturnStep(h)
      PROVE  UNCHANGED poolVars
  <2>1. HolderOnly
    BY <1>3, OthersLeavePool
  <2> QED
    BY <2>1 DEF HolderOnly
<1>4. CASE UNCHANGED vars
  BY <1>2, <1>4
<1>5. CASE Next
  BY <1>1, <1>3, <1>5 DEF Next, ServerStep
<1> QED
  BY <1>4, <1>5

-----------------------------------------------------------------------------
(* Conservation *)

\* Before any grant every sum is 0.
LEMMA InitBooks == Init => Books /\ Covered /\ CallsOK
<1> SUFFICES ASSUME Init PROVE Books /\ Covered /\ CallsOK
  OBVIOUS
<1>1. TypeOK
  BY InitTypeOK
<1>2. \A id \in LeaseIds : /\ Outstanding[id] = 0 /\ Attested[id] = 0
                           /\ Exposed[id] = 0 /\ Settled[id] = 0
  BY DEF Init, PoolInit, NoRow, IsLive, Outstanding, Attested, Exposed, Settled
<1>3. /\ Total(Outstanding) = 0 /\ Total(Attested) = 0
      /\ Total(Exposed) = 0 /\ Total(Settled) = 0
  BY <1>1, <1>2, SumTypes, LeaseIdsFinite, TotalOfZeros
<1> QED
  BY <1>3, PoolAssumption DEF Init, PoolInit, Books, Covered, CallsOK

LEMMA NextBooks ==
    TypeOK /\ TypeOK' /\ AccountInv /\ AccountInv' /\ Balanced /\ Books /\ [Next]_vars
      => Books'
<1> SUFFICES ASSUME TypeOK, TypeOK', AccountInv, AccountInv', Balanced, Books, [Next]_vars
             PROVE  Books'
  OBVIOUS
<1>1. CASE ServerStep
  BY <1>1, ServerBooks
<1>2. CASE ~ ServerStep
  <2>1. UNCHANGED <<leasedOut, spent, attested, lease>>
    BY <1>2, OnlyServerMovesPool DEF poolVars
  <2>2. UNCHANGED <<Outstanding, Attested>>
    BY <2>1 DEF Outstanding, Attested, IsLive
  <2> QED
    BY <2>1, <2>2 DEF Books
<1> QED
  BY <1>1, <1>2

LEMMA BooksInvariant == Spec => []Books
<1>1. TypeOK /\ TypeOK' /\ AccountInv /\ AccountInv' /\ Balanced /\ Books /\ [Next]_vars
        => Books'
  BY NextBooks
<1>2. Init => Books
  BY InitBooks
<1> QED
  BY <1>1, <1>2, TypeCorrect, AccountInvariant, CapIsConserved, PTL DEF Spec

\* The pool's counters never drift from its lease rows, whatever the order of
\* grants, reports, returns, expiries and reconciles (the handlers of
\* src/leasedbudget_integration_test.go:72-165): what is leased out is the
\* unattested part of the live leases, what is attested is what the rows record,
\* and nothing is attested that is not booked as spent.
THEOREM AccountsAgree == Spec => []Conservation
<1>1. Balanced /\ Books => Conservation
  BY DEF Balanced, Books, Outstanding, Attested, Conservation
<1> QED
  BY <1>1, BooksInvariant, CapIsConserved, PTL

-----------------------------------------------------------------------------
(* The cap *)

\* Units are served from live leases only, whose exposure is the whole grant.
LEMMA ServingExposesNothing ==
    ASSUME TypeOK, SpendableIsLive, [Next]_vars, ~ ServerStep
    PROVE  UNCHANGED <<Exposed, Settled, spent>>
<1>1. UNCHANGED <<lease, spent>>
  BY OnlyServerMovesPool DEF poolVars
<1>2. ASSUME NEW id \in LeaseIds, served'[id] # served[id] PROVE IsLive(id)
  BY <1>2, OnlySpendServes, ServesLive
<1> QED
  BY <1>1, <1>2 DEF Exposed, Settled, IsLive

\* Only the controller calls Reconcile.
LEMMA OnlyControllerCalls ==
    ASSUME [Next]_vars, \A acked \in 0..Cap : ~ControllerReconcile(acked)
    PROVE  calls' \subseteq calls
<1>1. ASSUME NEW h \in Holders, NEW t \in Spenders, SpendStep(h, t)
      PROVE  UNCHANGED calls
  <2>1. SpendBegin(h, t) \/ SelfFence(h, t) \/ PaceOut(h, t) => UNCHANGED calls
    BY DEF SpendBegin, SelfFence, PaceOut
  <2>2. \A n \in SpendSizes :
          SpendCached(h, t, n) \/ SpendRefused(h, t, n) => UNCHANGED calls
    BY DEF SpendCached, SpendRefused
  <2>3. TriggerCheck(h, t) \/ AlreadyRefilling(h, t) => UNCHANGED calls
    BY DEF TriggerCheck, AlreadyRefilling
  <2>4. \A w \in Slots : StartRefill(h, t, w) => UNCHANGED calls
    BY DEF StartRefill
  <2> QED
    BY <1>1, <2>1, <2>2, <2>3, <2>4 DEF SpendStep
<1>2. ASSUME NEW h \in Holders, NEW w \in Slots, Acquire(h, w) \/ RefillStep(h, w)
      PROVE  UNCHANGED calls
  <2>1. Acquire(h, w) \/ RefillNotNeeded(h, w) \/ RefillAttest(h, w) \/ RefillDraw(h, w) =>
          UNCHANGED calls
    BY DEF Acquire, RefillNotNeeded, RefillAttest, RefillDraw
  <2>2. RefillReported(h, w) \/ ReportFailed(h, w) \/ RefillSettled(h, w) => UNCHANGED calls
    BY DEF RefillReported, ReportFailed, RefillSettled
  <2>3. RefillStale(h, w) \/ RefillGivesUp(h, w) \/ RefillFresh(h, w) => UNCHANGED calls
    BY DEF RefillStale, RefillGivesUp, RefillFresh
  <2>4. RefillInstall(h, w) \/ RefillDone(h, w) => UNCHANGED calls
    BY DEF RefillInstall, RefillDone
  <2> QED
    BY <1>2, <2>1, <2>2, <2>3, <2>4 DEF RefillStep
<1>3. ASSUME NEW h \in Holders, ReturnBegin(h) \/ ReturnStep(h)
      PROVE  UNCHANGED calls
  BY <1>3 DEF ReturnBegin, ReturnStep, ReturnTake, ReturnCall, ReturnNext, ReturnEnd
<1>4. ASSUME NEW m \in net, ServerDraw(m) \/ ServerReport(m) \/ ServerReturn(m)
      PROVE  UNCHANGED calls
  BY <1>4 DEF ServerDraw, ServerReport, ServerReturn
<1>5. ASSUME NEW id \in LeaseIds, Reclaim(id) PROVE UNCHANGED calls
  BY <1>5 DEF Reclaim
<1>6. ASSUME NEW c \in calls, ServerReconcile(c) PROVE calls' \subseteq calls
  BY <1>6 DEF ServerReconcile
<1>7. Tick \/ UNCHANGED vars => UNCHANGED calls
  BY DEF Tick, vars
<1> QED
  BY <1>1, <1>2, <1>3, <1>4, <1>5, <1>6, <1>7 DEF Next

LEMMA NextCalls ==
    ASSUME TypeOK, AccountInv, Covered, CallsOK, [Next]_vars PROVE CallsOK'
<1>1. ASSUME NEW acked \in 0..Cap, ControllerReconcile(acked) PROVE CallsOK'
  <2>1. calls' = calls \cup {[acked |-> acked, asOf |-> Settled]}
    BY <1>1 DEF ControllerReconcile
  <2>2. Total(Settled) <= acked
    BY <1>1, ReadCounts
  <2> QED
    BY <2>1, <2>2 DEF CallsOK
<1>2. CASE \A acked \in 0..Cap : ~ControllerReconcile(acked)
  BY <1>2, OnlyControllerCalls DEF CallsOK
<1> QED
  BY <1>1, <1>2

LEMMA NextCovered ==
    ~LateReconcile /\ TypeOK /\ TypeOK' /\ AccountInv /\ AccountInv' /\ Balanced /\ Books
      /\ SpendableIsLive /\ CallsOK /\ Covered /\ [Next]_vars => Covered'
<1> SUFFICES ASSUME ~LateReconcile, TypeOK, TypeOK', AccountInv, AccountInv', Balanced,
                    Books, SpendableIsLive, CallsOK, Covered, [Next]_vars
             PROVE  Covered'
  OBVIOUS
<1>1. CASE ServerStep
  BY <1>1, ServerBooks
<1>2. CASE ~ ServerStep
  BY <1>2, ServingExposesNothing DEF Covered
<1> QED
  BY <1>1, <1>2

LEMMA CoveredInvariant == TimingSound /\ ~LateReconcile => (Spec => []Covered)
<1> SUFFICES ASSUME TimingSound, ~LateReconcile PROVE Spec => []Covered
  OBVIOUS
<1>1. TypeOK /\ TypeOK' /\ AccountInv /\ AccountInv' /\ Balanced /\ Books
        /\ SpendableIsLive /\ CallsOK /\ Covered /\ [Next]_vars => Covered' /\ CallsOK'
  BY NextCovered, NextCalls
<1>2. Init => Covered /\ CallsOK
  BY InitBooks
<1>3. Spec => []SpendableIsLive
  BY StopsEarly
<1> QED
  BY <1>1, <1>2, <1>3, TypeCorrect, AccountInvariant, CapIsConserved, BooksInvariant,
     PTL DEF Spec

LEMMA CoveredImplies ==
    ASSUME TypeOK, AccountInv, Covered PROVE NoOverspend
<1>1. \A id \in LeaseIds : served[id] <= Exposed[id]
  <2>1. \A id \in LeaseIds : served[id] \in Nat /\ UnitsOK(id)
    BY DEF TypeOK, AccountInv
  <2> QED
    BY <2>1 DEF UnitsOK, Exposed
<1>2. Total(served) <= Total(Exposed)
  BY <1>1, SumTypes, LeaseIdsFinite, TotalMonotone
<1> QED
  BY <1>2, TotalsAreIntegers, PoolAssumption DEF Covered, NoOverspend

\* For any number of holders and goroutines, and whatever is lost, delayed,
\* crashed, paused, expired or reconciled, the units served never exceed the cap
\* (leasedbudget.go:19-24), provided that
\*   - the budget is untimed, or the clock can be read and skew plus the
\*     gate-to-install pause is within the grantor's lateness; and
\*   - nothing is settled between the controller's reading of the ledger and the
\*     server's taking of the Reconcile that carries the figure (budget.go:161-175),
\*     which nothing in the request lets the server check.
THEOREM CapHolds == TimingSound /\ ~LateReconcile => (Spec => []NoOverspend)
<1> SUFFICES ASSUME TimingSound, ~LateReconcile PROVE Spec => []NoOverspend
  OBVIOUS
<1>1. TypeOK /\ AccountInv /\ Covered => NoOverspend
  BY CoveredImplies
<1>2. Spec => []Covered
  BY CoveredInvariant
<1> QED
  BY <1>1, <1>2, TypeCorrect, AccountInvariant, PTL

-----------------------------------------------------------------------------
(* The escrow *)

LEMMA UnservedType ==
    ASSUME TypeOK, AccountInv
    PROVE  Unserved \in [LeaseIds -> Nat] /\ served \in [LeaseIds -> Nat]
<1>1. served \in [LeaseIds -> Nat]
  BY DEF TypeOK
<1>2. \A id \in LeaseIds : lease[id].amount \in Nat /\ served[id] <= lease[id].amount
  BY DEF TypeOK, PoolTypeOK, Row, AccountInv, UnitsOK
<1> QED
  BY <1>1, <1>2 DEF Unserved

\* A sum of naturals is one.
LEMMA TotalOfNaturals ==
    ASSUME NEW S, IsFiniteSet(S), NEW f \in [S -> Nat]
    PROVE  Total(f) \in Nat
<1> DEFINE zeros == [x \in S |-> 0]
<1>1. zeros \in [S -> Int] /\ f \in [S -> Int] /\ \A x \in S : zeros[x] = 0 /\ zeros[x] <= f[x]
  OBVIOUS
<1> HIDE DEF zeros
<1>2. Total(zeros) = 0 /\ Total(zeros) <= Total(f) /\ Total(f) \in Int
  BY <1>1, TotalOfZeros, TotalMonotone, TotalSplit
<1> QED
  BY <1>2

\* The abstract state of the escrow is well typed and within the cap.
EscrowOK ==
    /\ Unserved \in [LeaseIds -> Nat]
    /\ served \in [LeaseIds -> Nat]
    /\ Total(served) \in Nat
    /\ Total(Unserved) \in Nat
    /\ Total(served) + Total(Unserved) <= Cap

\* What is consumed and what is held is what is exposed.
LEMMA EscrowState ==
    ASSUME TypeOK, AccountInv, Covered PROVE EscrowOK
<1>1. Total(served) \in Nat /\ Total(Unserved) \in Nat
  BY UnservedType, LeaseIdsFinite, TotalOfNaturals
<1>2. /\ served \in [LeaseIds -> Int] /\ Unserved \in [LeaseIds -> Int]
      /\ Exposed \in [LeaseIds -> Int]
  BY UnservedType, SumTypes
<1>3. \A id \in LeaseIds : Exposed[id] = served[id] + Unserved[id]
  <2>1. \A id \in LeaseIds : served[id] \in Nat /\ lease[id].amount \in Nat
    BY DEF TypeOK, PoolTypeOK, Row
  <2> QED
    BY <2>1 DEF Exposed, Unserved
<1>4. Total(Exposed) = Total(served) + Total(Unserved)
  BY <1>2, <1>3, LeaseIdsFinite, TotalAdds
<1> QED
  BY <1>1, <1>4, UnservedType DEF Covered, EscrowOK

LEMMA InitEscrow == Init => E!Init
<1> SUFFICES ASSUME Init PROVE E!Init
  OBVIOUS
<1>1. \A id \in LeaseIds : served[id] = 0 /\ Unserved[id] = 0
  BY DEF Init, PoolInit, NoRow, IsLive, Unserved
<1>2. served \in [LeaseIds -> Int] /\ Unserved \in [LeaseIds -> Int]
  BY <1>1 DEF Init, Unserved
<1>3. Total(served) = 0 /\ Total(Unserved) = 0
  BY <1>1, <1>2, LeaseIdsFinite, TotalOfZeros
<1> QED
  BY <1>3 DEF E!Init

\* However a step that serves nothing changes one row, it sets units aside, gives
\* units up, or does nothing to the escrow.
LEMMA RowMovesEscrow ==
    ASSUME EscrowOK, EscrowOK', UNCHANGED served,
           NEW id \in LeaseIds, \A i \in LeaseIds : i # id => lease'[i] = lease[i]
    PROVE  E!Next \/ UNCHANGED <<Total(served), Total(Unserved)>>
<1> DEFINE k == Unserved'[id] - Unserved[id]
<1>1. /\ Unserved \in [LeaseIds -> Int] /\ Unserved' \in [LeaseIds -> Int]
      /\ k \in Int
  BY DEF EscrowOK
<1>2. \A i \in LeaseIds : i # id => Unserved'[i] = Unserved[i]
  BY DEF Unserved, IsLive
<1>3. /\ Total(Unserved') = Total(Unserved) - Unserved[id] + Unserved'[id]
      /\ Unserved[id] \in Int /\ Unserved'[id] \in Int
  BY <1>1, <1>2, LeaseIdsFinite, TotalUpdate
<1>4. /\ Total(served) \in Nat /\ Total(Unserved) \in Nat /\ Total(Unserved') \in Nat
      /\ Total(served) + Total(Unserved) <= Cap
      /\ Total(served) + Total(Unserved') <= Cap
      /\ Cap \in Nat
  BY PoolAssumption DEF EscrowOK
<1>5. Total(Unserved') = Total(Unserved) + k
  BY <1>3, <1>4
<1> HIDE DEF k
<1>6. CASE k = 0
  BY <1>4, <1>5, <1>6
<1>7. CASE k > 0
  <2>1. k \in 1..Cap /\ Total(served) + Total(Unserved) + k <= Cap
    BY <1>1, <1>4, <1>5, <1>7
  <2> QED
    BY <1>5, <2>1 DEF E!Next, E!Allot
<1>8. CASE k < 0
  <2>1. /\ -k \in 1..Cap /\ -k <= Total(Unserved)
        /\ Total(Unserved') = Total(Unserved) - (-k)
    BY <1>1, <1>4, <1>5, <1>8
  <2> QED
    BY <2>1 DEF E!Next, E!Release
<1> QED
  BY <1>1, <1>6, <1>7, <1>8

LEMMA ServerEscrow ==
    ASSUME TypeOK, EscrowOK, EscrowOK', ServerStep
    PROVE  E!Next \/ UNCHANGED <<Total(served), Total(Unserved)>>
<1>1. lease \in [LeaseIds -> Row]
  BY DEF TypeOK, PoolTypeOK
<1>2. ASSUME NEW m \in net, ServerDraw(m) \/ ServerReport(m) \/ ServerReturn(m)
      PROVE  /\ m.id \in LeaseIds /\ UNCHANGED served
             /\ \A i \in LeaseIds : i # m.id => lease'[i] = lease[i]
  <2>1. m.id \in LeaseIds
    BY DEF TypeOK, Request
  <2>2. ServerDraw(m) => UNCHANGED served /\ \A i \in LeaseIds : i # m.id => lease'[i] = lease[i]
    BY <1>1, <2>1 DEF ServerDraw, BudgetGrant, poolVars
  <2>3. ServerReport(m) => UNCHANGED served /\ \A i \in LeaseIds : i # m.id => lease'[i] = lease[i]
    BY <1>1, <2>1 DEF ServerReport, BudgetReport, poolVars
  <2>4. ServerReturn(m) => UNCHANGED served /\ \A i \in LeaseIds : i # m.id => lease'[i] = lease[i]
    BY <1>1, <2>1 DEF ServerReturn, BudgetReturn, poolVars
  <2> QED
    BY <1>2, <2>1, <2>2, <2>3, <2>4
<1>3. ASSUME NEW id \in LeaseIds, Reclaim(id)
      PROVE  UNCHANGED served /\ \A i \in LeaseIds : i # id => lease'[i] = lease[i]
  BY <1>1, <1>3 DEF Reclaim, Expire
<1>4. ASSUME NEW c \in calls, ServerReconcile(c)
      PROVE  UNCHANGED <<Total(served), Total(Unserved)>>
  <2>1. UNCHANGED <<lease, served>>
    BY <1>4 DEF ServerReconcile, Reconcile
  <2>2. UNCHANGED Unserved
    BY <2>1 DEF Unserved, IsLive
  <2> QED
    BY <2>1, <2>2
<1> QED
  BY <1>2, <1>3, <1>4, RowMovesEscrow DEF ServerStep

\* A Spend consumes units that its live lease holds.
LEMMA SpendEscrow ==
    ASSUME TypeOK, SpendableIsLive, EscrowOK, EscrowOK',
           NEW h \in Holders, NEW t \in Spenders, NEW n \in SpendSizes,
           SpendCached(h, t, n)
    PROVE  E!Next
<1> DEFINE c == PromotedCur(cur[h], nxt[h])
<1>1. c.id \in LeaseIds /\ n \in Nat /\ n > 0
  BY ServedChunk, CacheAssumption DEF SpendCached, TypeOK, LeaseChunk
<1>2. served' = [served EXCEPT ![c.id] = @ + n] /\ UNCHANGED lease
  BY DEF SpendCached, poolVars
<1> HIDE DEF c
<1>3. /\ served \in [LeaseIds -> Int] /\ served' \in [LeaseIds -> Int]
      /\ Unserved \in [LeaseIds -> Int] /\ Unserved' \in [LeaseIds -> Int]
      /\ served[c.id] \in Nat
  BY <1>1 DEF EscrowOK
<1>4. served'[c.id] = served[c.id] + n /\ \A i \in LeaseIds : i # c.id => served'[i] = served[i]
  BY <1>1, <1>2, <1>3
<1>5. IsLive(c.id)
  BY <1>1, <1>3, <1>4, ServesLive
<1>6. /\ Unserved'[c.id] = Unserved[c.id] - n
      /\ \A i \in LeaseIds : i # c.id => Unserved'[i] = Unserved[i]
  <2>1. lease[c.id].amount \in Nat
    BY <1>1 DEF TypeOK, PoolTypeOK, Row
  <2> QED
    BY <1>1, <1>2, <1>3, <1>4, <1>5, <2>1 DEF Unserved, IsLive
<1>7. Total(served') = Total(served) - served[c.id] + served'[c.id]
  BY <1>1, <1>3, <1>4, LeaseIdsFinite, TotalUpdate
<1>8. Total(Unserved') = Total(Unserved) - Unserved[c.id] + Unserved'[c.id]
  BY <1>1, <1>3, <1>6, LeaseIdsFinite, TotalUpdate
<1>9. /\ Total(served) \in Nat /\ Total(Unserved) \in Nat /\ Total(Unserved') \in Nat
      /\ Total(served) + Total(Unserved) <= Cap
      /\ Cap \in Nat
  BY PoolAssumption DEF EscrowOK
<1>10. Unserved[c.id] \in Int
  BY <1>1, <1>3
<1>11. /\ Total(served') = Total(served) + n
       /\ Total(Unserved') = Total(Unserved) - n
  BY <1>1, <1>3, <1>4, <1>6, <1>7, <1>8, <1>9, <1>10
<1>12. n \in 1..Cap /\ n <= Total(Unserved)
  BY <1>1, <1>9, <1>11
<1> QED
  BY <1>11, <1>12 DEF E!Next, E!Consume

LEMMA NextEscrow ==
    TypeOK /\ SpendableIsLive /\ EscrowOK /\ EscrowOK' /\ [Next]_vars
      => [E!Next]_<<Total(served), Total(Unserved)>>
<1> SUFFICES ASSUME TypeOK, SpendableIsLive, EscrowOK, EscrowOK', [Next]_vars
             PROVE  E!Next \/ UNCHANGED <<Total(served), Total(Unserved)>>
  OBVIOUS
<1>1. CASE ServerStep
  BY <1>1, ServerEscrow
<1>2. CASE served' # served
  BY <1>2, OnlySpendServes, SpendEscrow
<1>3. CASE ~ ServerStep /\ served' = served
  <2>1. UNCHANGED lease
    BY <1>3, OnlyServerMovesPool DEF poolVars
  <2>2. UNCHANGED Unserved
    BY <1>3, <2>1 DEF Unserved, IsLive
  <2> QED
    BY <1>3, <2>2
<1> QED
  BY <1>1, <1>2, <1>3

\* Under the same hypotheses the node caches and the pool implement the escrow:
\* however refills, spends, returns, expiries and reconciles interleave, units are
\* set aside only within the cap, consumed only while they are set aside, and given
\* up once (leasedbudget.go:15-24).
THEOREM CachesAreAnEscrow == TimingSound /\ ~LateReconcile => (Spec => ImplementsEscrow)
<1> SUFFICES ASSUME TimingSound, ~LateReconcile PROVE Spec => ImplementsEscrow
  OBVIOUS
<1>1. TypeOK /\ AccountInv /\ Covered => EscrowOK
  BY EscrowState
<1>2. Spec => [](TypeOK /\ SpendableIsLive /\ EscrowOK)
  <2>1. Spec => []Covered /\ []SpendableIsLive
    BY CoveredInvariant, StopsEarly
  <2> QED
    BY <1>1, <2>1, TypeCorrect, AccountInvariant, PTL
<1>3. TypeOK /\ SpendableIsLive /\ EscrowOK /\ EscrowOK' /\ [Next]_vars
        => [E!Next]_<<Total(served), Total(Unserved)>>
  BY NextEscrow
<1>4. Spec => E!Init /\ [][E!Next]_<<Total(served), Total(Unserved)>>
  BY <1>2, <1>3, InitEscrow, PTL DEF Spec
<1> QED
  BY <1>4 DEF ImplementsEscrow, E!Spec

-----------------------------------------------------------------------------
(* Without sound timing *)

\* Units promised to holders, or known to be served, stay within the cap.
Promised == leasedOut + attested <= Cap

\* What is reclaimed of each lease without having been attested.
Tails == [id \in LeaseIds |-> IF lease[id].state = "expired"
                              THEN lease[id].amount - lease[id].spent ELSE 0]

\* Only a grant raises the sum, and it is within what is available.
LEMMA ServerPromises ==
    ASSUME TypeOK, AccountInv, Balanced, Books, Promised, ServerStep
    PROVE  Promised'
<1>1. /\ available \in Int /\ leasedOut \in Int /\ spent \in Int /\ attested \in Int
      /\ Cap \in Nat /\ attested <= spent
      /\ \A id \in LeaseIds : /\ lease[id] \in Row
                              /\ lease[id].amount \in Nat /\ lease[id].spent \in Nat
                              /\ lease[id].spent <= lease[id].amount
  <2>1. \A id \in LeaseIds : UnitsOK(id) /\ served[id] \in Nat
    BY DEF AccountInv, TypeOK
  <2>2. \A id \in LeaseIds : lease[id] \in Row
    BY DEF TypeOK, PoolTypeOK
  <2> QED
    BY <2>1, <2>2, PoolAssumption DEF TypeOK, PoolTypeOK, Books, Row, UnitsOK
<1>2. UNCHANGED poolVars => Promised'
  BY DEF poolVars, Promised
<1>3. ASSUME NEW id \in LeaseIds, NEW units \in Nat, BudgetGrant(id, units)
      PROVE  Promised'
  <2> DEFINE grant == Least(units, available)
  <2>1. CASE lease[id].state = "none" /\ grant > 0
    <3>1. leasedOut' = leasedOut + grant /\ attested' = attested
      BY <1>3, <2>1 DEF BudgetGrant
    <3>2. grant \in Int /\ grant <= available
      BY <1>1 DEF Least
    <3> HIDE DEF grant
    <3> QED
      BY <1>1, <3>1, <3>2 DEF Balanced, Promised
  <2>2. CASE ~ (lease[id].state = "none" /\ grant > 0)
    BY <1>2, <1>3, <2>2 DEF BudgetGrant
  <2> QED
    BY <2>1, <2>2
<1>4. ASSUME NEW id \in LeaseIds, NEW units \in Nat,
             BudgetReport(id, units) \/ BudgetReturn(id, units)
      PROVE  Promised'
  <2> DEFINE folded == Folded(lease[id], units)
  <2>1. folded \in Nat /\ folded <= lease[id].amount
    BY <1>1 DEF Folded, Largest, Least
  <2>2. CASE ~ IsLive(id)
    BY <1>2, <1>4, <2>2 DEF BudgetReport, BudgetReturn
  <2>3. CASE IsLive(id) /\ BudgetReport(id, units)
    <3>1. /\ leasedOut' = leasedOut - (folded - lease[id].spent)
          /\ attested' = attested + (folded - lease[id].spent)
      BY <2>3 DEF BudgetReport
    <3> HIDE DEF folded
    <3> QED
      BY <1>1, <2>1, <3>1 DEF Promised
  <2>4. CASE IsLive(id) /\ BudgetReturn(id, units)
    <3>1. /\ leasedOut' = leasedOut - (lease[id].amount - lease[id].spent)
          /\ attested' = attested + (folded - lease[id].spent)
      BY <2>4 DEF BudgetReturn
    <3> HIDE DEF folded
    <3> QED
      BY <1>1, <2>1, <3>1 DEF Promised
  <2> QED
    BY <1>4, <2>2, <2>3, <2>4
<1>5. ASSUME NEW id \in LeaseIds, Expire(id) PROVE Promised'
  BY <1>1, <1>5 DEF Expire, Promised
<1>6. ASSUME NEW acked, Reconcile(acked) PROVE Promised'
  BY <1>6 DEF Reconcile, Promised
<1>7. \A m \in net : m.id \in LeaseIds /\ m.units \in Nat
  BY DEF TypeOK, Request
<1> QED
  BY <1>3, <1>4, <1>5, <1>6, <1>7
     DEF ServerStep, ServerDraw, ServerReport, ServerReturn, Reclaim, ServerReconcile

LEMMA PromisedInvariant == Spec => []Promised
<1>1. Init => Promised
  BY PoolAssumption DEF Init, PoolInit, Promised
<1>2. TypeOK /\ AccountInv /\ Balanced /\ Books /\ Promised /\ [Next]_vars => Promised'
  <2> SUFFICES ASSUME TypeOK, AccountInv, Balanced, Books, Promised, [Next]_vars PROVE Promised'
    OBVIOUS
  <2>1. CASE ServerStep
    BY <2>1, ServerPromises
  <2>2. CASE ~ ServerStep
    BY <2>2, OnlyServerMovesPool DEF poolVars, Promised
  <2> QED
    BY <2>1, <2>2
<1> QED
  BY <1>1, <1>2, TypeCorrect, AccountInvariant, CapIsConserved, BooksInvariant,
     PTL DEF Spec

LEMMA ServedByRows ==
    ASSUME TypeOK, AccountInv, Books, Promised
    PROVE  Total(served) <= Cap + Total(Tails)
<1> DEFINE promised == [id \in LeaseIds |-> Outstanding[id] + Attested[id]]
           most == [id \in LeaseIds |-> promised[id] + Tails[id]]
<1>1. \A id \in LeaseIds : /\ lease[id] \in Row /\ lease[id].amount \in Nat
                           /\ lease[id].spent \in Nat /\ served[id] \in Nat
                           /\ UnitsOK(id)
  BY DEF TypeOK, PoolTypeOK, Row, AccountInv
<1>2. /\ Outstanding \in [LeaseIds -> Int] /\ Attested \in [LeaseIds -> Int]
      /\ served \in [LeaseIds -> Int]
  BY SumTypes
<1>3. Tails \in [LeaseIds -> Int]
  BY <1>1 DEF Tails
<1>4. promised \in [LeaseIds -> Int] /\ most \in [LeaseIds -> Int]
  BY <1>2, <1>3
<1>5. \A id \in LeaseIds : served[id] <= most[id]
  <2> SUFFICES ASSUME NEW id \in LeaseIds PROVE served[id] <= most[id]
    OBVIOUS
  <2>1. most[id] = Outstanding[id] + Attested[id] + Tails[id]
    OBVIOUS
  <2>2. lease[id].state \in {"none", "live", "returned", "expired"}
    BY <1>1 DEF Row
  <2>3. /\ Outstanding[id] = IF lease[id].state = "live"
                             THEN lease[id].amount - lease[id].spent ELSE 0
        /\ Attested[id] = lease[id].spent
        /\ Tails[id] = IF lease[id].state = "expired"
                       THEN lease[id].amount - lease[id].spent ELSE 0
    BY DEF Outstanding, Attested, Tails, IsLive
  <2> HIDE DEF most
  <2> QED
    BY <1>1, <2>1, <2>2, <2>3 DEF UnitsOK
<1>6. Total(promised) = Total(Outstanding) + Total(Attested)
  <2>1. \A id \in LeaseIds : promised[id] = Outstanding[id] + Attested[id]
    OBVIOUS
  <2> HIDE DEF promised
  <2> QED
    BY <1>2, <1>4, <2>1, LeaseIdsFinite, TotalAdds
<1>7. Total(most) = Total(promised) + Total(Tails)
  <2>1. \A id \in LeaseIds : most[id] = promised[id] + Tails[id]
    OBVIOUS
  <2> HIDE DEF promised, most
  <2> QED
    BY <1>3, <1>4, <2>1, LeaseIdsFinite, TotalAdds
<1> HIDE DEF promised, most
<1>8. Total(served) <= Total(most)
  BY <1>2, <1>4, <1>5, LeaseIdsFinite, TotalMonotone
<1>9. Total(served) \in Int /\ Total(most) \in Int /\ Total(Tails) \in Int
        /\ Total(promised) \in Int /\ Cap \in Nat
  BY <1>2, <1>3, <1>4, LeaseIdsFinite, TotalSplit, PoolAssumption
<1> QED
  BY <1>6, <1>7, <1>8, <1>9, TotalsAreIntegers DEF Books, Promised

\* Whatever the clocks do, however long a holder pauses between the gate and the
\* install, and however late a Reconcile is taken: what is served beyond the cap is no more than the unattested tails
\* of the leases the grantor has reclaimed, the units it booked in their holders'
\* stead (leasedbudget.go:444-445) and a Reconcile may have freed again.
THEOREM OverspendIsBounded == Spec => [](Total(served) <= Cap + Total(Tails))
<1>1. TypeOK /\ AccountInv /\ Books /\ Promised => Total(served) <= Cap + Total(Tails)
  BY ServedByRows
<1> QED
  BY <1>1, TypeCorrect, AccountInvariant, BooksInvariant, PromisedInvariant, PTL

-----------------------------------------------------------------------------
(* Without a Reconcile *)

Reconciled == \E c \in calls : ServerReconcile(c)

\* No Reconcile ever corrects the pool's books.
Unreconciled == [][~ Reconciled]_vars

\* What the server has booked of each lease, and what it has charged to the cap.
Booked == [id \in LeaseIds |-> IF lease[id].state = "expired"
                               THEN lease[id].amount ELSE lease[id].spent]

Tally == spent = Total(Booked) /\ available >= 0

LEMMA BookedType == ASSUME TypeOK PROVE Booked \in [LeaseIds -> Int]
<1>1. \A id \in LeaseIds : lease[id].amount \in Nat /\ lease[id].spent \in Nat
  BY DEF TypeOK, PoolTypeOK, Row
<1> QED
  BY <1>1 DEF Booked

\* A step on one row keeps the tally if it books what the row is charged.
LEMMA OneRowTally ==
    ASSUME TypeOK, TypeOK', Tally, NEW id \in LeaseIds,
           \A i \in LeaseIds : i # id => lease'[i] = lease[i],
           spent' = spent - Booked[id] + Booked'[id], available' >= 0
    PROVE  Tally'
<1>1. Booked \in [LeaseIds -> Int] /\ Booked' \in [LeaseIds -> Int]
  <2>1. \A i \in LeaseIds : lease'[i].amount \in Nat /\ lease'[i].spent \in Nat
    BY DEF TypeOK, PoolTypeOK, Row
  <2> QED
    BY <2>1, BookedType DEF Booked
<1>2. \A i \in LeaseIds : i # id => Booked'[i] = Booked[i]
  BY DEF Booked
<1>3. Total(Booked') = Total(Booked) - Booked[id] + Booked'[id]
  BY <1>1, <1>2, LeaseIdsFinite, TotalUpdate
<1> QED
  BY <1>1, <1>3 DEF Tally, TypeOK, PoolTypeOK

LEMMA HandlersTally ==
    ASSUME TypeOK, TypeOK', Tally, NEW id \in LeaseIds, UnitsOK(id),
           NEW units \in Nat,
           \/ BudgetGrant(id, units)
           \/ BudgetReport(id, units)
           \/ BudgetReturn(id, units)
           \/ Expire(id)
    PROVE  Tally'
<1>1. /\ available \in Int /\ spent \in Int /\ lease \in [LeaseIds -> Row]
      /\ lease[id] \in Row /\ lease[id].amount \in Nat /\ lease[id].spent \in Nat
      /\ served[id] \in Nat
  BY DEF TypeOK, PoolTypeOK, Row
<1>2. Booked[id] = IF lease[id].state = "expired" THEN lease[id].amount ELSE lease[id].spent
  BY DEF Booked
<1>3. Booked'[id] = IF lease'[id].state = "expired" THEN lease'[id].amount ELSE lease'[id].spent
  BY DEF Booked
<1>4. CASE UNCHANGED poolVars
  BY <1>4 DEF poolVars, Tally, Booked
<1>5. ASSUME BudgetGrant(id, units), ~ UNCHANGED poolVars PROVE Tally'
  <2> DEFINE grant == Least(units, available)
  <2>1. /\ lease[id].state = "none"
        /\ lease' = [lease EXCEPT ![id] = [state |-> "live", amount |-> grant,
                                           spent |-> 0, grantedMs |-> now]]
        /\ available' = available - grant /\ spent' = spent
    BY <1>5 DEF BudgetGrant
  <2>2. grant \in Int /\ grant <= available
    BY <1>1 DEF Least
  <2> HIDE DEF grant
  <2>3. lease'[id] = [state |-> "live", amount |-> grant, spent |-> 0, grantedMs |-> now]
    BY <1>1, <2>1
  <2>4. Booked[id] = 0 /\ Booked'[id] = 0
    BY <1>1, <1>2, <1>3, <2>1, <2>3 DEF UnitsOK
  <2>5. \A i \in LeaseIds : i # id => lease'[i] = lease[i]
    BY <1>1, <2>1
  <2> QED
    BY <1>1, <2>1, <2>2, <2>4, <2>5, OneRowTally
<1>6. ASSUME IsLive(id), BudgetReport(id, units) \/ BudgetReturn(id, units) PROVE Tally'
  <2> DEFINE folded == Folded(lease[id], units)
  <2>1. folded \in Nat /\ folded <= lease[id].amount
    <3>1. lease[id].spent <= lease[id].amount
      BY <1>1 DEF UnitsOK
    <3> QED
      BY <1>1, <3>1 DEF Folded, Largest, Least
  <2>2. /\ spent' = spent + (folded - lease[id].spent)
        /\ available' = available \/ available' = available + (lease[id].amount - folded)
        /\ \/ lease' = [lease EXCEPT ![id].spent = folded]
           \/ lease' = [lease EXCEPT ![id].spent = folded, ![id].state = "returned"]
    BY <1>6 DEF BudgetReport, BudgetReturn
  <2> HIDE DEF folded
  <2>3. /\ lease'[id].spent = folded /\ lease'[id].state \in {"live", "returned"}
        /\ \A i \in LeaseIds : i # id => lease'[i] = lease[i]
    BY <1>1, <1>6, <2>2 DEF IsLive, Row
  <2>4. Booked[id] = lease[id].spent /\ Booked'[id] = folded
    BY <1>2, <1>3, <1>6, <2>3 DEF IsLive
  <2>5. available' >= 0 /\ spent' = spent - Booked[id] + Booked'[id]
    BY <1>1, <2>1, <2>2, <2>4 DEF Tally
  <2> QED
    BY <2>3, <2>5, OneRowTally
<1>7. ASSUME Expire(id) PROVE Tally'
  <2>1. /\ IsLive(id) /\ lease' = [lease EXCEPT ![id].state = "expired"]
        /\ spent' = spent + (lease[id].amount - lease[id].spent)
        /\ available' = available
    BY <1>7 DEF Expire
  <2>2. /\ lease'[id].state = "expired" /\ lease'[id].amount = lease[id].amount
        /\ \A i \in LeaseIds : i # id => lease'[i] = lease[i]
    BY <1>1, <2>1 DEF Row
  <2>3. Booked[id] = lease[id].spent /\ Booked'[id] = lease[id].amount
    BY <1>2, <1>3, <2>1, <2>2 DEF IsLive
  <2>4. available' >= 0 /\ spent' = spent - Booked[id] + Booked'[id]
    BY <1>1, <2>1, <2>3 DEF Tally
  <2> QED
    BY <2>2, <2>4, OneRowTally
<1>8. ~ IsLive(id) /\ (BudgetReport(id, units) \/ BudgetReturn(id, units))
        => UNCHANGED poolVars
  BY DEF BudgetReport, BudgetReturn
<1> QED
  BY <1>4, <1>5, <1>6, <1>7, <1>8

LEMMA NextTally ==
    TypeOK /\ TypeOK' /\ AccountInv /\ Tally /\ [Next]_vars /\ [~ Reconciled]_vars
      => Tally'
<1> SUFFICES ASSUME TypeOK, TypeOK', AccountInv, Tally, [Next]_vars, [~ Reconciled]_vars
             PROVE  Tally'
  OBVIOUS
<1>1. ASSUME UNCHANGED poolVars PROVE Tally'
  BY <1>1 DEF poolVars, Tally, Booked
<1>2. CASE UNCHANGED vars
  BY <1>1, <1>2 DEF vars, poolVars
<1>3. \A id \in LeaseIds : UnitsOK(id)
  BY DEF AccountInv
<1>4. \A m \in net : m.id \in LeaseIds /\ m.units \in Nat
  BY DEF TypeOK, Request
<1>5. CASE ServerStep /\ ~ Reconciled
  <2>1. ASSUME NEW m \in net, ServerDraw(m) \/ ServerReport(m) \/ ServerReturn(m)
        PROVE  Tally'
    <3>1. \/ BudgetGrant(m.id, m.units)
          \/ BudgetReport(m.id, m.units)
          \/ BudgetReturn(m.id, m.units)
      BY <2>1 DEF ServerDraw, ServerReport, ServerReturn
    <3> QED
      BY <1>3, <1>4, <3>1, HandlersTally
  <2>2. ASSUME NEW id \in LeaseIds, Reclaim(id) PROVE Tally'
    <3>1. Expire(id) /\ UnitsOK(id) /\ 0 \in Nat
      BY <1>3, <2>2 DEF Reclaim
    <3> QED
      BY <3>1, HandlersTally
  <2> QED
    BY <1>5, <2>1, <2>2 DEF ServerStep, Reconciled
<1>6. CASE ~ ServerStep
  BY <1>1, <1>6, OnlyServerMovesPool
<1> QED
  BY <1>2, <1>5, <1>6

LEMMA TallyInvariant == Spec /\ Unreconciled => []Tally
<1>1. TypeOK /\ TypeOK' /\ AccountInv /\ Tally /\ [Next]_vars /\ [~ Reconciled]_vars
        => Tally'
  BY NextTally
<1>2. Init => Tally
  <2> SUFFICES ASSUME Init PROVE Tally
    OBVIOUS
  <2>1. TypeOK
    BY InitTypeOK
  <2>2. \A id \in LeaseIds : Booked[id] = 0
    BY DEF Init, PoolInit, NoRow, Booked
  <2>3. Total(Booked) = 0
    BY <2>1, <2>2, BookedType, LeaseIdsFinite, TotalOfZeros
  <2> QED
    BY <2>3, PoolAssumption DEF Init, PoolInit, Tally
<1> QED
  BY <1>1, <1>2, TypeCorrect, AccountInvariant, PTL DEF Spec, Unreconciled

\* Of each lease, what is served is booked or still outstanding.
LEMMA TallyImplies ==
    ASSUME TypeOK, AccountInv, Balanced, Books, Tally
    PROVE  NoOverspend
<1> DEFINE charged == [id \in LeaseIds |-> Booked[id] + Outstanding[id]]
<1>1. /\ Booked \in [LeaseIds -> Int] /\ Outstanding \in [LeaseIds -> Int]
      /\ served \in [LeaseIds -> Int] /\ charged \in [LeaseIds -> Int]
  BY BookedType, SumTypes
<1>2. \A id \in LeaseIds : served[id] <= charged[id]
  <2> SUFFICES ASSUME NEW id \in LeaseIds PROVE served[id] <= charged[id]
    OBVIOUS
  <2>1. /\ lease[id] \in Row /\ lease[id].amount \in Nat /\ lease[id].spent \in Nat
        /\ served[id] \in Nat /\ UnitsOK(id)
    BY DEF TypeOK, PoolTypeOK, Row, AccountInv
  <2>2. charged[id] = Booked[id] + Outstanding[id]
    OBVIOUS
  <2>3. /\ Booked[id] = IF lease[id].state = "expired"
                        THEN lease[id].amount ELSE lease[id].spent
        /\ Outstanding[id] = IF lease[id].state = "live"
                             THEN lease[id].amount - lease[id].spent ELSE 0
        /\ lease[id].state \in {"none", "live", "returned", "expired"}
    BY <2>1 DEF Booked, Outstanding, IsLive, Row
  <2> HIDE DEF charged
  <2> QED
    BY <2>1, <2>2, <2>3 DEF UnitsOK
<1>3. Total(charged) = Total(Booked) + Total(Outstanding)
  <2>1. \A id \in LeaseIds : charged[id] = Booked[id] + Outstanding[id]
    OBVIOUS
  <2> HIDE DEF charged
  <2> QED
    BY <1>1, <2>1, LeaseIdsFinite, TotalAdds
<1> HIDE DEF charged
<1>4. Total(served) <= Total(charged)
  BY <1>1, <1>2, LeaseIdsFinite, TotalMonotone
<1>5. Total(served) \in Int /\ Total(charged) \in Int /\ available \in Int /\ Cap \in Nat
        /\ spent \in Int /\ leasedOut \in Int
  BY <1>1, LeaseIdsFinite, TotalSplit, PoolAssumption DEF TypeOK, PoolTypeOK
<1> QED
  BY <1>3, <1>4, <1>5 DEF Tally, Books, Balanced, NoOverspend

\* Where no Reconcile corrects the books, the cap holds whatever the clocks do and
\* however late a holder installs: an expiry has booked all that its holder may
\* still serve, so that "safety never depends on this report"
\* (leasedbudget.go:444-445).  What the clocks protect is the Reconcile.
THEOREM CapHoldsUnreconciled == Spec /\ Unreconciled => []NoOverspend
<1>1. TypeOK /\ AccountInv /\ Balanced /\ Books /\ Tally => NoOverspend
  BY TallyImplies
<1> QED
  BY <1>1, TypeCorrect, AccountInvariant, CapIsConserved, BooksInvariant,
     TallyInvariant, PTL

\* Every lease that was granted has been returned.
AllReturned == \A id \in LeaseIds : lease[id].state \in {"none", "returned"}

\* And nothing is lost: once every lease has been returned, the pool has booked
\* exactly the units that were served, and the rest of the cap is available again
\* (Return settles each chunk at its final spend, leasedbudget.go:278-286).
THEOREM ReturnedInFull ==
    Spec /\ Unreconciled =>
      [](AllReturned => spent = Total(served) /\ available = Cap - Total(served))
<1>1. TypeOK /\ AccountInv /\ Balanced /\ Books /\ Tally =>
        (AllReturned => spent = Total(served) /\ available = Cap - Total(served))
  <2> SUFFICES ASSUME TypeOK, AccountInv, Balanced, Books, Tally, AllReturned
               PROVE  spent = Total(served) /\ available = Cap - Total(served)
    OBVIOUS
  <2>1. ASSUME NEW id \in LeaseIds
        PROVE  Booked[id] = served[id] /\ Outstanding[id] = 0
    <3>1. /\ lease[id].spent \in Nat /\ served[id] \in Nat /\ UnitsOK(id)
          /\ lease[id].state \in {"none", "returned"}
      BY DEF TypeOK, PoolTypeOK, Row, AccountInv, AllReturned
    <3> QED
      BY <3>1 DEF UnitsOK, Booked, Outstanding, IsLive
  <2>2. Booked = served
    BY <2>1, BookedType, SumTypes
  <2>3. Total(Outstanding) = 0
    BY <2>1, SumTypes, LeaseIdsFinite, TotalOfZeros
  <2> QED
    BY <2>2, <2>3, PoolAssumption DEF Tally, Books, Balanced, TypeOK, PoolTypeOK
<1> QED
  BY <1>1, TypeCorrect, AccountInvariant, CapIsConserved, BooksInvariant,
     TallyInvariant, PTL

=============================================================================
