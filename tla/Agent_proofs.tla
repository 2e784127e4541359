---------------------------- MODULE Agent_proofs ----------------------------
(***************************************************************************)
(* Proofs about Agent.  Each part of the agent has its own variables: a    *)
(* step of the agent is an operation of that part, or leaves it alone, so  *)
(* the invariant of a part is proved from its operations only.             *)
(*                                                                         *)
(* First come facts about the data of the models: sums over finite sets,   *)
(* and the elements that Events!Picked takes out of a sequence.  What a    *)
(* recursive function computes for every input is proved by a smallest     *)
(* counterexample, which a well-founded order (WFMin) gives without an     *)
(* induction over a predicate.                                             *)
(***************************************************************************)
EXTENDS Agent, FiniteSetsExt, FiniteSetTheorems, TLAPS

-----------------------------------------------------------------------------
(* Smallest counterexamples.                                               *)

Less == {ss \in Nat \X Nat : ss[1] < ss[2]}

\* A set of numbers that is not empty has a least one.
LEMMA LeastNumber ==
  ASSUME NEW T \in SUBSET Nat, T # {}
  PROVE  \E x \in T : \A y \in T : x <= y
<1>1. IsWellFoundedOn(Less, Nat)
  BY NatLessThanWellFounded DEF OpToRel, Less
<1>2. PICK x \in T : \A y \in T : ~ (<<y, x>> \in Less)
  BY <1>1, WFMin
<1>3. ASSUME NEW y \in T PROVE x <= y
  <2>1. <<y, x>> \in Nat \X Nat /\ (<<y, x>> \in Less <=> y < x)
    BY DEF Less
  <2> QED
    BY <1>2, <2>1
<1> QED
  BY <1>3

\* Among subsets of a finite set, one has no other of them inside it.
LEMMA SmallestSubset ==
  ASSUME NEW S, IsFiniteSet(S), NEW Bad \in SUBSET (SUBSET S), Bad # {}
  PROVE  \E T \in Bad : \A U \in SUBSET T : U # T => U \notin Bad
<1>1. IsWellFoundedOn(StrictSubsetOrdering(S), SUBSET S)
  BY FS_StrictSubsetOrderingWellFounded, FS_FiniteSubsetsOfFinite
<1>2. PICK T \in Bad : \A U \in Bad : ~ (<<U, T>> \in StrictSubsetOrdering(S))
  BY <1>1, WFMin
<1>3. ASSUME NEW U \in SUBSET T, U # T, U \in Bad PROVE FALSE
  <2>1. <<U, T>> \in StrictSubsetOrdering(S)
    BY <1>3 DEF StrictSubsetOrdering
  <2> QED
    BY <1>2, <1>3, <2>1
<1> QED
  BY <1>3

\* A finite set of numbers that is not empty has a greatest one.
LEMMA GreatestNumber ==
  ASSUME NEW S \in SUBSET Nat, IsFiniteSet(S), S # {}
  PROVE  \E x \in S : \A y \in S : x >= y
<1> DEFINE Bad == {V \in SUBSET S : V # {} /\ ~\E x \in V : \A y \in V : x >= y}
<1>1. CASE Bad = {}
  BY <1>1
<1>2. CASE Bad # {}
  <2>0. Bad \in SUBSET (SUBSET S)
    OBVIOUS
  <2> HIDE DEF Bad
  <2>1. PICK T \in Bad : \A V \in SUBSET T : V # T => V \notin Bad
    BY <1>2, <2>0, SmallestSubset
  <2> USE DEF Bad
  <2>2. T \in SUBSET S /\ T # {} /\ ~\E x \in T : \A y \in T : x >= y
    BY <2>1
  <2>3. PICK z \in T : TRUE
    BY <2>2
  <2>4. T \ {z} \in SUBSET T /\ T \ {z} # T /\ T \ {z} \in SUBSET S /\ z \in Nat
    BY <2>2, <2>3
  <2>5. CASE T \ {z} = {}
    BY <2>2, <2>3, <2>4, <2>5
  <2>6. CASE T \ {z} # {}
    <3>1. PICK x \in T \ {z} : \A y \in T \ {z} : x >= y
      BY <2>1, <2>4, <2>6
    <3>2. x \in Nat /\ \A y \in T : y \in Nat
      BY <2>2, <3>1
    <3>3. CASE x >= z
      BY <2>2, <2>3, <3>1, <3>2, <3>3
    <3>4. CASE ~(x >= z)
      <4>1. \A y \in T : z >= y
        BY <2>3, <2>4, <3>1, <3>2, <3>4
      <4> QED
        BY <2>2, <2>3, <4>1
    <3> QED
      BY <3>3, <3>4
  <2> QED
    BY <2>5, <2>6
<1> QED
  BY <1>1, <1>2

-----------------------------------------------------------------------------
(* Sums over finite sets, as MapThenSumSet makes them.                    *)

\* The element that a sum takes first.
Pick(S) == CHOOSE x \in S : TRUE

\* it is a table of the sums of f over the subsets of S.
Sums(f, S, it) ==
  it = [s \in SUBSET S |-> IF s = {} THEN 0 ELSE f[Pick(s)] + it[s \ {Pick(s)}]]

\* The sum of f over S.
Total(f, S) == (CHOOSE it : Sums(f, S, it))[S]

\* The element a sum takes first is one of the set.
LEMMA PickIsIn == ASSUME NEW S, S # {} PROVE Pick(S) \in S
  BY DEF Pick

\* Two tables of sums agree on the sets they both have, where the summands do.
LEMMA SumsAgree ==
  ASSUME NEW S, IsFiniteSet(S), NEW U \in SUBSET S, NEW f, NEW g,
         \A x \in U : f[x] = g[x],
         NEW a, Sums(f, S, a), NEW b, Sums(g, U, b)
  PROVE  a[U] = b[U]
<1> DEFINE Bad == {V \in SUBSET U : a[V] # b[V]}
<1>1. CASE Bad = {}
  BY <1>1
<1>2. CASE Bad # {}
  <2>1. IsFiniteSet(U) /\ Bad \in SUBSET (SUBSET U)
    BY FS_Subset
  <2> HIDE DEF Bad
  <2>2. PICK T \in Bad : \A V \in SUBSET T : V # T => V \notin Bad
    BY <1>2, <2>1, SmallestSubset
  <2> USE DEF Bad
  <2>3. T \in SUBSET U /\ T \in SUBSET S /\ a[T] # b[T]
    BY <2>2
  <2>4. CASE T = {}
    BY <2>3, <2>4 DEF Sums
  <2>5. CASE T # {}
    <3>1. Pick(T) \in T /\ T \ {Pick(T)} \in SUBSET T /\ T \ {Pick(T)} # T
      BY <2>5, PickIsIn
    <3>2. a[T \ {Pick(T)}] = b[T \ {Pick(T)}]
      BY <2>2, <2>3, <3>1
    <3>3. a[T] = f[Pick(T)] + a[T \ {Pick(T)}]
      BY <2>3, <2>5 DEF Sums
    <3>4. b[T] = g[Pick(T)] + b[T \ {Pick(T)}]
      BY <2>3, <2>5 DEF Sums
    <3> QED
      BY <2>3, <3>1, <3>2, <3>3, <3>4
  <2> QED
    BY <2>4, <2>5
<1> QED
  BY <1>1, <1>2

\* There is a table of the sums over the subsets of a finite set.
LEMMA SumsExist ==
  ASSUME NEW S, IsFiniteSet(S), NEW f
  PROVE  \E it : Sums(f, S, it)
<1> DEFINE Bad == {V \in SUBSET S : ~\E it : Sums(f, V, it)}
<1>1. CASE Bad = {}
  BY <1>1
<1>2. CASE Bad # {}
  <2>0. Bad \in SUBSET (SUBSET S)
    OBVIOUS
  <2> HIDE DEF Bad
  <2>1. PICK T \in Bad : \A V \in SUBSET T : V # T => V \notin Bad
    BY <1>2, <2>0, SmallestSubset
  <2> USE DEF Bad
  <2>2. T \in SUBSET S /\ IsFiniteSet(T) /\ ~\E it : Sums(f, T, it)
    BY <2>1, FS_Subset
  <2>3. \A V \in SUBSET T : V # T => \E it : Sums(f, V, it)
    BY <2>1, <2>2
  <2> DEFINE it == [s \in SUBSET T |->
                      IF s = {} THEN 0
                      ELSE IF s = T THEN f[Pick(T)] + Total(f, T \ {Pick(T)})
                      ELSE Total(f, s)]
  <2>4. ASSUME NEW s \in SUBSET T, s # {}
        PROVE  it[s] = f[Pick(s)] + it[s \ {Pick(s)}]
    <3> DEFINE u == s \ {Pick(s)}
    <3>1. Pick(s) \in s /\ u \in SUBSET s /\ u # s /\ u \in SUBSET T /\ u # T
          /\ IsFiniteSet(s)
      BY <2>2, <2>4, PickIsIn, FS_Subset
    <3> HIDE DEF u
    <3>2. Sums(f, u, CHOOSE i : Sums(f, u, i))
      BY <2>3, <3>1
    <3>3. it[u] = Total(f, u)
      <4>1. CASE u # {}
        BY <3>1, <4>1
      <4>2. CASE u = {}
        BY <3>1, <3>2, <4>2 DEF Sums, Total
      <4> QED
        BY <4>1, <4>2
    <3>4. CASE s = T
      BY <2>4, <3>3, <3>4 DEF u
    <3>5. CASE s # T
      <4>1. Sums(f, s, CHOOSE i : Sums(f, s, i))
        BY <2>3, <2>4, <3>5
      <4>2. (CHOOSE i : Sums(f, s, i))[u] = (CHOOSE i : Sums(f, u, i))[u]
        BY <3>1, <3>2, <4>1, SumsAgree
      <4>3. (CHOOSE i : Sums(f, s, i))[s] = f[Pick(s)] + (CHOOSE i : Sums(f, s, i))[u]
        BY <2>4, <4>1 DEF Sums, u
      <4>4. it[s] = Total(f, s)
        BY <2>4, <3>5
      <4> QED
        BY <3>3, <4>2, <4>3, <4>4 DEF Total, u
    <3> QED
      BY <3>4, <3>5
  <2>5. it = [s \in SUBSET T |-> IF s = {} THEN 0 ELSE f[Pick(s)] + it[s \ {Pick(s)}]]
    BY <2>4
  <2>6. Sums(f, T, it)
    BY <2>5 DEF Sums
  <2> QED
    BY <2>2, <2>6
<1> QED
  BY <1>1, <1>2

\* Any such table holds the totals.
LEMMA TotalSums ==
  ASSUME NEW S, IsFiniteSet(S), NEW f, NEW it, Sums(f, S, it), NEW U \in SUBSET S
  PROVE  it[U] = Total(f, U)
<1>1. Sums(f, U, CHOOSE i : Sums(f, U, i))
  BY SumsExist, FS_Subset
<1>2. it[U] = (CHOOSE i : Sums(f, U, i))[U]
  BY <1>1, SumsAgree
<1> QED
  BY <1>2 DEF Total

\* A total is the element taken first and the total of the rest.
LEMMA TotalEquation ==
  ASSUME NEW S, IsFiniteSet(S), NEW f
  PROVE  Total(f, S) = IF S = {} THEN 0 ELSE f[Pick(S)] + Total(f, S \ {Pick(S)})
<1>1. PICK it : Sums(f, S, it)
  BY SumsExist
<1>2. it[S] = Total(f, S) /\ it[S \ {Pick(S)}] = Total(f, S \ {Pick(S)})
  BY <1>1, TotalSums
<1>3. it[S] = IF S = {} THEN 0 ELSE f[Pick(S)] + it[S \ {Pick(S)}]
  BY <1>1 DEF Sums
<1> QED
  BY <1>2, <1>3

\* A total depends on the summands of its set only.
LEMMA TotalSame ==
  ASSUME NEW S, IsFiniteSet(S), NEW f, NEW g, \A x \in S : f[x] = g[x]
  PROVE  Total(f, S) = Total(g, S)
<1>1. Sums(f, S, CHOOSE i : Sums(f, S, i)) /\ Sums(g, S, CHOOSE i : Sums(g, S, i))
  BY SumsExist
<1>2. S \in SUBSET S
  OBVIOUS
<1>3. (CHOOSE i : Sums(f, S, i))[S] = (CHOOSE i : Sums(g, S, i))[S]
  BY <1>1, <1>2, SumsAgree
<1> QED
  BY <1>3 DEF Total

\* A total of natural numbers is one.
LEMMA TotalNatural ==
  ASSUME NEW S, IsFiniteSet(S), NEW f, \A x \in S : f[x] \in Nat
  PROVE  Total(f, S) \in Nat
<1> DEFINE Bad == {V \in SUBSET S : Total(f, V) \notin Nat}
<1>1. CASE Bad = {}
  BY <1>1
<1>2. CASE Bad # {}
  <2>0. Bad \in SUBSET (SUBSET S)
    OBVIOUS
  <2> HIDE DEF Bad
  <2>1. PICK T \in Bad : \A V \in SUBSET T : V # T => V \notin Bad
    BY <1>2, <2>0, SmallestSubset
  <2> USE DEF Bad
  <2>2. T \in SUBSET S /\ IsFiniteSet(T) /\ Total(f, T) \notin Nat
    BY <2>1, FS_Subset
  <2>3. T # {}
    BY <2>2, TotalEquation
  <2>4. Pick(T) \in T /\ T \ {Pick(T)} \in SUBSET T /\ T \ {Pick(T)} # T
    BY <2>3, PickIsIn
  <2>5. Total(f, T \ {Pick(T)}) \in Nat /\ f[Pick(T)] \in Nat
    BY <2>1, <2>2, <2>4
  <2>6. Total(f, T) = f[Pick(T)] + Total(f, T \ {Pick(T)})
    BY <2>2, <2>3, TotalEquation
  <2> QED
    BY <2>2, <2>5, <2>6
<1> QED
  BY <1>1, <1>2

\* Any element can be taken out of a total, not only the one taken first.
LEMMA TotalOneLess ==
  ASSUME NEW S, IsFiniteSet(S), NEW f, \A x \in S : f[x] \in Nat, NEW x \in S
  PROVE  Total(f, S) = f[x] + Total(f, S \ {x})
<1> DEFINE Bad == {V \in SUBSET S : \E y \in V : Total(f, V) # f[y] + Total(f, V \ {y})}
<1>1. CASE Bad = {}
  BY <1>1
<1>2. CASE Bad # {}
  <2>0. Bad \in SUBSET (SUBSET S)
    OBVIOUS
  <2> HIDE DEF Bad
  <2>1. PICK T \in Bad : \A V \in SUBSET T : V # T => V \notin Bad
    BY <1>2, <2>0, SmallestSubset
  <2> USE DEF Bad
  <2>2. PICK y \in T : Total(f, T) # f[y] + Total(f, T \ {y})
    BY <2>1
  <2>3. T \in SUBSET S /\ IsFiniteSet(T) /\ y \in S
    BY <2>1, <2>2, FS_Subset
  <2> DEFINE p == Pick(T)
             rest == T \ {y, p}
  <2>4. p \in T /\ p \in S
    BY <2>2, <2>3, PickIsIn
  <2>5. Total(f, T) = f[p] + Total(f, T \ {p})
    BY <2>2, <2>3, TotalEquation
  <2> HIDE DEF p
  <2>6. p # y
    BY <2>2, <2>5
  <2>7. Total(f, T \ {p}) = f[y] + Total(f, rest)
    <3>1. T \ {p} \in SUBSET T /\ T \ {p} # T /\ y \in T \ {p} /\ (T \ {p}) \ {y} = rest
          /\ T \ {p} \in SUBSET S
      BY <2>2, <2>3, <2>4, <2>6
    <3> HIDE DEF rest
    <3> QED
      BY <2>1, <3>1
  <2>8. Total(f, T \ {y}) = f[p] + Total(f, rest)
    <3>1. T \ {y} \in SUBSET T /\ T \ {y} # T /\ p \in T \ {y} /\ (T \ {y}) \ {p} = rest
          /\ T \ {y} \in SUBSET S
      BY <2>2, <2>3, <2>4, <2>6
    <3> HIDE DEF rest
    <3> QED
      BY <2>1, <3>1
  <2>9. Total(f, rest) \in Nat /\ f[p] \in Nat /\ f[y] \in Nat
    <3>1. rest \in SUBSET S
      BY <2>3
    <3>2. IsFiniteSet(rest) /\ \A z \in rest : f[z] \in Nat
      BY <3>1, FS_Subset
    <3> HIDE DEF rest
    <3> QED
      BY <2>3, <2>4, <3>2, TotalNatural
  <2> HIDE DEF rest
  <2> QED
    BY <2>2, <2>5, <2>7, <2>8, <2>9
<1> QED
  BY <1>1, <1>2

-----------------------------------------------------------------------------
(* The elements picked out of a sequence.                                 *)

\* u makes the steps of Picked for the first n elements.
Steps(u, n, s, places) ==
  u = [k \in 0..n |-> IF k = 0 THEN <<>>
                      ELSE IF k \in places THEN Append(u[k - 1], s[k]) ELSE u[k - 1]]

\* h lists a set of numbers in increasing order.
Increasing(h, n, at) ==
  /\ h \in [1..n -> at]
  /\ \A i, j \in 1..n : i < j => h[i] < h[j]
  /\ \A a \in at : \E i \in 1..n : h[i] = a

\* p has the elements of s at those places, in their order.
Selects(p, s, at) ==
  \E h : Increasing(h, Len(p), at) /\ \A i \in 1..Len(p) : p[i] = s[h[i]]

\* Such steps there are.
LEMMA StepsExist ==
  ASSUME NEW n \in Nat, NEW s, NEW places
  PROVE  \E u : Steps(u, n, s, places)
<1> DEFINE Bad == {m \in Nat : ~\E u : Steps(u, m, s, places)}
<1>1. CASE Bad = {}
  BY <1>1
<1>2. CASE Bad # {}
  <2>0. Bad \in SUBSET Nat
    OBVIOUS
  <2> HIDE DEF Bad
  <2>1. PICK m \in Bad : \A k \in Bad : m <= k
    BY <1>2, <2>0, LeastNumber
  <2> USE DEF Bad
  <2>2. m \in Nat /\ ~\E u : Steps(u, m, s, places)
    BY <2>1
  <2>3. CASE m = 0
    <3>1. Steps([k \in 0..0 |-> <<>>], 0, s, places)
      BY DEF Steps
    <3> QED
      BY <2>2, <2>3, <3>1
  <2>4. CASE m # 0
    <3>1. m - 1 \in Nat /\ ~(m <= m - 1)
      BY <2>2, <2>4
    <3>2. PICK u : Steps(u, m - 1, s, places)
      BY <2>1, <3>1
    <3> DEFINE v == [k \in 0..m |-> IF k < m THEN u[k]
                                    ELSE IF m \in places THEN Append(u[m - 1], s[m])
                                    ELSE u[m - 1]]
    <3>3. \A k \in 0..m : v[k] = IF k = 0 THEN <<>>
                                 ELSE IF k \in places THEN Append(v[k - 1], s[k])
                                 ELSE v[k - 1]
      <4> TAKE k \in 0..m
      <4>1. CASE k < m
        <5>1. k \in 0..(m - 1) /\ v[k] = u[k] /\ (k # 0 => v[k - 1] = u[k - 1])
          BY <2>2, <4>1
        <5> QED
          BY <3>2, <5>1 DEF Steps
      <4>2. CASE k = m
        <5>1. v[k - 1] = u[k - 1]
          BY <2>2, <2>4, <4>2
        <5> QED
          BY <2>2, <2>4, <4>2, <5>1
      <4> QED
        BY <2>2, <4>1, <4>2
    <3>4. Steps(v, m, s, places)
      <4>1. v = [k \in 0..m |-> v[k]]
        OBVIOUS
      <4> HIDE DEF v
      <4> QED
        BY <3>3, <4>1 DEF Steps
    <3> QED
      BY <2>2, <3>4
  <2> QED
    BY <2>3, <2>4
<1> QED
  BY <1>1, <1>2

\* After each step, what was picked is what the places so far select.
LEMMA StepsList ==
  ASSUME NEW S, NEW s \in Seq(S), NEW places, NEW u, Steps(u, Len(s), s, places),
         NEW n \in 0..Len(s)
  PROVE  u[n] \in Seq(S) /\ Selects(u[n], s, places \cap (1..n))
<1> DEFINE Good(m) == u[m] \in Seq(S) /\ Selects(u[m], s, places \cap (1..m))
           Bad == {m \in 0..Len(s) : ~Good(m)}
<1>1. CASE Bad = {}
  BY <1>1
<1>2. CASE Bad # {}
  <2>0. Bad \in SUBSET Nat /\ Len(s) \in Nat
    OBVIOUS
  <2> HIDE DEF Bad
  <2>1. PICK m \in Bad : \A k \in Bad : m <= k
    BY <1>2, <2>0, LeastNumber
  <2> USE DEF Bad
  <2> HIDE DEF Good, Selects
  <2>2. m \in 0..Len(s) /\ ~Good(m) /\ m \in Nat
    BY <2>1
  <2>3. CASE m = 0
    <3>1. u[0] = <<>> /\ places \cap (1..0) = {}
      BY <2>0 DEF Steps
    <3>2. Increasing([i \in 1..0 |-> 0], 0, {})
      BY DEF Increasing
    <3>3. Len(u[0]) = 0 /\ u[0] \in Seq(S)
      BY <3>1
    <3>4. Good(0)
      BY <3>1, <3>2, <3>3 DEF Good, Selects
    <3> QED
      BY <2>2, <2>3, <3>4
  <2>4. CASE m # 0
    <3>1. m - 1 \in 0..Len(s) /\ ~(m <= m - 1) /\ m \in 1..Len(s)
      BY <2>0, <2>2, <2>4
    <3>2. Good(m - 1)
      BY <2>1, <3>1
    <3> DEFINE p == u[m - 1]
    <3>3. PICK h : /\ Increasing(h, Len(p), places \cap (1..(m - 1)))
                   /\ \A i \in 1..Len(p) : p[i] = s[h[i]]
      BY <3>2 DEF Good, Selects
    <3>4. p \in Seq(S) /\ Len(p) \in Nat /\ s[m] \in S
      BY <3>1, <3>2 DEF Good, Selects
    <3>5. u[m] = IF m \in places THEN Append(p, s[m]) ELSE p
      BY <2>2, <2>4 DEF Steps
    <3> HIDE DEF p
    <3>6. CASE m \notin places
      <4>1. places \cap (1..m) = places \cap (1..(m - 1))
        BY <2>2, <3>6
      <4>2. u[m] = p
        BY <3>5, <3>6
      <4>3. Good(m)
        BY <3>3, <3>4, <4>1, <4>2 DEF Good, Selects
      <4> QED
        BY <2>2, <4>3
    <3>7. CASE m \in places
      <4> DEFINE q == Append(p, s[m])
                 g == [i \in 1..(Len(p) + 1) |-> IF i \in 1..Len(p) THEN h[i] ELSE m]
      <4>1. /\ q \in Seq(S) /\ Len(q) = Len(p) + 1 /\ q[Len(p) + 1] = s[m]
            /\ \A i \in 1..Len(p) : q[i] = p[i]
        BY <3>4
      <4>2. \A i \in 1..Len(p) : h[i] \in places \cap (1..(m - 1))
        BY <3>3 DEF Increasing
      <4>3. /\ \A i \in 1..Len(p) : g[i] = h[i]
            /\ g[Len(p) + 1] = m
            /\ DOMAIN g = 1..(Len(p) + 1)
            /\ \A i \in 1..(Len(p) + 1) : i \in 1..Len(p) \/ i = Len(p) + 1
        BY <3>4
      <4>4. g \in [1..(Len(p) + 1) -> places \cap (1..m)]
        <5>1. \A i \in 1..(Len(p) + 1) : g[i] \in places \cap (1..m)
          BY <2>2, <3>1, <3>7, <4>2, <4>3
        <5> QED
          BY <5>1
      <4> HIDE DEF g, q
      <4>5. \A i, j \in 1..(Len(p) + 1) : i < j => g[i] < g[j]
        <5> TAKE i, j \in 1..(Len(p) + 1)
        <5> HAVE i < j
        <5>1. i \in 1..Len(p)
          BY <3>4
        <5>2. CASE j \in 1..Len(p)
          BY <3>3, <4>3, <5>1, <5>2 DEF Increasing
        <5>3. CASE j = Len(p) + 1
          <6>1. g[i] \in 1..(m - 1) /\ g[j] = m
            BY <4>2, <4>3, <5>1, <5>3
          <6> QED
            BY <2>2, <6>1
        <5> QED
          BY <4>3, <5>2, <5>3
      <4>6. \A a \in places \cap (1..m) : \E i \in 1..(Len(p) + 1) : g[i] = a
        <5> TAKE a \in places \cap (1..m)
        <5>1. CASE a = m
          <6>1. Len(p) + 1 \in 1..(Len(p) + 1)
            BY <3>4
          <6> QED
            BY <4>3, <5>1, <6>1
        <5>2. CASE a # m
          <6>1. a \in places \cap (1..(m - 1))
            BY <2>2, <5>2
          <6>2. PICK i \in 1..Len(p) : h[i] = a
            BY <3>3, <6>1 DEF Increasing
          <6>3. i \in 1..(Len(p) + 1)
            BY <3>4
          <6> QED
            BY <4>3, <6>2, <6>3
        <5> QED
          BY <5>1, <5>2
      <4>7. \A i \in 1..(Len(p) + 1) : q[i] = s[g[i]]
        BY <3>3, <4>1, <4>3
      <4>8. u[m] = q /\ Len(u[m]) = Len(p) + 1
        BY <3>5, <3>7, <4>1 DEF q
      <4>9. Good(m)
        BY <4>1, <4>4, <4>5, <4>6, <4>7, <4>8 DEF Good, Selects, Increasing
      <4> QED
        BY <2>2, <4>9
    <3> QED
      BY <3>6, <3>7
  <2> QED
    BY <2>3, <2>4
<1> QED
  BY <1>1, <1>2

\* The elements picked are those at the places, in order.
LEMMA PickedLists ==
  ASSUME NEW S, NEW s \in Seq(S), NEW places
  PROVE  /\ Picked(s, places) \in Seq(S)
         /\ Selects(Picked(s, places), s, places \cap (1..Len(s)))
<1> DEFINE u == CHOOSE it : Steps(it, Len(s), s, places)
<1>1. Len(s) \in Nat /\ Len(s) \in 0..Len(s)
  OBVIOUS
<1>2. Steps(u, Len(s), s, places)
  BY <1>1, StepsExist
<1>3. Picked(s, places) = u[Len(s)]
  BY DEF Picked, Steps
<1> HIDE DEF u
<1>4. u[Len(s)] \in Seq(S) /\ Selects(u[Len(s)], s, places \cap (1..Len(s)))
  BY <1>1, <1>2, StepsList
<1> QED
  BY <1>3, <1>4

\* Nothing else is picked.
LEMMA PickedFrom ==
  ASSUME NEW S, NEW s \in Seq(S), NEW places
  PROVE  Picked(s, places) \in Seq({s[i] : i \in places \cap DOMAIN s})
<1> DEFINE p == Picked(s, places)
           T == {s[i] : i \in places \cap DOMAIN s}
<1>2. p \in Seq(S) /\ Selects(p, s, places \cap (1..Len(s)))
  BY PickedLists
<1> HIDE DEF p
<1>1. PICK h : /\ Increasing(h, Len(p), places \cap (1..Len(s)))
               /\ \A i \in 1..Len(p) : p[i] = s[h[i]]
  BY <1>2 DEF Selects
<1>0. DOMAIN s = 1..Len(s)
  OBVIOUS
<1>3. \A i \in 1..Len(p) : p[i] \in T
  BY <1>0, <1>1 DEF Increasing
<1>4. Len(p) \in Nat /\ p = [i \in 1..Len(p) |-> p[i]]
  BY <1>2
<1> HIDE DEF T
<1>5. p \in Seq(T)
  BY <1>3, <1>4
<1> QED
  BY <1>5 DEF p, T

\* A set of numbers is listed in increasing order in one way only.
LEMMA IncreasingUnique ==
  ASSUME NEW at \in SUBSET Nat, NEW m \in Nat, NEW n \in Nat, NEW g, NEW h,
         Increasing(g, m, at), Increasing(h, n, at)
  PROVE  m = n /\ \A i \in 1..n : g[i] = h[i]
<1>1. ASSUME NEW a \in Nat, NEW b \in Nat, NEW f, NEW k,
             Increasing(f, a, at), Increasing(k, b, at)
      PROVE  \A i \in 1..a : i \in 1..b => f[i] >= k[i]
  <2> DEFINE Bad == {i \in 1..a : i \in 1..b /\ ~(f[i] >= k[i])}
  <2>1. CASE Bad = {}
    BY <2>1
  <2>2. CASE Bad # {}
    <3>1. Bad \in SUBSET Nat
      OBVIOUS
    <3> HIDE DEF Bad
    <3>2. PICK i \in Bad : \A j \in Bad : i <= j
      BY <2>2, <3>1, LeastNumber
    <3> USE DEF Bad
    <3>3. i \in 1..a /\ i \in 1..b /\ ~(f[i] >= k[i]) /\ i \in Nat
      BY <3>2
    <3>4. f[i] \in at /\ f[i] \in Nat /\ k[i] \in Nat
      BY <1>1, <3>3 DEF Increasing
    <3>5. PICK j \in 1..b : k[j] = f[i]
      BY <1>1, <3>4 DEF Increasing
    <3>6. j < i
      <4>1. k[j] < k[i]
        BY <3>3, <3>4, <3>5
      <4>2. i < j => k[i] < k[j]
        BY <1>1, <3>3, <3>5 DEF Increasing
      <4>3. i # j
        BY <3>4, <4>1
      <4> QED
        BY <3>3, <3>4, <3>5, <4>1, <4>2, <4>3
    <3>7. j \in 1..a /\ j \notin Bad
      BY <3>2, <3>3, <3>5, <3>6
    <3>8. f[j] >= k[j] /\ f[j] \in Nat
      BY <1>1, <3>5, <3>7 DEF Increasing
    <3>9. f[j] < f[i]
      BY <1>1, <3>3, <3>6, <3>7 DEF Increasing
    <3> QED
      BY <3>4, <3>5, <3>8, <3>9
  <2> QED
    BY <2>1, <2>2
<1>2. ASSUME NEW i \in 1..m, i \in 1..n PROVE g[i] = h[i]
  <2>1. g[i] \in Nat /\ h[i] \in Nat
    BY <1>2 DEF Increasing
  <2> QED
    BY <1>1, <1>2, <2>1
<1>3. ASSUME NEW a \in Nat, NEW b \in Nat, NEW f, NEW k,
             Increasing(f, a, at), Increasing(k, b, at),
             \A i \in 1..a : i \in 1..b => f[i] = k[i], a < b
      PROVE  FALSE
  <2>1. a + 1 \in 1..b /\ k[a + 1] \in at
    BY <1>3 DEF Increasing
  <2>2. PICK j \in 1..a : f[j] = k[a + 1]
    BY <1>3, <2>1 DEF Increasing
  <2>3. j \in 1..b /\ j < a + 1 /\ k[j] = f[j]
    BY <1>3, <2>2
  <2>4. k[j] < k[a + 1] /\ k[j] \in Nat
    BY <1>3, <2>1, <2>3 DEF Increasing
  <2> QED
    BY <2>2, <2>3, <2>4
<1>4. m = n
  <2>1. ~(m < n)
    BY <1>2, <1>3
  <2>2. ~(n < m)
    <3>1. \A i \in 1..n : i \in 1..m => h[i] = g[i]
      BY <1>2
    <3> QED
      BY <1>3, <3>1
  <2> QED
    BY <2>1, <2>2
<1> QED
  BY <1>2, <1>4

\* What has the elements at the places in their order is what is picked.
LEMMA PickedIs ==
  ASSUME NEW S, NEW s \in Seq(S), NEW places, NEW p \in Seq(S), NEW h,
         Increasing(h, Len(p), places \cap DOMAIN s),
         \A i \in 1..Len(p) : p[i] = s[h[i]]
  PROVE  Picked(s, places) = p
<1> DEFINE q == Picked(s, places)
           at == places \cap DOMAIN s
<1>0. q \in Seq(S) /\ Selects(q, s, places \cap (1..Len(s)))
  BY PickedLists
<1>2. q \in Seq(S) /\ at \in SUBSET Nat /\ at = places \cap (1..Len(s))
  BY <1>0
<1> HIDE DEF q, at
<1>1. PICK g : /\ Increasing(g, Len(q), places \cap (1..Len(s)))
               /\ \A i \in 1..Len(q) : q[i] = s[g[i]]
  BY <1>0 DEF Selects
<1>3. Len(q) \in Nat /\ Len(p) \in Nat
  BY <1>2
<1>4. Increasing(h, Len(p), at)
  BY DEF at
<1>5. Len(q) = Len(p) /\ \A i \in 1..Len(p) : g[i] = h[i]
  BY <1>1, <1>2, <1>3, <1>4, IncreasingUnique
<1>6. \A i \in 1..Len(p) : q[i] = p[i]
  BY <1>1, <1>5
<1>7. q = [i \in 1..Len(q) |-> q[i]] /\ p = [i \in 1..Len(p) |-> p[i]]
  BY <1>2
<1>8. q = p
  BY <1>5, <1>6, <1>7
<1> QED
  BY <1>8 DEF q

-----------------------------------------------------------------------------
(* The parts of the agent.                                                 *)

\* What a step does to each of the parts that have a theorem below.
DirectoryMoves ==
  (\E event : process_event(event)) \/ (\E key : DiscoveryCall(key))

DialectsMove ==
  \E event : install_dialect_event(event) \/ install_dialect_event_verified(event)

ThreadsMove ==
  \/ \E event : record_inbound(event)
  \/ \E t, event : record_event(t, event)
  \/ \E t, initiator : ThreadCall(t, initiator)

PartsMove ==
  /\ DirectoryMoves \/ UNCHANGED discoveryVars
  /\ DialectsMove \/ UNCHANGED dialectVars
  /\ ThreadsMove \/ UNCHANGED threadVars
  /\ LimiterStep \/ UNCHANGED limiterVars

\* A step of the agent is, for the variables of each part, a step of the part or none.
LEMMA StepOfParts == [Next]_vars => PartsMove
<1>1. ASSUME NEW batch, Drain(batch) PROVE PartsMove
  BY <1>1 DEF Drain, PartsMove, spamVars
<1>2. CASE Handle
  BY <1>2 DEF Handle, PartsMove, DirectoryMoves, ThreadsMove, spamVars
<1>3. ASSUME NEW event, Announce(event) PROVE PartsMove
  BY <1>3 DEF Announce, PartsMove, DirectoryMoves, spamVars
<1>4. ASSUME NEW event, ReceiveDialect(event) PROVE PartsMove
  BY <1>4 DEF ReceiveDialect, PartsMove, DialectsMove, spamVars
<1>5. ASSUME NEW event, NEW dialects, ReceiveReceipt(event, dialects) PROVE PartsMove
  BY <1>5 DEF ReceiveReceipt, PartsMove
<1>6. ASSUME NEW event, Unwrap(event) PROVE PartsMove
  BY <1>6 DEF Unwrap, PartsMove, spamVars
<1>7. CASE Receive
  BY <1>1, <1>2, <1>3, <1>4, <1>5, <1>6, <1>7 DEF Receive
<1>8. CASE Send
  <2>1. ASSUME NEW api, NEW w, SendBuilt(api, w) PROVE PartsMove
    BY <2>1 DEF SendBuilt, PartsMove, spamVars
  <2>2. ASSUME NEW msg, SendMined(msg) PROVE PartsMove
    BY <2>2 DEF SendMined, PartsMove, spamVars
  <2>3. ASSUME NEW t, NEW verb, NEW to, Reply(t, verb, to) PROVE PartsMove
    BY <2>3 DEF Reply, PartsMove, ThreadsMove, spamVars
  <2>4. ASSUME NEW msg, NEW to, NEW len, NEW time, SendGift(msg, to, len, time)
        PROVE PartsMove
    BY <2>4 DEF SendGift, PartsMove, spamVars
  <2> QED
    BY <1>8, <2>1, <2>2, <2>3, <2>4 DEF Send
<1>9. CASE Call
  <2>1. CASE ThreadCalls
    BY <2>1 DEF ThreadCalls, PartsMove, ThreadsMove, spamVars
  <2>2. CASE DirectoryCalls
    BY <2>2 DEF DirectoryCalls, PartsMove, DirectoryMoves, spamVars
  <2>3. CASE FilterCalls
    BY <2>3 DEF FilterCalls, PartsMove
  <2>4. CASE Assignments
    BY <2>4 DEF Assignments, PartsMove, spamVars
  <2>5. CASE LimiterCalls
    BY <2>5 DEF LimiterCalls, PartsMove
  <2> QED
    BY <1>9, <2>1, <2>2, <2>3, <2>4, <2>5 DEF Call
<1>10. CASE UNCHANGED vars
  BY <1>10 DEF vars, PartsMove, spamVars
<1> QED
  BY <1>7, <1>8, <1>9, <1>10 DEF Next

-----------------------------------------------------------------------------
(* The directory.                                                          *)

\* An announcement moves the registry and the history of it alike.
LEMMA ProcessKeepsLatest ==
  ASSUME NEW event, DirectoryIsLatest, process_event(event)
  PROVE  DirectoryIsLatest'
<1>1. CASE ~DiscoveryOutcome(event).ok
  BY <1>1 DEF process_event, DirectoryIsLatest, discoveryVars, Listed
<1>2. CASE DiscoveryOutcome(event).ok
  <2>1. /\ DiscoveryOutcome(event).val \in {"hello", "bye"}
        /\ DiscoveryOutcome(event).val = FindTag(event, "Performative")
    BY <1>2 DEF DiscoveryOutcome, Ok, Err
  <2> QED
    BY <1>2, <2>1 DEF process_event, DirectoryIsLatest, Listed, Without
<1> QED
  BY <1>1, <1>2

\* So does a call that evicts an agent or empties the registry.
LEMMA CallKeepsLatest ==
  ASSUME NEW key, DirectoryIsLatest, DiscoveryCall(key)
  PROVE  DirectoryIsLatest'
BY DEF DiscoveryCall, evict_stale, remove_agent, Drop, DirectoryIsLatest, Listed, Without

\* The directory says what the last announcement processed of each agent
\* said, in whatever order the events came and whatever was evicted, for any
\* events and keys.
THEOREM DirectoryCorrect == Spec => []DirectoryIsLatest
<1>1. Init => DirectoryIsLatest
  BY DEF Init, DiscoveryInit, DirectoryIsLatest, Listed
<1>2. DirectoryIsLatest /\ [Next]_vars => DirectoryIsLatest'
  <2>1. ASSUME DirectoryIsLatest, UNCHANGED discoveryVars PROVE DirectoryIsLatest'
    BY <2>1 DEF DirectoryIsLatest, discoveryVars, Listed
  <2> QED
    BY <2>1, StepOfParts, ProcessKeepsLatest, CallKeepsLatest DEF PartsMove, DirectoryMoves
<1> QED
  BY <1>1, <1>2, PTL DEF Spec

-----------------------------------------------------------------------------
(* The dialects.                                                           *)

\* What the two paths let through.
Safe(d, event, path) ==
  /\ verify_r1(d) /\ verify_r2(d) /\ verify_r3(d)
  /\ d.name = FindTag(event, "Dialect")
  /\ path = "verified" =>
       /\ event.sig = <<event.pubkey, compute_event_id(event)>>
       /\ d.signature \in {Unsigned_, <<event.pubkey, d.name>>}

\* A dialect that parses has the name that its event's tag gives it.
LEMMA ParsedIsNamed ==
  ASSUME NEW event, parse_dialect_event(event).ok
  PROVE  parse_dialect_event(event).val.name = FindTag(event, "Dialect")
<1> DEFINE sexpr == decode(event.content)
           dialect == parse_definition(sexpr.val)
<1>1. /\ Tagged(event, "Dialect") # {} /\ sexpr.ok /\ dialect.ok
      /\ dialect.val.name = FindTag(event, "Dialect")
      /\ parse_dialect_event(event) = dialect
  BY DEF parse_dialect_event, Err
<1> QED
  BY <1>1

\* The plain path installs only what passed R1 to R3.
LEMMA InstallIsSafe ==
  ASSUME NEW event, InstallOutcome(event).ok
  PROVE  Safe(InstallOutcome(event).val, event, "plain")
<1>1. /\ parse_dialect_event(event).ok
      /\ InstallCheck(parse_dialect_event(event).val)
      /\ InstallOutcome(event) = parse_dialect_event(event)
  BY DEF InstallOutcome, Err
<1> QED
  BY <1>1, ParsedIsNamed DEF Safe, InstallCheck

\* The verified path installs only what passed R1 to R4.
LEMMA VerifiedIsSafe ==
  ASSUME NEW event, VerifiedOutcome(event).ok
  PROVE  Safe(VerifiedOutcome(event).val, event, "verified")
<1> DEFINE d == parse_dialect_event(event).val
<1>1. /\ verify_event(event).ok
      /\ is_safe(verify_all(event, d))
      /\ VerifiedOutcome(event) = InstallOutcome(event)
  BY DEF VerifiedOutcome, Err
<1>2. InstallOutcome(event) = parse_dialect_event(event)
  BY <1>1 DEF InstallOutcome, Err
<1>3. event.sig = <<event.pubkey, compute_event_id(event)>>
  BY <1>1 DEF verify_event, Err
<1>4. verify_r4(event, d) # "Invalid"
  BY <1>1 DEF is_safe, verify_all
<1>5. d.signature \in {Unsigned_, <<event.pubkey, d.name>>}
  BY <1>1, <1>4 DEF verify_r4, check_r4
<1> QED
  BY <1>1, <1>2, <1>3, <1>5, InstallIsSafe DEF Safe

\* The registry and its history are sequences of one length.
DialectInv ==
  /\ \E S : registry \in Seq(S) /\ installs \in Seq(S)
  /\ Len(registry) = Len(installs)
  /\ \A i \in DOMAIN registry : Safe(registry[i], installs[i].event, installs[i].path)

\* An install by either path keeps the checks of all that was installed.
LEMMA InstallKeepsInv ==
  ASSUME NEW event, NEW path \in {"plain", "verified"}, DialectInv, Install(event, path)
  PROVE  DialectInv'
<1> DEFINE outcome == IF path = "verified" THEN VerifiedOutcome(event)
                                           ELSE InstallOutcome(event)
           record == [event |-> event, path |-> path]
<1>1. CASE ~outcome.ok
  BY <1>1 DEF Install, DialectInv, dialectVars
<1>2. CASE outcome.ok
  <2>1. Safe(outcome.val, event, path)
    BY <1>2, InstallIsSafe, VerifiedIsSafe
  <2>2. registry' = Append(registry, outcome.val) /\ installs' = Append(installs, record)
    BY <1>2 DEF Install
  <2>3. PICK S : registry \in Seq(S) /\ installs \in Seq(S)
    BY DEF DialectInv
  <2> DEFINE U == S \union {outcome.val, record}
  <2>4. registry \in Seq(U) /\ installs \in Seq(U)
    BY <2>3
  <2>5. registry' \in Seq(U) /\ installs' \in Seq(U)
    BY <2>2, <2>4
  <2>6. Len(registry') = Len(registry) + 1 /\ Len(installs') = Len(installs) + 1
    BY <2>2, <2>4
  <2>7. ASSUME NEW i \in DOMAIN registry'
        PROVE  Safe(registry'[i], installs'[i].event, installs'[i].path)
    <3>1. CASE i \in 1..Len(registry)
      <4>1. registry'[i] = registry[i] /\ installs'[i] = installs[i]
        BY <2>2, <2>4, <3>1 DEF DialectInv
      <4> QED
        BY <3>1, <4>1 DEF DialectInv
    <3>2. CASE i = Len(registry) + 1
      <4>1. registry'[i] = outcome.val /\ installs'[i] = record
        BY <2>2, <2>4, <3>2 DEF DialectInv
      <4>2. installs'[i].event = event /\ installs'[i].path = path
        BY <4>1
      <4> QED
        BY <4>1, <4>2, <2>1
    <3>3. i \in 1..(Len(registry) + 1) /\ Len(registry) \in Nat
      BY <2>4, <2>5, <2>6
    <3> QED
      BY <3>1, <3>2, <3>3
  <2>8. \E V : registry' \in Seq(V) /\ installs' \in Seq(V)
    BY <2>5
  <2> QED
    BY <2>6, <2>7, <2>8 DEF DialectInv
<1> QED
  BY <1>1, <1>2

\* Every dialect installed bears the checks of its path.
LEMMA DialectsKept == Spec => []DialectInv
<1>1. Init => DialectInv
  <2>1. registry = <<>> /\ installs = <<>> => DialectInv
    BY DEF DialectInv
  <2> QED
    BY <2>1 DEF Init, DialectInit
<1>2. DialectInv /\ [Next]_vars => DialectInv'
  <2>1. ASSUME DialectInv, UNCHANGED dialectVars PROVE DialectInv'
    BY <2>1 DEF DialectInv, dialectVars
  <2> QED
    BY <2>1, StepOfParts, InstallKeepsInv
    DEF PartsMove, DialectsMove, install_dialect_event, install_dialect_event_verified
<1> QED
  BY <1>1, <1>2, PTL DEF Spec

\* Every dialect in the registry satisfies R1 to R3 and has the name it was
\* tagged with; those of the verified path come from events their authors
\* signed, with no signature of anybody else: for any events on the network.
THEOREM DialectsCorrect == Spec => []InstalledIsSafe
<1>1. DialectInv => InstalledIsSafe
  BY DEF DialectInv, InstalledIsSafe, Safe
<1> QED
  BY <1>1, DialectsKept, PTL

-----------------------------------------------------------------------------
(* The rate limiter.                                                       *)

Policy == [capacity : Nat, rate : Nat]
Bucket == [tokens : Nat, capacity : Nat, rate : Nat, last_refill : Nat]

LimiterTypes ==
  /\ now \in 0..TimeBound
  /\ DOMAIN buckets \subseteq Relays
  /\ \A r \in DOMAIN buckets :
       /\ buckets[r] \in Bucket
       /\ buckets[r].last_refill <= now
       /\ buckets[r].tokens <= buckets[r].capacity * Unit
  /\ passes \in [Relays -> [0..TimeBound -> Nat]]
  /\ promised \in [Relays -> Nat]

\* What a bucket let pass since a tick, and what it still holds, was in it or
\* has been refilled since; nothing passed after the last refill.
Paced(b, passed) ==
  \A tick \in 0..TimeBound :
    /\ tick <= b.last_refill =>
         passed[tick] * Unit + b.tokens
           <= b.capacity * Unit + b.rate * (b.last_refill - tick)
    /\ tick > b.last_refill => passed[tick] = 0

\* A wait that was told ends when the refill has made up a token.
Kept(b, until) ==
  until <= TimeBound =>
    /\ until >= b.last_refill
    /\ b.tokens + b.rate * (until - b.last_refill) >= Unit

LimiterInv ==
  /\ LimiterTypes
  /\ \A r \in DOMAIN buckets : Paced(buckets[r], passes[r]) /\ Kept(buckets[r], promised[r])
  /\ \A r \in Relays \ DOMAIN buckets : passes[r] = NoPasses /\ promised[r] = NoPromise
  /\ panicked => \E r \in DOMAIN buckets : WaitPanics(buckets[r])

\* Products of natural numbers: monotonicity and distribution.
LEMMA Products ==
  ASSUME NEW a \in Nat, NEW b \in Nat, NEW c \in Nat
  PROVE  /\ a * b \in Nat
         /\ b <= c => a * b <= a * c /\ b * a <= c * a
         /\ b >= c => a * (b - c) = a * b - a * c
         /\ a * (b + c) = a * b + a * c
         /\ (b + 1) * a = b * a + a
OBVIOUS

\* An amount rounded to the nearest multiple of a size, and one more, is
\* enough of it.
LEMMA RoundedIsEnough ==
  ASSUME NEW amount \in Nat, NEW count \in Nat, NEW size \in Nat, size > 0,
         Rounds(amount, count, size)
  PROVE  size * (count + 1) >= amount
<1>1. 2 * amount <= 2 * count * size + size
  BY DEF Rounds
<1>2. 2 * count * size = 2 * (count * size) /\ count * size = size * count
  OBVIOUS
<1>3. size * count \in Nat /\ size * (count + 1) = size * count + size
  BY Products
<1> HIDE DEF Rounds
<1> QED
  BY <1>1, <1>2, <1>3

\* A wait rounded to the nearest multiple of a size is no longer than that
\* multiple and half the size, rounded up.
LEMMA ToldIsEnough ==
  ASSUME NEW wait \in Nat, NEW count \in Nat, NEW size \in Nat, size > 0,
         Rounds(wait, count, size)
  PROVE  /\ (size + 2) \div 2 \in Nat
         /\ count * size \in Nat
         /\ count * size + (size + 2) \div 2 >= wait + 1
<1>1. 2 * wait <= 2 * (count * size) + size
  BY DEF Rounds
<1>2. count * size \in Nat
  BY Products
<1>3. (size + 2) \div 2 \in Nat /\ 2 * ((size + 2) \div 2) >= size + 1
  OBVIOUS
<1> QED
  BY <1>1, <1>2, <1>3

\* What refill makes of a bucket: no more than was gained, nor than fits.
LEMMA RefillWorks ==
  ASSUME NEW b \in Bucket, now \in Nat, b.last_refill <= now,
         b.tokens <= b.capacity * Unit
  PROVE  LET full == refill(b)
             gained == b.tokens + (now - b.last_refill) * b.rate
         IN  /\ full \in Bucket /\ full.last_refill = now
             /\ full.capacity = b.capacity /\ full.rate = b.rate
             /\ full.tokens <= b.capacity * Unit
             /\ full.tokens = gained \/ full.tokens = b.capacity * Unit
             /\ full.tokens <= gained
<1> DEFINE gained == b.tokens + (now - b.last_refill) * b.rate
<1>1. /\ b.tokens \in Nat /\ b.capacity \in Nat /\ b.rate \in Nat /\ b.last_refill \in Nat
      /\ Unit \in Nat
  BY SpamAssumption DEF Bucket
<1>2. b.capacity * Unit \in Nat
  BY <1>1, Products
<1>3. now - b.last_refill \in Nat
  BY <1>1
<1>4. (now - b.last_refill) * b.rate \in Nat
  BY <1>1, <1>3, Products
<1>5. refill(b) = [b EXCEPT !.tokens = Smaller(gained, b.capacity * Unit), !.last_refill = now]
  BY DEF refill
<1>6. /\ Smaller(gained, b.capacity * Unit) \in Nat
      /\ Smaller(gained, b.capacity * Unit) <= b.capacity * Unit
      /\ Smaller(gained, b.capacity * Unit) <= gained
      /\ \/ Smaller(gained, b.capacity * Unit) = gained
         \/ Smaller(gained, b.capacity * Unit) = b.capacity * Unit
  BY <1>1, <1>2, <1>4 DEF Smaller
<1> HIDE DEF gained
<1>7. /\ refill(b) \in Bucket
      /\ refill(b).tokens = Smaller(gained, b.capacity * Unit)
      /\ refill(b).last_refill = now
      /\ refill(b).capacity = b.capacity /\ refill(b).rate = b.rate
  BY <1>5, <1>6 DEF Bucket
<1> QED
  BY <1>6, <1>7 DEF gained

\* The arithmetic of a refill: what is gained over a span is within its rate.
LEMMA Slack ==
  ASSUME NEW p \in Int, NEW old \in Int, NEW new \in Int, NEW cap \in Int,
         NEW upto \in Int, NEW last \in Int, NEW from \in Int,
         p + old <= cap + (last - from), new <= old + (upto - last)
  PROVE  p + new <= cap + (upto - from)
OBVIOUS

\* A refilled bucket is still paced.
LEMMA RefillPaced ==
  ASSUME NEW b \in Bucket, now \in 0..TimeBound, b.last_refill <= now,
         b.tokens <= b.capacity * Unit,
         NEW passed \in [0..TimeBound -> Nat], Paced(b, passed)
  PROVE  Paced(refill(b), passed)
<1> DEFINE full == refill(b)
<1>1. /\ b.tokens \in Nat /\ b.capacity \in Nat /\ b.rate \in Nat /\ b.last_refill \in Nat
      /\ Unit \in Nat /\ now \in Nat
  BY SpamAssumption DEF Bucket
<1>2. /\ full \in Bucket /\ full.last_refill = now
      /\ full.capacity = b.capacity /\ full.rate = b.rate
      /\ full.tokens <= b.capacity * Unit
      /\ full.tokens <= b.tokens + (now - b.last_refill) * b.rate
  BY <1>1, RefillWorks
<1>3. b.capacity * Unit \in Nat
  BY <1>1, Products
<1> SUFFICES ASSUME NEW tick \in 0..TimeBound, tick <= now
             PROVE  passed[tick] * Unit + full.tokens
                      <= b.capacity * Unit + b.rate * (now - tick)
  <2>1. ASSUME NEW tick \in 0..TimeBound, tick > now PROVE passed[tick] = 0
    BY <1>1, <2>1 DEF Paced
  <2> QED
    BY <1>2, <2>1 DEF Paced
<1>4. passed[tick] \in Nat /\ tick \in Nat /\ full.tokens \in Nat
  BY <1>2 DEF Bucket
<1>5. b.rate * (now - tick) \in Nat
  BY <1>1, <1>4, Products
<1>6. CASE tick <= b.last_refill
  <2>1. passed[tick] * Unit + b.tokens <= b.capacity * Unit + b.rate * (b.last_refill - tick)
    BY <1>6 DEF Paced
  <2>2. /\ b.rate * (now - tick) = b.rate * now - b.rate * tick
        /\ b.rate * (b.last_refill - tick) = b.rate * b.last_refill - b.rate * tick
        /\ (now - b.last_refill) * b.rate = b.rate * now - b.rate * b.last_refill
    <3>1. (now - b.last_refill) * b.rate = b.rate * (now - b.last_refill)
      BY <1>1
    <3> QED
      BY <3>1, <1>1, <1>4, <1>6, Products
  <2>3. /\ b.rate * now \in Nat /\ b.rate * tick \in Nat /\ b.rate * b.last_refill \in Nat
        /\ passed[tick] * Unit \in Nat
    BY <1>1, <1>4, Products
  <2> DEFINE p == passed[tick] * Unit  cap == b.capacity * Unit  upto == b.rate * now
             last == b.rate * b.last_refill  from == b.rate * tick
  <2>4. p + b.tokens <= cap + (last - from) /\ full.tokens <= b.tokens + (upto - last)
    BY <1>2, <2>1, <2>2
  <2>5. /\ p \in Int /\ cap \in Int /\ upto \in Int /\ last \in Int /\ from \in Int
        /\ b.tokens \in Int /\ full.tokens \in Int
    BY <1>1, <1>3, <1>4, <2>3
  <2> HIDE DEF p, cap, upto, last, from, full
  <2>6. p + full.tokens <= cap + (upto - from)
    BY <2>4, <2>5, Slack
  <2> QED
    BY <2>2, <2>6 DEF p, cap, upto, from
<1>7. CASE tick > b.last_refill
  <2>1. passed[tick] = 0
    BY <1>7 DEF Paced
  <2>2. passed[tick] * Unit = 0
    BY <2>1, <1>1
  <2> QED
    BY <1>2, <1>3, <1>4, <1>5, <2>2
<1> QED
  BY <1>1, <1>4, <1>6, <1>7

\* A new bucket is full and paced.
LEMMA NewBucketIsPaced ==
  ASSUME NEW policy \in Policy, now \in 0..TimeBound
  PROVE  /\ NewBucket(policy) \in Bucket
         /\ NewBucket(policy).last_refill <= now
         /\ NewBucket(policy).tokens <= NewBucket(policy).capacity * Unit
         /\ Paced(NewBucket(policy), NoPasses)
<1> DEFINE b == NewBucket(policy)
<1>1. policy.capacity \in Nat /\ policy.rate \in Nat /\ Unit \in Nat /\ now \in Nat
  BY SpamAssumption DEF Policy
<1>2. policy.capacity * Unit \in Nat
  BY <1>1, Products
<1>3. /\ b \in Bucket /\ b.tokens = policy.capacity * Unit /\ b.capacity = policy.capacity
      /\ b.rate = policy.rate /\ b.last_refill = now
  BY <1>1, <1>2 DEF NewBucket, Bucket
<1>4. ASSUME NEW tick \in 0..TimeBound, tick <= now
      PROVE  NoPasses[tick] * Unit + b.tokens <= b.capacity * Unit + b.rate * (now - tick)
  <2>1. NoPasses[tick] * Unit = 0
    BY <1>1 DEF NoPasses
  <2>2. now - tick \in Nat
    BY <1>1, <1>4
  <2>3. policy.rate * (now - tick) \in Nat
    BY <1>1, <2>2, Products
  <2> QED
    BY <1>2, <1>3, <2>1, <2>3
<1>5. \A tick \in 0..TimeBound : NoPasses[tick] = 0
  BY DEF NoPasses
<1> QED
  BY <1>1, <1>2, <1>3, <1>4, <1>5 DEF Paced

\* So is the bucket a relay has, or gets by being asked for.
LEMMA BucketOfIsPaced ==
  ASSUME LimiterInv, NEW relay \in Relays
  PROVE  /\ BucketOf(relay) \in Bucket
         /\ BucketOf(relay).last_refill <= now
         /\ BucketOf(relay).tokens <= BucketOf(relay).capacity * Unit
         /\ Paced(BucketOf(relay), passes[relay])
<1>1. CASE relay \in DOMAIN buckets
  BY <1>1 DEF BucketOf, LimiterInv, LimiterTypes
<1>2. CASE relay \notin DOMAIN buckets
  <2>1. BucketOf(relay) = NewBucket(DefaultPolicy) /\ passes[relay] = NoPasses
    BY <1>2 DEF BucketOf, LimiterInv
  <2>2. DefaultPolicy \in Policy /\ now \in 0..TimeBound
    BY SpamAssumption DEF Policy, LimiterInv, LimiterTypes
  <2> QED
    BY <2>1, <2>2, NewBucketIsPaced
<1> QED
  BY <1>1, <1>2

\* A step that gives one relay a new bucket and history keeps the invariant
\* when the two fit.
LEMMA SetKeepsInv ==
  ASSUME LimiterInv, NEW relay \in Relays, NEW b \in Bucket,
         SetBucket(relay, b), now' = now, b.last_refill = now,
         b.tokens <= b.capacity * Unit,
         NEW passed \in [0..TimeBound -> Nat], NEW until \in Nat,
         passes' = [passes EXCEPT ![relay] = passed],
         promised' = [promised EXCEPT ![relay] = until],
         Paced(b, passed), Kept(b, until),
         panicked' => WaitPanics(b)
  PROVE  LimiterInv'
<1>1. /\ DOMAIN buckets' = DOMAIN buckets \union {relay}
      /\ buckets'[relay] = b
      /\ \A r \in DOMAIN buckets : r # relay => buckets'[r] = buckets[r]
  BY DEF SetBucket
<1>2. /\ passes' \in [Relays -> [0..TimeBound -> Nat]]
      /\ promised' \in [Relays -> Nat]
      /\ passes'[relay] = passed /\ promised'[relay] = until
      /\ \A r \in Relays : r # relay => passes'[r] = passes[r] /\ promised'[r] = promised[r]
  BY DEF LimiterInv, LimiterTypes
<1>3. LimiterTypes'
  <2>1. now' \in 0..TimeBound /\ DOMAIN buckets' \subseteq Relays
    BY <1>1 DEF LimiterInv, LimiterTypes
  <2>2. ASSUME NEW r \in DOMAIN buckets'
        PROVE  /\ buckets'[r] \in Bucket
               /\ buckets'[r].last_refill <= now'
               /\ buckets'[r].tokens <= buckets'[r].capacity * Unit
    <3>1. CASE r = relay
      BY <1>1, <3>1 DEF LimiterInv, LimiterTypes
    <3>2. CASE r # relay
      BY <1>1, <3>2 DEF LimiterInv, LimiterTypes
    <3> QED
      BY <3>1, <3>2
  <2> QED
    BY <1>2, <2>1, <2>2 DEF LimiterTypes
<1>4. \A r \in DOMAIN buckets' : Paced(buckets'[r], passes'[r]) /\ Kept(buckets'[r], promised'[r])
  BY <1>1, <1>2 DEF LimiterInv, LimiterTypes
<1>5. \A r \in Relays \ DOMAIN buckets' : passes'[r] = NoPasses /\ promised'[r] = NoPromise
  BY <1>1, <1>2 DEF LimiterInv
<1>6. panicked' => \E r \in DOMAIN buckets' : WaitPanics(buckets'[r])
  BY <1>1
<1> QED
  BY <1>3, <1>4, <1>5, <1>6 DEF LimiterInv

\* A message that is let through takes a token, so its bucket stays paced.
LEMMA CheckOkKeepsInv ==
  ASSUME LimiterInv, NEW relay \in Relays, ~panicked, CheckOk(relay)
  PROVE  LimiterInv'
<1> DEFINE full == refill(BucketOf(relay))
           left == [full EXCEPT !.tokens = @ - Unit]
           passed == [tick \in 0..TimeBound |-> IF tick <= now THEN passes[relay][tick] + 1
                                                ELSE passes[relay][tick]]
<1>1. now \in 0..TimeBound /\ now \in Nat /\ passes[relay] \in [0..TimeBound -> Nat]
      /\ Unit \in Nat
  BY SpamAssumption DEF LimiterInv, LimiterTypes
<1>2. /\ full \in Bucket /\ full.last_refill = now
      /\ full.tokens <= full.capacity * Unit
      /\ Paced(full, passes[relay])
  BY <1>1, BucketOfIsPaced, RefillWorks, RefillPaced
<1>3. full.tokens >= Unit /\ SetBucket(relay, left) /\ now' = now /\ panicked' = panicked
  BY DEF CheckOk
<1>4. passes' = [passes EXCEPT ![relay] = passed]
  BY DEF CheckOk, LimiterInv, LimiterTypes
<1>5. promised' = [promised EXCEPT ![relay] = NoPromise]
  BY DEF CheckOk
<1> HIDE DEF full
<1>6. /\ left \in Bucket /\ left.last_refill = now /\ left.capacity = full.capacity
      /\ left.rate = full.rate /\ left.tokens = full.tokens - Unit
  BY <1>1, <1>2, <1>3 DEF Bucket
<1>7. passed \in [0..TimeBound -> Nat]
  <2>1. \A tick \in 0..TimeBound : passes[relay][tick] \in Nat
    BY <1>1
  <2> QED
    BY <2>1
<1>8. left.tokens <= left.capacity * Unit
  <2>1. full.tokens \in Nat /\ full.capacity * Unit \in Nat
    BY <1>1, <1>2, Products DEF Bucket
  <2> QED
    BY <1>1, <1>2, <1>3, <1>6, <2>1
<1>9. Paced(left, passed)
  <2>1. ASSUME NEW tick \in 0..TimeBound, tick <= now
        PROVE  passed[tick] * Unit + left.tokens
                 <= left.capacity * Unit + left.rate * (now - tick)
    <3>1. passes[relay][tick] * Unit + full.tokens
            <= full.capacity * Unit + full.rate * (now - tick)
      BY <1>2, <2>1 DEF Paced
    <3>2. passed[tick] = passes[relay][tick] + 1 /\ passes[relay][tick] \in Nat
      BY <1>1, <2>1
    <3>3. passed[tick] * Unit = passes[relay][tick] * Unit + Unit
      BY <1>1, <3>2, Products
    <3>4. full.tokens \in Nat /\ full.capacity * Unit \in Nat /\ full.rate \in Nat
          /\ now - tick \in Nat /\ passes[relay][tick] * Unit \in Nat
      BY <1>1, <1>2, <2>1, <3>2, Products DEF Bucket
    <3>5. full.rate * (now - tick) \in Nat
      BY <3>4, Products
    <3> HIDE DEF left, passed
    <3> QED
      BY <1>1, <1>6, <3>1, <3>3, <3>4, <3>5
  <2>2. ASSUME NEW tick \in 0..TimeBound, tick > now PROVE passed[tick] = 0
    BY <1>1, <1>2, <2>2 DEF Paced
  <2> QED
    BY <1>6, <2>1, <2>2 DEF Paced
<1>10. Kept(left, NoPromise) /\ NoPromise \in Nat
  BY SpamAssumption DEF Kept, NoPromise
<1> HIDE DEF left, passed
<1> QED
  BY <1>3, <1>4, <1>5, <1>6, <1>7, <1>8, <1>9, <1>10, SetKeepsInv

\* A wait that is told promises only what the rate will bring.
LEMMA TellKeepsInv ==
  ASSUME LimiterInv, NEW relay \in Relays, ~panicked,
         NEW wait \in time_until_available(refill(BucketOf(relay))),
         NEW shown \in Nat, NEW precision \in Nat, shown + precision >= wait + 1,
         TellWait(relay, shown, precision)
  PROVE  LimiterInv'
<1> DEFINE full == refill(BucketOf(relay))
           until == Until(now + shown + precision)
<1>1. now \in 0..TimeBound /\ now \in Nat /\ passes[relay] \in [0..TimeBound -> Nat]
      /\ Unit \in Nat /\ Unit > 0 /\ NoPromise \in Nat /\ NoPromise > TimeBound
  BY SpamAssumption DEF LimiterInv, LimiterTypes, NoPromise
<1>2. /\ full \in Bucket /\ full.last_refill = now
      /\ full.tokens <= full.capacity * Unit
      /\ Paced(full, passes[relay])
  BY <1>1, BucketOfIsPaced, RefillWorks, RefillPaced
<1>3. SetBucket(relay, full) /\ now' = now /\ panicked' = panicked
  BY DEF TellWait
<1>4. promised' = [promised EXCEPT ![relay] = until]
  BY DEF TellWait
<1>5. passes' = [passes EXCEPT ![relay] = passes[relay]]
  BY DEF TellWait, LimiterInv, LimiterTypes
<1>6. full.tokens \in Nat /\ full.rate \in Nat
  BY <1>2 DEF Bucket
<1>7. wait \in time_until_available(full)
  OBVIOUS
<1> HIDE DEF full
<1>8. wait \in Nat
  BY <1>1, <1>7 DEF time_until_available
<1>9. until \in Nat /\ (until <= TimeBound => until = now + shown + precision)
  BY <1>1, SpamAssumption DEF Until, Smaller
<1> HIDE DEF until
<1>10. Kept(full, until)
  <2>1. SUFFICES ASSUME until <= TimeBound
                 PROVE  /\ until >= full.last_refill
                        /\ full.tokens + full.rate * (until - full.last_refill) >= Unit
    BY DEF Kept
  <2> DEFINE gone == until - full.last_refill
  <2>2. gone = shown + precision
    BY <1>1, <1>2, <1>9, <2>1
  <2>3. gone \in Nat /\ gone >= wait + 1 /\ until >= full.last_refill
    BY <1>1, <1>2, <1>8, <1>9, <2>1, <2>2
  <2> HIDE DEF gone
  <2>4. full.rate * gone \in Nat
    BY <1>6, <2>3, Products
  <2>5. full.tokens + full.rate * gone >= Unit
    <3>1. CASE full.tokens >= Unit
      BY <1>1, <1>6, <2>4, <3>1
    <3>2. CASE full.tokens < Unit
      <4>1. Unit - full.tokens \in Nat /\ Unit - full.tokens > 0
        BY <1>1, <1>6, <3>2
      <4>2. Rounds(Unit - full.tokens, wait, full.rate)
        BY <1>1, <1>6, <1>7, <3>2 DEF time_until_available
      <4>3. full.rate > 0
        <5>1. CASE full.rate = 0
          <6>1. 2 * (Unit - full.tokens) <= 2 * wait * 0 + 0
            BY <4>2, <5>1 DEF Rounds
          <6> QED
            BY <1>8, <4>1, <6>1
        <5> QED
          BY <1>6, <5>1
      <4>4. full.rate * (wait + 1) >= Unit - full.tokens
        BY <1>6, <1>8, <4>1, <4>2, <4>3, RoundedIsEnough
      <4>5. full.rate * (wait + 1) <= full.rate * gone /\ full.rate * (wait + 1) \in Nat
        BY <1>6, <1>8, <2>3, Products
      <4> QED
        BY <1>1, <1>6, <2>4, <4>4, <4>5
    <3> QED
      BY <1>1, <1>6, <3>1, <3>2
  <2> QED
    BY <2>3, <2>5 DEF gone
<1> QED
  BY <1>2, <1>3, <1>4, <1>5, <1>9, <1>10, <1>1, SetKeepsInv

\* So does each of the two calls that tell one.
LEMMA ReadyKeepsInv ==
  ASSUME LimiterInv, NEW relay \in Relays, ~panicked, time_until_ready(relay)
  PROVE  LimiterInv'
<1>1. PICK wait \in time_until_available(refill(BucketOf(relay))) : TellWait(relay, wait, 1)
  BY DEF time_until_ready
<1>2. wait \in Nat
  BY <1>1, SpamAssumption DEF time_until_available
<1>3. 1 \in Nat /\ wait + 1 >= wait + 1
  BY <1>2
<1> QED
  BY <1>1, <1>2, <1>3, TellKeepsInv

LEMMA LimitedKeepsInv ==
  ASSUME LimiterInv, NEW relay \in Relays, ~panicked, CheckLimited(relay)
  PROVE  LimiterInv'
<1>1. PICK wait \in time_until_available(refill(BucketOf(relay))), tenths \in 0..Unit :
        /\ Rounds(wait, tenths, Tenth)
        /\ TellWait(relay, tenths * Tenth, (Tenth + 2) \div 2)
  BY DEF CheckLimited
<1>2. wait \in Nat /\ tenths \in Nat /\ Tenth \in Nat /\ Tenth > 0
  BY <1>1, SpamAssumption DEF time_until_available
<1>3. /\ (Tenth + 2) \div 2 \in Nat /\ tenths * Tenth \in Nat
      /\ tenths * Tenth + (Tenth + 2) \div 2 >= wait + 1
  BY ONLY <1>1, <1>2, ToldIsEnough
<1> DEFINE shown == tenths * Tenth
           precision == (Tenth + 2) \div 2
<1>4. TellWait(relay, shown, precision) /\ shown \in Nat /\ precision \in Nat
      /\ shown + precision >= wait + 1
  BY <1>1, <1>3
<1> HIDE DEF shown, precision
<1> QED
  BY <1>1, <1>4, TellKeepsInv

\* A panic leaves the empty bucket of rate 0 that made it.
LEMMA PanicKeepsInv ==
  ASSUME LimiterInv, NEW relay \in Relays, ~panicked, PanicWaiting(relay)
  PROVE  LimiterInv'
<1> DEFINE full == refill(BucketOf(relay))
<1>1. now \in 0..TimeBound /\ passes[relay] \in [0..TimeBound -> Nat]
      /\ promised \in [Relays -> Nat]
  BY DEF LimiterInv, LimiterTypes
<1>2. /\ full \in Bucket /\ full.last_refill = now
      /\ full.tokens <= full.capacity * Unit
      /\ Paced(full, passes[relay])
  BY <1>1, BucketOfIsPaced, RefillWorks, RefillPaced
<1>3. Kept(full, promised[relay])
  <2> DEFINE b == BucketOf(relay)
             gained == b.tokens + (now - b.last_refill) * b.rate
  <2>1. b \in Bucket /\ b.last_refill <= now /\ b.tokens <= b.capacity * Unit
    BY BucketOfIsPaced
  <2>2. /\ full.rate = b.rate
        /\ full.tokens = gained \/ full.tokens = b.capacity * Unit
        /\ full.tokens <= gained
    BY <1>1, <2>1, RefillWorks
  <2>3. full.tokens < Unit /\ full.rate = 0
    BY DEF PanicWaiting, WaitPanics
  <2>4. CASE relay \in DOMAIN buckets
    <3>1. Kept(b, promised[relay])
      BY <2>4 DEF BucketOf, LimiterInv
    <3> HIDE DEF b, full
    <3>2. b.rate = 0 /\ b.tokens \in Nat /\ b.last_refill \in Nat /\ now \in Nat
          /\ promised[relay] \in Nat /\ b.capacity \in Nat /\ Unit \in Nat
      BY <1>1, <2>1, <2>2, <2>3, SpamAssumption DEF Bucket
    <3>3. b.capacity * Unit \in Nat
      BY <3>2, Products
    <3>4. gained = b.tokens /\ (now - b.last_refill) * b.rate = 0
      BY <3>2
    <3>5. b.tokens < Unit
      BY <2>1, <2>2, <2>3, <3>2, <3>3, <3>4
    <3>6. b.rate * (promised[relay] - b.last_refill) = 0
      BY <3>2
    <3>7. ~(promised[relay] <= TimeBound)
      BY <3>1, <3>2, <3>5, <3>6 DEF Kept
    <3> QED
      BY <3>7 DEF Kept
  <2>5. CASE relay \notin DOMAIN buckets
    BY <2>5, SpamAssumption DEF LimiterInv, Kept, NoPromise
  <2> QED
    BY <2>4, <2>5
<1>4. /\ WaitPanics(full) /\ SetBucket(relay, full) /\ now' = now
      /\ passes' = [passes EXCEPT ![relay] = passes[relay]]
      /\ promised' = [promised EXCEPT ![relay] = promised[relay]]
  BY DEF PanicWaiting, LimiterInv, LimiterTypes
<1> HIDE DEF full
<1> QED
  BY <1>1, <1>2, <1>3, <1>4, SetKeepsInv

\* A new policy starts a new bucket.
LEMMA PolicyKeepsInv ==
  ASSUME LimiterInv, NEW relay \in Relays, NEW policy \in Policies, ~panicked,
         set_relay_policy(relay, policy)
  PROVE  LimiterInv'
<1>1. now \in 0..TimeBound /\ policy \in Policy
  BY SpamAssumption DEF LimiterInv, LimiterTypes, Policy
<1>2. NoPasses \in [0..TimeBound -> Nat] /\ NoPromise \in Nat /\ NoPromise > TimeBound
  BY SpamAssumption DEF NoPasses, NoPromise
<1>3. /\ SetBucket(relay, NewBucket(policy)) /\ now' = now /\ panicked' = panicked
      /\ passes' = [passes EXCEPT ![relay] = NoPasses]
      /\ promised' = [promised EXCEPT ![relay] = NoPromise]
  BY DEF set_relay_policy, Forget
<1>4. Kept(NewBucket(policy), NoPromise)
  BY <1>1, <1>2, SpamAssumption DEF Kept
<1>5. NewBucket(policy).last_refill = now
  BY DEF NewBucket
<1> QED
  BY <1>1, <1>2, <1>3, <1>4, <1>5, NewBucketIsPaced, SetKeepsInv

\* A reset forgets the bucket, and what was promised of it.
LEMMA ResetKeepsInv ==
  ASSUME LimiterInv, NEW relay \in Relays, ~panicked, reset(relay)
  PROVE  LimiterInv'
<1>1. NoPasses \in [0..TimeBound -> Nat] /\ NoPromise \in Nat
  BY SpamAssumption DEF NoPasses, NoPromise
<1>2. /\ DOMAIN buckets' = DOMAIN buckets \ {relay}
      /\ \A r \in DOMAIN buckets' : buckets'[r] = buckets[r]
      /\ now' = now /\ panicked' = panicked
  BY DEF reset
<1>3. /\ passes' \in [Relays -> [0..TimeBound -> Nat]]
      /\ promised' \in [Relays -> Nat]
      /\ passes'[relay] = NoPasses /\ promised'[relay] = NoPromise
      /\ \A r \in Relays : r # relay => passes'[r] = passes[r] /\ promised'[r] = promised[r]
  BY <1>1 DEF reset, Forget, LimiterInv, LimiterTypes
<1>4. LimiterTypes'
  BY <1>2, <1>3 DEF LimiterInv, LimiterTypes
<1>5. \A r \in DOMAIN buckets' : Paced(buckets'[r], passes'[r]) /\ Kept(buckets'[r], promised'[r])
  BY <1>2, <1>3 DEF LimiterInv, LimiterTypes
<1>6. \A r \in Relays \ DOMAIN buckets' : passes'[r] = NoPasses /\ promised'[r] = NoPromise
  BY <1>2, <1>3 DEF LimiterInv
<1>7. ~panicked'
  BY <1>2
<1> QED
  BY <1>4, <1>5, <1>6, <1>7 DEF LimiterInv

\* Time may pass.
LEMMA TickKeepsInv ==
  ASSUME LimiterInv, ~panicked, Tick
  PROVE  LimiterInv'
<1>1. now' \in 0..TimeBound /\ now <= now'
  BY SpamAssumption DEF Tick, LimiterInv, LimiterTypes
<1>2. LimiterTypes'
  BY <1>1, SpamAssumption DEF Tick, LimiterInv, LimiterTypes, Bucket
<1>3. UNCHANGED <<buckets, passes, promised, panicked>>
  BY DEF Tick
<1>4. \A r \in DOMAIN buckets : buckets[r].last_refill <= now' /\ buckets[r].last_refill \in Nat
  BY <1>1, <1>2, SpamAssumption DEF LimiterInv, LimiterTypes, Bucket
<1>5. \A r \in DOMAIN buckets' : Paced(buckets'[r], passes'[r]) /\ Kept(buckets'[r], promised'[r])
  BY <1>3 DEF LimiterInv
<1>6. \A r \in Relays \ DOMAIN buckets' : passes'[r] = NoPasses /\ promised'[r] = NoPromise
  BY <1>3 DEF LimiterInv
<1>7. ~panicked'
  BY <1>3
<1> QED
  BY <1>2, <1>5, <1>6, <1>7 DEF LimiterInv

\* The rate over any span follows from the bucket being paced.
LEMMA InvKeepsRate ==
  ASSUME LimiterInv
  PROVE  LimiterKeepsRate
<1>1. now \in 0..TimeBound /\ now \in Nat /\ Unit \in Nat /\ Unit > 0 /\ TimeBound \in Nat
  BY SpamAssumption DEF LimiterInv, LimiterTypes
<1>2. ASSUME NEW relay \in DOMAIN buckets, NEW tick \in 0..now
      PROVE  passes[relay][tick] * Unit
               <= buckets[relay].capacity * Unit + buckets[relay].rate * (now - tick)
  <2> DEFINE b == buckets[relay]
             full == refill(b)
  <2>1. relay \in Relays /\ b \in Bucket /\ b.last_refill <= now
        /\ b.tokens <= b.capacity * Unit /\ Paced(b, passes[relay])
        /\ passes[relay] \in [0..TimeBound -> Nat]
    BY DEF LimiterInv, LimiterTypes
  <2>2. Paced(full, passes[relay]) /\ full \in Bucket /\ full.last_refill = now
        /\ full.capacity = b.capacity /\ full.rate = b.rate
    BY <1>1, <2>1, RefillPaced, RefillWorks
  <2> HIDE DEF full
  <2>3. tick \in 0..TimeBound /\ tick <= now /\ now - tick \in Nat
    BY <1>1
  <2>4. passes[relay][tick] * Unit + full.tokens <= b.capacity * Unit + b.rate * (now - tick)
    BY <2>2, <2>3 DEF Paced
  <2>5. /\ full.tokens \in Nat /\ b.capacity * Unit \in Nat /\ b.rate * (now - tick) \in Nat
        /\ passes[relay][tick] * Unit \in Nat
    BY <1>1, <2>1, <2>2, <2>3, Products DEF Bucket
  <2> QED
    BY <2>4, <2>5
<1>3. ASSUME NEW relay \in Relays, promised[relay] <= now
      PROVE  refill(BucketOf(relay)).tokens >= Unit <=> BucketOf(relay).capacity > 0
  <2> DEFINE b == BucketOf(relay)
             full == refill(b)
             gained == b.tokens + (now - b.last_refill) * b.rate
  <2>1. relay \in DOMAIN buckets
    BY <1>1, <1>3 DEF LimiterInv, NoPromise
  <2>2. b \in Bucket /\ b.last_refill <= now /\ b.tokens <= b.capacity * Unit
        /\ Kept(b, promised[relay]) /\ promised[relay] \in Nat
    BY <2>1 DEF BucketOf, LimiterInv, LimiterTypes
  <2>3. /\ full \in Bucket /\ full.tokens <= b.capacity * Unit
        /\ full.tokens = gained \/ full.tokens = b.capacity * Unit
    BY <1>1, <2>2, RefillWorks
  <2> HIDE DEF full, b
  <2>4. full.tokens \in Nat /\ b.capacity \in Nat /\ b.tokens \in Nat /\ b.rate \in Nat
        /\ b.last_refill \in Nat
    BY <2>2, <2>3 DEF Bucket
  <2>5. gained >= Unit
    <3>1. promised[relay] >= b.last_refill
          /\ b.tokens + b.rate * (promised[relay] - b.last_refill) >= Unit
      BY <1>1, <1>3, <2>2 DEF Kept
    <3>2. b.rate * (promised[relay] - b.last_refill) <= (now - b.last_refill) * b.rate
      <4>1. /\ promised[relay] - b.last_refill \in Nat /\ now - b.last_refill \in Nat
            /\ promised[relay] - b.last_refill <= now - b.last_refill
        BY <1>1, <1>3, <2>2, <2>4, <3>1
      <4>2. b.rate * (promised[relay] - b.last_refill) <= b.rate * (now - b.last_refill)
        BY <2>4, <4>1, Products
      <4>3. b.rate * (now - b.last_refill) = (now - b.last_refill) * b.rate
        BY <2>4, <4>1
      <4> QED
        BY <4>2, <4>3
    <3>3. b.rate * (promised[relay] - b.last_refill) \in Nat
          /\ (now - b.last_refill) * b.rate \in Nat
      BY <1>1, <2>2, <2>4, <3>1, Products
    <3> QED
      BY <1>1, <2>4, <3>1, <3>2, <3>3
  <2>6. CASE b.capacity > 0
    <3>1. b.capacity * Unit >= Unit
      <4>1. 1 * Unit <= b.capacity * Unit
        BY <1>1, <2>4, <2>6, Products
      <4> QED
        BY <1>1, <4>1
    <3>2. full.tokens >= Unit <=> b.capacity > 0
      BY <2>3, <2>5, <2>6, <3>1
    <3> QED
      BY <3>2 DEF full, b
  <2>7. CASE b.capacity = 0
    <3>1. b.capacity * Unit = 0
      BY <1>1, <2>7
    <3>2. full.tokens >= Unit <=> b.capacity > 0
      BY <1>1, <2>3, <2>4, <2>7, <3>1
    <3> QED
      BY <3>2 DEF full, b
  <2>8. b.capacity = 0 \/ b.capacity > 0
    BY <2>4
  <2> QED
    BY <2>6, <2>7, <2>8 DEF full, b
<1>4. panicked => \E relay \in DOMAIN buckets : WaitPanics(buckets[relay])
  BY DEF LimiterInv
<1> QED
  BY <1>2, <1>3, <1>4 DEF LimiterKeepsRate, BurstBounded, WaitIsEnough

\* The buckets of an agent are paced and its promises kept.
LEMMA LimiterKept == Spec => []LimiterInv
<1>1. Init => LimiterInv
  <2>1. LimiterInit => LimiterInv
    <3> SUFFICES ASSUME LimiterInit PROVE LimiterInv
      OBVIOUS
    <3>1. DOMAIN buckets = {} /\ now = 0 /\ panicked = FALSE
      BY DEF LimiterInit
    <3>2. /\ passes \in [Relays -> [0..TimeBound -> Nat]] /\ promised \in [Relays -> Nat]
          /\ \A r \in Relays : passes[r] = NoPasses /\ promised[r] = NoPromise
      BY SpamAssumption DEF LimiterInit, NoPasses, NoPromise
    <3> QED
      BY <3>1, <3>2, SpamAssumption DEF LimiterInv, LimiterTypes
  <2> QED
    BY <2>1 DEF Init
<1>2. LimiterInv /\ [Next]_vars => LimiterInv'
  <2>1. ASSUME LimiterInv, UNCHANGED limiterVars PROVE LimiterInv'
    BY <2>1 DEF LimiterInv, LimiterTypes, limiterVars
  <2>2. ASSUME LimiterInv, LimiterStep PROVE LimiterInv'
    BY <2>2, TickKeepsInv, CheckOkKeepsInv, ReadyKeepsInv, LimitedKeepsInv, PanicKeepsInv,
       ResetKeepsInv, PolicyKeepsInv
    DEF LimiterStep
  <2> QED
    BY <2>1, <2>2, StepOfParts DEF PartsMove
<1> QED
  BY <1>1, <1>2, PTL DEF Spec

\* No relay is sent more than its bucket allows; a wait is enough when to what
\* was told is added the precision it was told with, a tick for a Duration
\* and half the last digit for the text, however each was rounded; and only a
\* rate of 0 makes the code panic: for any policies, units, last digits,
\* relays and order of the calls.
THEOREM LimiterCorrect == Spec => []LimiterKeepsRate
BY LimiterKept, InvKeepsRate, PTL

-----------------------------------------------------------------------------
(* The threads.                                                            *)

IsSequence(s) == \E S : s \in Seq(S)

\* The first place of an id in what a thread heard.
FirstAt(heard, i, id) ==
  /\ i \in 1..Len(heard)
  /\ heard[i].id = id
  /\ \A j \in 1..(i - 1) : heard[j].id # id

\* The chain of a thread, read beside what it heard.
Chained(chain, heard) ==
  /\ IsSequence(chain) /\ IsSequence(heard)
  /\ NoRepeat(chain)
  /\ \A i \in 1..Len(heard) : Occurs(heard[i].id, chain)
  /\ \A k \in 1..Len(chain) : \E i : FirstAt(heard, i, chain[k])
  /\ \A k, l \in 1..Len(chain) : \A i, j :
       k < l /\ FirstAt(heard, i, chain[k]) /\ FirstAt(heard, j, chain[l]) => i < j

\* Its participants, and its activity.
Met(participants, initiator, heard) ==
  /\ IsSequence(participants) /\ NoRepeat(participants)
  /\ Occurs(initiator, participants)
  /\ \A i \in 1..Len(heard) : Occurs(heard[i].pubkey, participants)
  /\ \A k \in 1..Len(participants) :
       \/ participants[k] = initiator
       \/ \E i \in 1..Len(heard) : participants[k] = heard[i].pubkey

Latest(activity, heard) ==
  /\ activity \in Nat
  /\ \A i \in 1..Len(heard) : heard[i].created_at <= activity
  /\ activity = 0 \/ \E i \in 1..Len(heard) : activity = heard[i].created_at

IsThread(thread) ==
  thread = [state |-> thread.state, initiator |-> thread.initiator,
            event_chain |-> thread.event_chain, participants |-> thread.participants,
            last_activity |-> thread.last_activity]

ThreadOK(thread, heard) ==
  /\ IsThread(thread)
  /\ Chained(thread.event_chain, heard)
  /\ Met(thread.participants, thread.initiator, heard)

ThreadInv ==
  /\ DOMAIN recorded = Tracked
  /\ \A t \in Tracked : ThreadOK(threads[t], recorded[t])

ActivityInv == \A t \in Tracked : Latest(threads[t].last_activity, recorded[t])

\* A sequence with one more element.
LEMMA Appended ==
  ASSUME NEW s, IsSequence(s), NEW x
  PROVE  /\ IsSequence(Append(s, x))
         /\ Len(s) \in Nat /\ Len(Append(s, x)) = Len(s) + 1
         /\ DOMAIN s = 1..Len(s) /\ DOMAIN Append(s, x) = 1..(Len(s) + 1)
         /\ \A i \in 1..Len(s) : Append(s, x)[i] = s[i]
         /\ Append(s, x)[Len(s) + 1] = x
<1>1. PICK S : s \in Seq(S)
  BY DEF IsSequence
<1>2. s \in Seq(S \union {x}) /\ x \in S \union {x}
  BY <1>1
<1>3. Append(s, x) \in Seq(S \union {x})
  BY <1>2
<1> QED
  BY <1>2, <1>3 DEF IsSequence

\* The same without repetition, as the code's contains-then-push does.
LEMMA AppendedNew ==
  ASSUME NEW s, IsSequence(s), NoRepeat(s), NEW x
  PROVE  /\ IsSequence(AppendNew(s, x)) /\ NoRepeat(AppendNew(s, x))
         /\ Occurs(x, AppendNew(s, x))
         /\ \A y : Occurs(y, s) => Occurs(y, AppendNew(s, x))
         /\ \A y : Occurs(y, AppendNew(s, x)) => y = x \/ Occurs(y, s)
<1>1. CASE Occurs(x, s)
  BY <1>1 DEF AppendNew
<1>2. CASE ~Occurs(x, s)
  <2> DEFINE a == Append(s, x)
  <2>1. AppendNew(s, x) = a
    BY <1>2 DEF AppendNew
  <2>2. /\ IsSequence(a) /\ Len(s) \in Nat
        /\ DOMAIN s = 1..Len(s) /\ DOMAIN a = 1..(Len(s) + 1)
        /\ \A i \in 1..Len(s) : a[i] = s[i]
        /\ a[Len(s) + 1] = x
    BY Appended
  <2> HIDE DEF a
  <2>3. \A i \in DOMAIN a : i \in DOMAIN s \/ i = Len(s) + 1
    BY <2>2
  <2>4. \A i \in DOMAIN s : i \in DOMAIN a /\ a[i] = s[i] /\ i # Len(s) + 1 /\ a[i] # x
    BY <1>2, <2>2 DEF Occurs
  <2>5. NoRepeat(a)
    BY <2>2, <2>3, <2>4 DEF NoRepeat
  <2>6. Len(s) + 1 \in DOMAIN a
    BY <2>2
  <2> QED
    BY <2>1, <2>2, <2>3, <2>4, <2>5, <2>6 DEF Occurs
<1> QED
  BY <1>1, <1>2

\* An id is first heard in one place.
LEMMA FirstIsOne ==
  ASSUME NEW heard, IsSequence(heard), NEW id, NEW i, NEW j,
         FirstAt(heard, i, id), FirstAt(heard, j, id)
  PROVE  i = j
<1>1. Len(heard) \in Nat
  BY DEF IsSequence
<1> QED
  BY <1>1 DEF FirstAt

\* The chain with the id of one more message is that of what was heard.
LEMMA ChainGrows ==
  ASSUME NEW chain, NEW heard, Chained(chain, heard), NEW event
  PROVE  Chained(AppendNew(chain, event.id), Append(heard, event))
<1> DEFINE c == AppendNew(chain, event.id)
           h == Append(heard, event)
           n == Len(heard)
<1>1. /\ IsSequence(chain) /\ IsSequence(heard) /\ NoRepeat(chain)
      /\ \A i \in 1..n : Occurs(heard[i].id, chain)
      /\ \A k \in 1..Len(chain) : \E i : FirstAt(heard, i, chain[k])
  BY DEF Chained
<1>2. /\ IsSequence(h) /\ n \in Nat /\ Len(h) = n + 1
      /\ \A i \in 1..n : h[i] = heard[i]
      /\ h[n + 1] = event
  BY <1>1, Appended
<1>3. /\ IsSequence(c) /\ NoRepeat(c) /\ Occurs(event.id, c)
      /\ \A y : Occurs(y, chain) => Occurs(y, c)
  BY <1>1, AppendedNew
<1>4. DOMAIN chain = 1..Len(chain) /\ DOMAIN c = 1..Len(c) /\ Len(chain) \in Nat
  BY <1>1, <1>3, Appended
<1> HIDE DEF h, n
\* What came first before comes first still.
<1>5. ASSUME NEW id, NEW i, FirstAt(heard, i, id) PROVE FirstAt(h, i, id)
  BY <1>2, <1>5 DEF FirstAt, n
<1>6. \A i \in 1..Len(h) : Occurs(h[i].id, c)
  <2>1. \A i \in 1..n : Occurs(h[i].id, c)
    BY <1>1, <1>2, <1>3
  <2> QED
    BY <1>2, <1>3, <2>1
<1>7. CASE Occurs(event.id, chain)
  <2>1. c = chain
    BY <1>7 DEF AppendNew
  <2>2. \A k \in 1..Len(c) : \E i : FirstAt(h, i, c[k])
    BY <1>1, <1>5, <2>1
  <2>3. ASSUME NEW k \in 1..Len(c), NEW l \in 1..Len(c), NEW i, NEW j,
               k < l, FirstAt(h, i, c[k]), FirstAt(h, j, c[l])
        PROVE  i < j
    <3>1. PICK p, q : FirstAt(heard, p, chain[k]) /\ FirstAt(heard, q, chain[l])
      BY <1>1, <2>1
    <3>2. p < q
      BY <2>1, <2>3, <3>1 DEF Chained
    <3>3. p = i /\ q = j
      BY <1>2, <1>5, <2>1, <2>3, <3>1, FirstIsOne
    <3> QED
      BY <3>2, <3>3
  <2> HIDE DEF c
  <2>4. Chained(c, h)
    BY <1>2, <1>3, <1>6, <2>2, <2>3 DEF Chained
  <2> QED
    BY <2>4 DEF c, h
<1>8. CASE ~Occurs(event.id, chain)
  <2>1. c = Append(chain, event.id)
    BY <1>8 DEF AppendNew
  <2>2. /\ Len(c) = Len(chain) + 1
        /\ \A k \in 1..Len(chain) : c[k] = chain[k]
        /\ c[Len(chain) + 1] = event.id
    BY <1>1, <2>1, Appended
  <2> HIDE DEF c
  <2>3. \A k \in 1..Len(c) : k \in 1..Len(chain) \/ k = Len(chain) + 1
    BY <1>4, <2>2
  <2>4. FirstAt(h, n + 1, event.id)
    <3>1. \A i \in 1..n : h[i].id # event.id
      BY <1>1, <1>2, <1>8
    <3> QED
      BY <1>2, <3>1 DEF FirstAt
  <2>5. ASSUME NEW k \in 1..Len(chain) PROVE \E p \in 1..n : FirstAt(h, p, c[k])
    <3>1. PICK p : FirstAt(heard, p, chain[k])
      BY <1>1
    <3>2. p \in 1..n
      BY <3>1 DEF FirstAt, n
    <3> QED
      BY <1>5, <2>2, <3>1, <3>2
  <2>6. \A k \in 1..Len(c) : \E i : FirstAt(h, i, c[k])
    BY <2>2, <2>3, <2>4, <2>5
  <2>7. ASSUME NEW k \in 1..Len(c), NEW l \in 1..Len(c), NEW i, NEW j,
               k < l, FirstAt(h, i, c[k]), FirstAt(h, j, c[l])
        PROVE  i < j
    <3>1. k \in 1..Len(chain)
      BY <1>4, <2>2, <2>7
    <3>2. CASE l \in 1..Len(chain)
      <4>1. PICK p, q : FirstAt(heard, p, chain[k]) /\ FirstAt(heard, q, chain[l])
        BY <1>1, <3>1, <3>2
      <4>2. p < q
        BY <2>7, <3>1, <3>2, <4>1 DEF Chained
      <4>3. FirstAt(h, p, c[k]) /\ FirstAt(h, q, c[l])
        BY <1>5, <2>2, <3>1, <3>2, <4>1
      <4>4. p = i /\ q = j
        BY <1>2, <2>7, <4>3, FirstIsOne
      <4> QED
        BY <4>2, <4>4
    <3>3. CASE l = Len(chain) + 1
      <4>1. PICK p \in 1..n : FirstAt(h, p, c[k])
        BY <2>5, <3>1
      <4>2. p = i /\ j = n + 1
        BY <1>2, <2>2, <2>4, <2>7, <3>3, <4>1, FirstIsOne
      <4> QED
        BY <1>2, <4>1, <4>2
    <3> QED
      BY <2>3, <3>2, <3>3
  <2>8. Chained(c, h)
    BY <1>2, <1>3, <1>6, <2>6, <2>7 DEF Chained
  <2> QED
    BY <2>8 DEF c, h
<1> QED
  BY <1>7, <1>8

\* So are the participants with its author.
LEMMA PartiesGrow ==
  ASSUME NEW participants, NEW initiator, NEW heard, IsSequence(heard),
         Met(participants, initiator, heard), NEW event
  PROVE  Met(AppendNew(participants, event.pubkey), initiator, Append(heard, event))
<1> DEFINE p == AppendNew(participants, event.pubkey)
           h == Append(heard, event)
           n == Len(heard)
<1>1. /\ IsSequence(participants) /\ NoRepeat(participants)
      /\ Occurs(initiator, participants)
      /\ \A i \in 1..n : Occurs(heard[i].pubkey, participants)
      /\ \A k \in 1..Len(participants) :
           \/ participants[k] = initiator
           \/ \E i \in 1..n : participants[k] = heard[i].pubkey
  BY DEF Met
<1>2. /\ n \in Nat /\ Len(h) = n + 1
      /\ \A i \in 1..n : h[i] = heard[i]
      /\ h[n + 1] = event
  BY Appended
<1>3. /\ IsSequence(p) /\ NoRepeat(p) /\ Occurs(event.pubkey, p)
      /\ \A y : Occurs(y, participants) => Occurs(y, p)
      /\ \A y : Occurs(y, p) => y = event.pubkey \/ Occurs(y, participants)
  BY <1>1, AppendedNew
<1>4. DOMAIN participants = 1..Len(participants) /\ DOMAIN p = 1..Len(p)
  BY <1>1, <1>3, Appended
<1> HIDE DEF p, h, n
<1>5. \A i \in 1..Len(h) : i \in 1..n \/ i = n + 1
  BY <1>2
<1>6. \A i \in 1..n : i \in 1..Len(h)
  BY <1>2
<1>7. n + 1 \in 1..Len(h)
  BY <1>2
<1>8. \A i \in 1..Len(h) : Occurs(h[i].pubkey, p)
  BY <1>1, <1>2, <1>3, <1>5
<1>9. ASSUME NEW k \in 1..Len(p)
      PROVE  p[k] = initiator \/ \E i \in 1..Len(h) : p[k] = h[i].pubkey
  <2>1. Occurs(p[k], p)
    BY <1>4 DEF Occurs
  <2>2. CASE p[k] = event.pubkey
    BY <1>2, <1>7, <2>2
  <2>3. CASE Occurs(p[k], participants)
    <3>1. PICK l \in 1..Len(participants) : participants[l] = p[k]
      BY <1>4, <2>3 DEF Occurs
    <3> QED
      BY <1>1, <1>2, <1>6, <3>1
  <2> QED
    BY <1>3, <2>1, <2>2, <2>3
<1> QED
  BY <1>1, <1>3, <1>8, <1>9 DEF Met, p, h

\* So is the last activity with its date.
LEMMA ActivityGrows ==
  ASSUME NEW activity, NEW heard, IsSequence(heard), Latest(activity, heard),
         NEW event, event.created_at \in Nat,
         \A i \in 1..Len(heard) : heard[i].created_at \in Nat
  PROVE  Latest(IF event.created_at > activity THEN event.created_at ELSE activity,
                Append(heard, event))
<1> DEFINE h == Append(heard, event)
           n == Len(heard)
<1>1. /\ n \in Nat /\ Len(h) = n + 1
      /\ \A i \in 1..n : h[i] = heard[i]
      /\ h[n + 1] = event
  BY Appended
<1>2. /\ activity \in Nat
      /\ \A i \in 1..n : heard[i].created_at <= activity
      /\ activity = 0 \/ \E i \in 1..n : activity = heard[i].created_at
  BY DEF Latest
<1> HIDE DEF h
<1>3. \A i \in 1..Len(h) : i \in 1..n \/ i = n + 1
  BY <1>1
<1>4. (\A i \in 1..n : i \in 1..Len(h)) /\ n + 1 \in 1..Len(h)
  BY <1>1
<1> HIDE DEF n
<1>5. \A i \in 1..n : h[i].created_at \in Nat /\ h[i].created_at <= activity
  BY <1>1, <1>2 DEF n
<1> DEFINE at == event.created_at
<1>6. at \in Nat /\ h[n + 1].created_at = at
  BY <1>1
<1> HIDE DEF at
<1>7. CASE at > activity
  <2>1. \A i \in 1..Len(h) : h[i].created_at <= at
    BY <1>2, <1>3, <1>5, <1>6, <1>7
  <2>2. Latest(at, h)
    BY <1>4, <1>6, <2>1 DEF Latest
  <2> QED
    BY <1>7, <2>2 DEF at, h
<1>8. CASE ~(at > activity)
  <2>1. \A i \in 1..Len(h) : h[i].created_at <= activity
    BY <1>2, <1>3, <1>5, <1>6, <1>8
  <2>2. activity = 0 \/ \E i \in 1..Len(h) : activity = h[i].created_at
    BY <1>1, <1>2, <1>4
  <2>3. Latest(activity, h)
    BY <1>2, <2>1, <2>2 DEF Latest
  <2> QED
    BY <1>8, <2>3 DEF at, h
<1> QED
  BY <1>7, <1>8

\* A thread that was just opened has heard nothing.
LEMMA NewThreadIsOK ==
  ASSUME NEW initiator
  PROVE  ThreadOK(NewThread(initiator), <<>>) /\ Latest(0, <<>>)
<1>1. IsSequence(<<>>) /\ IsSequence(<<initiator>>)
  <2>1. <<>> \in Seq({initiator}) /\ <<initiator>> \in Seq({initiator})
    OBVIOUS
  <2> QED
    BY <2>1 DEF IsSequence
<1>2. Chained(<<>>, <<>>)
  BY <1>1 DEF Chained, NoRepeat
<1>3. Met(<<initiator>>, initiator, <<>>)
  BY <1>1 DEF Met, NoRepeat, Occurs
<1>4. Latest(0, <<>>)
  BY DEF Latest
<1> QED
  BY <1>2, <1>3, <1>4 DEF ThreadOK, NewThread, IsThread

\* A message recorded on a thread keeps its chain and participants right.
LEMMA WithEventIsOK ==
  ASSUME NEW thread, NEW heard, ThreadOK(thread, heard), NEW event
  PROVE  ThreadOK(WithEvent(thread, event), Append(heard, event))
<1> DEFINE next == WithEvent(thread, event)
           chain == AppendNew(thread.event_chain, event.id)
           participants == AppendNew(thread.participants, event.pubkey)
           newest == IF event.created_at > thread.last_activity THEN event.created_at
                     ELSE thread.last_activity
<1>1. next = [state |-> thread.state, initiator |-> thread.initiator,
              event_chain |-> chain, participants |-> participants,
              last_activity |-> newest]
  <2>1. thread = [state |-> thread.state, initiator |-> thread.initiator,
                  event_chain |-> thread.event_chain,
                  participants |-> thread.participants,
                  last_activity |-> thread.last_activity]
    BY DEF ThreadOK, IsThread
  <2>2. next = [thread EXCEPT !.event_chain = chain, !.participants = participants,
                              !.last_activity = newest]
    BY DEF WithEvent
  <2> HIDE DEF next, chain, participants, newest
  <2> QED
    BY <2>1, <2>2
<1> HIDE DEF next, newest
<1>2. IsSequence(heard)
  BY DEF ThreadOK, Chained
<1>3. Chained(next.event_chain, Append(heard, event))
  BY <1>1, ChainGrows DEF ThreadOK
<1>4. Met(next.participants, next.initiator, Append(heard, event))
  BY <1>1, <1>2, PartiesGrow DEF ThreadOK
<1>5. IsThread(next)
  BY <1>1 DEF IsThread
<1> QED
  BY <1>3, <1>4, <1>5 DEF ThreadOK, next

\* A thread's state says nothing of what it heard.
LEMMA WithStateIsOK ==
  ASSUME NEW thread, NEW heard, ThreadOK(thread, heard), NEW state
  PROVE  /\ ThreadOK([thread EXCEPT !.state = state], heard)
         /\ [thread EXCEPT !.state = state].last_activity = thread.last_activity
<1> DEFINE next == [thread EXCEPT !.state = state]
<1>1. next = [state |-> state, initiator |-> thread.initiator,
              event_chain |-> thread.event_chain, participants |-> thread.participants,
              last_activity |-> thread.last_activity]
  BY DEF ThreadOK, IsThread
<1> HIDE DEF next
<1>2. IsThread(next)
  BY <1>1 DEF IsThread
<1>3. ThreadOK(next, heard) /\ next.last_activity = thread.last_activity
  BY <1>1, <1>2 DEF ThreadOK
<1> QED
  BY <1>3 DEF next

\* A thread as a step finds it, tracked or new, with what it heard.
Found(t, thread, heard) ==
  \/ t \in Tracked /\ thread = threads[t] /\ heard = recorded[t]
  \/ t \notin Tracked /\ heard = <<>> /\ \E x : thread = NewThread(x)

\* What a step makes of it: its state may change, or it hears one event.
StaysOrHears(t) ==
  \E thread, heard :
    /\ Found(t, thread, heard)
    /\ \/ threads'[t] = thread /\ recorded'[t] = heard
       \/ \E state : threads'[t] = [thread EXCEPT !.state = state] /\ recorded'[t] = heard
       \/ \E event : /\ threads'[t] = WithEvent(thread, event)
                     /\ recorded'[t] = Append(heard, event)
       \/ \E event, state : /\ threads'[t] = [WithEvent(thread, event) EXCEPT !.state = state]
                            /\ recorded'[t] = Append(heard, event)

\* A thread that a step leaves alone.
LEMMA OthersStay ==
  ASSUME NEW t \in Tracked, threads'[t] = threads[t], recorded'[t] = recorded[t]
  PROVE  StaysOrHears(t)
<1>1. Found(t, threads[t], recorded[t])
  BY DEF Found
<1> QED
  BY <1>1 DEF StaysOrHears

\* After any step of the manager, each thread stays or hears one message.
LEMMA ThreadsStep ==
  ASSUME ThreadInv, ThreadsMove
  PROVE  /\ DOMAIN recorded' = DOMAIN threads'
         /\ \A t \in DOMAIN threads' : StaysOrHears(t)
<1>1. DOMAIN recorded = Tracked
  BY DEF ThreadInv
<1>2. \A t, x : Found(t, EntryFor(t, x), Heard(t))
  BY DEF Found, EntryFor, Heard
<1>3. ASSUME NEW t, NEW event, NEW thread, Put(t, thread), Note(t, event),
             \/ thread = WithEvent(EntryFor(t, event.pubkey), event)
             \/ \E state : thread = [WithEvent(EntryFor(t, event.pubkey), event)
                                       EXCEPT !.state = state]
      PROVE  /\ DOMAIN recorded' = DOMAIN threads'
             /\ \A u \in DOMAIN threads' : StaysOrHears(u)
  <2>1. /\ DOMAIN threads' = Tracked \union {t} /\ DOMAIN recorded' = Tracked \union {t}
        /\ threads'[t] = thread /\ recorded'[t] = Append(Heard(t), event)
        /\ \A u \in Tracked : u # t => threads'[u] = threads[u] /\ recorded'[u] = recorded[u]
    BY <1>3 DEF Put, Note
  <2>2. StaysOrHears(t)
    BY <1>2, <1>3, <2>1 DEF StaysOrHears
  <2> QED
    BY <2>1, <2>2, OthersStay
<1>4. ASSUME NEW event, record_inbound(event)
      PROVE  /\ DOMAIN recorded' = DOMAIN threads'
             /\ \A u \in DOMAIN threads' : StaysOrHears(u)
  <2> DEFINE t == FindTag(event, "Thread")
             next == WithEvent(EntryFor(t, event.pubkey), event)
  <2>1. CASE Tagged(event, "Thread") = {}
    <3>1. threads' = threads /\ recorded' = recorded
      BY <1>4, <2>1 DEF record_inbound, threadVars
    <3> QED
      BY <1>1, <3>1, OthersStay DEF Tracked
  <2>2. CASE Tagged(event, "Thread") # {}
    <3>1. Note(t, event) /\ (Put(t, next) \/ Put(t, [next EXCEPT !.state = "Cancelled"]))
      BY <1>4, <2>2 DEF record_inbound
    <3>2. CASE Put(t, next)
      BY <1>3, <3>1, <3>2
    <3>3. CASE Put(t, [next EXCEPT !.state = "Cancelled"])
      <4> DEFINE thread == [next EXCEPT !.state = "Cancelled"]
      <4>1. \E state : thread = [next EXCEPT !.state = state]
        OBVIOUS
      <4>2. Put(t, thread) /\ Note(t, event)
        BY <3>1, <3>3
      <4> HIDE DEF thread, t
      <4> QED
        BY <1>3, <4>1, <4>2
    <3> QED
      BY <3>1, <3>2, <3>3
  <2> QED
    BY <2>1, <2>2
<1>5. ASSUME NEW t, NEW event, record_event(t, event)
      PROVE  /\ DOMAIN recorded' = DOMAIN threads'
             /\ \A u \in DOMAIN threads' : StaysOrHears(u)
  BY <1>3, <1>5 DEF record_event
<1>6. ASSUME NEW t, NEW initiator, open_thread_with_id(t, initiator)
      PROVE  /\ DOMAIN recorded' = DOMAIN threads'
             /\ \A u \in DOMAIN threads' : StaysOrHears(u)
  <2>1. /\ DOMAIN threads' = Tracked \union {t} /\ DOMAIN recorded' = Tracked \union {t}
        /\ \A u \in Tracked : threads'[u] = threads[u] /\ recorded'[u] = recorded[u]
        /\ t \notin Tracked => threads'[t] = NewThread(initiator) /\ recorded'[t] = <<>>
    BY <1>6 DEF open_thread_with_id, Heard
  <2>2. t \notin Tracked => StaysOrHears(t)
    BY <2>1 DEF StaysOrHears, Found
  <2> QED
    BY <2>1, <2>2, OthersStay
<1>7. ASSUME NEW t, NEW state, set_state(t, state)
      PROVE  /\ DOMAIN recorded' = DOMAIN threads'
             /\ \A u \in DOMAIN threads' : StaysOrHears(u)
  <2>1. /\ t \in Tracked /\ DOMAIN threads' = Tracked /\ recorded' = recorded
        /\ threads'[t] = [threads[t] EXCEPT !.state = state]
        /\ \A u \in Tracked : u # t => threads'[u] = threads[u]
    BY <1>7 DEF set_state, Put
  <2>2. StaysOrHears(t)
    BY <2>1 DEF StaysOrHears, Found
  <2> QED
    BY <1>1, <2>1, <2>2, OthersStay
<1>8. ASSUME NEW t, remove(t)
      PROVE  /\ DOMAIN recorded' = DOMAIN threads'
             /\ \A u \in DOMAIN threads' : StaysOrHears(u)
  BY <1>8, OthersStay DEF remove
<1>9. ASSUME NEW t, NEW initiator, ThreadCall(t, initiator)
      PROVE  /\ DOMAIN recorded' = DOMAIN threads'
             /\ \A u \in DOMAIN threads' : StaysOrHears(u)
  BY <1>6, <1>7, <1>8, <1>9 DEF ThreadCall, complete, cancel
<1> QED
  BY <1>4, <1>5, <1>9 DEF ThreadsMove

\* A thread that is tracked, or would be opened, is right about what it heard.
LEMMA FoundIsOK ==
  ASSUME ThreadInv, NEW t, NEW thread, NEW heard, Found(t, thread, heard)
  PROVE  ThreadOK(thread, heard) /\ (ActivityInv => Latest(thread.last_activity, heard))
BY NewThreadIsOK DEF Found, ThreadInv, ActivityInv, NewThread

\* Chains and participants stay right in every step of the manager.
LEMMA ThreadsKept ==
  ASSUME ThreadInv, ThreadsMove
  PROVE  ThreadInv'
<1>1. ASSUME NEW t \in DOMAIN threads', StaysOrHears(t)
      PROVE  ThreadOK(threads'[t], recorded'[t])
  <2>1. PICK thread, heard :
          /\ Found(t, thread, heard)
          /\ \/ threads'[t] = thread /\ recorded'[t] = heard
             \/ \E state : threads'[t] = [thread EXCEPT !.state = state] /\ recorded'[t] = heard
             \/ \E event : /\ threads'[t] = WithEvent(thread, event)
                           /\ recorded'[t] = Append(heard, event)
             \/ \E event, state : /\ threads'[t] = [WithEvent(thread, event) EXCEPT !.state = state]
                                  /\ recorded'[t] = Append(heard, event)
    BY <1>1 DEF StaysOrHears
  <2>2. ThreadOK(thread, heard)
    BY <2>1, FoundIsOK
  <2>3. \A event : ThreadOK(WithEvent(thread, event), Append(heard, event))
    BY <2>2, WithEventIsOK
  <2>4. \A state : ThreadOK([thread EXCEPT !.state = state], heard)
    BY <2>2, WithStateIsOK
  <2>5. \A event, state : ThreadOK([WithEvent(thread, event) EXCEPT !.state = state],
                                  Append(heard, event))
    BY <2>3, WithStateIsOK
  <2> QED
    BY ONLY <2>1, <2>2, <2>3, <2>4, <2>5, Zenon
<1> QED
  BY <1>1, ThreadsStep DEF ThreadInv, Tracked

\* And so does the last activity, while what is recorded is dated.
LEMMA ActivityKept ==
  ASSUME ThreadInv, ActivityInv, ThreadsMove, Dated'
  PROVE  ActivityInv'
<1>1. ASSUME NEW t \in DOMAIN threads', StaysOrHears(t)
      PROVE  Latest(threads'[t].last_activity, recorded'[t])
  <2>1. PICK thread, heard :
          /\ Found(t, thread, heard)
          /\ \/ threads'[t] = thread /\ recorded'[t] = heard
             \/ \E state : threads'[t] = [thread EXCEPT !.state = state] /\ recorded'[t] = heard
             \/ \E event : /\ threads'[t] = WithEvent(thread, event)
                           /\ recorded'[t] = Append(heard, event)
             \/ \E event, state : /\ threads'[t] = [WithEvent(thread, event) EXCEPT !.state = state]
                                  /\ recorded'[t] = Append(heard, event)
    BY <1>1 DEF StaysOrHears
  <2>2. ThreadOK(thread, heard) /\ Latest(thread.last_activity, heard)
    BY <2>1, FoundIsOK
  <2>3. ASSUME NEW event, recorded'[t] = Append(heard, event)
        PROVE  Latest(WithEvent(thread, event).last_activity, Append(heard, event))
    <3>1. IsSequence(heard)
      BY <2>2 DEF ThreadOK, Chained
    <3>2. /\ Len(heard) \in Nat /\ Len(Append(heard, event)) = Len(heard) + 1
          /\ \A i \in 1..Len(heard) : Append(heard, event)[i] = heard[i]
          /\ Append(heard, event)[Len(heard) + 1] = event
      BY <3>1, Appended
    <3>3. \A i \in 1..(Len(heard) + 1) : Append(heard, event)[i].created_at \in Nat
      BY <2>3, <3>2 DEF Dated, Tracked
    <3>4. event.created_at \in Nat
          /\ \A i \in 1..Len(heard) : heard[i].created_at \in Nat
      BY <3>2, <3>3
    <3>5. WithEvent(thread, event).last_activity =
            IF event.created_at > thread.last_activity THEN event.created_at
            ELSE thread.last_activity
      <4> DEFINE th == [state |-> thread.state, initiator |-> thread.initiator,
                        event_chain |-> thread.event_chain,
                        participants |-> thread.participants,
                        last_activity |-> thread.last_activity]
      <4>1. thread = th
        BY <2>2 DEF ThreadOK, IsThread
      <4>2. WithEvent(th, event).last_activity =
              IF event.created_at > thread.last_activity THEN event.created_at
              ELSE thread.last_activity
        BY DEF WithEvent
      <4> HIDE DEF th
      <4> QED
        BY <4>1, <4>2
    <3> QED
      BY <2>2, <3>1, <3>4, <3>5, ActivityGrows
  <2>4. \A state : [thread EXCEPT !.state = state].last_activity = thread.last_activity
    BY <2>2, WithStateIsOK
  <2>5. \A event, state :
          [WithEvent(thread, event) EXCEPT !.state = state].last_activity
            = WithEvent(thread, event).last_activity
    BY <2>2, WithEventIsOK, WithStateIsOK
  <2>6. CASE threads'[t] = thread /\ recorded'[t] = heard
    BY <2>2, <2>6
  <2>7. CASE \E state : threads'[t] = [thread EXCEPT !.state = state] /\ recorded'[t] = heard
    BY ONLY <2>2, <2>4, <2>7
  <2>8. CASE \E event : /\ threads'[t] = WithEvent(thread, event)
                        /\ recorded'[t] = Append(heard, event)
    BY ONLY <2>3, <2>8
  <2>9. CASE \E event, state : /\ threads'[t] = [WithEvent(thread, event) EXCEPT !.state = state]
                               /\ recorded'[t] = Append(heard, event)
    BY ONLY <2>3, <2>5, <2>9
  <2> QED
    BY ONLY <2>1, <2>6, <2>7, <2>8, <2>9
<1> QED
  BY <1>1, ThreadsStep DEF ActivityInv, Tracked

\* The chain has the ids heard, once each, in the order of first arrival.
LEMMA ChainIsRead ==
  ASSUME ThreadInv
  PROVE  ChainIsHistory
<1> SUFFICES ASSUME NEW t \in Tracked
    PROVE  LET chain == threads[t].event_chain
           IN  /\ NoRepeat(chain)
               /\ {chain[i] : i \in DOMAIN chain}
                    = {recorded[t][i].id : i \in DOMAIN recorded[t]}
               /\ \A i, j \in DOMAIN chain :
                    i < j => FirstHeard(t, chain[i]) < FirstHeard(t, chain[j])
  BY DEF ChainIsHistory
<1> DEFINE chain == threads[t].event_chain
           heard == recorded[t]
<1>1. Chained(chain, heard)
  BY DEF ThreadInv, ThreadOK
<1>2. DOMAIN chain = 1..Len(chain) /\ DOMAIN heard = 1..Len(heard) /\ Len(heard) \in Nat
      /\ IsSequence(heard)
  BY <1>1, Appended DEF Chained
<1>3. \A k \in 1..Len(chain) : FirstAt(heard, FirstHeard(t, chain[k]), chain[k])
  BY <1>1, <1>2 DEF Chained, FirstHeard, FirstAt
<1> HIDE DEF chain, heard
<1>4. \A i, j \in 1..Len(chain) :
        i < j => FirstHeard(t, chain[i]) < FirstHeard(t, chain[j])
  BY <1>1, <1>3 DEF Chained
<1>5. {chain[i] : i \in DOMAIN chain} = {heard[i].id : i \in DOMAIN heard}
  <2>1. \A i \in DOMAIN chain : \E k \in DOMAIN heard : heard[k].id = chain[i]
    BY <1>1, <1>2 DEF Chained, FirstAt
  <2>2. \A k \in DOMAIN heard : \E i \in DOMAIN chain : chain[i] = heard[k].id
    BY <1>1, <1>2 DEF Chained, Occurs
  <2> QED
    BY <2>1, <2>2
<1>6. NoRepeat(chain)
  BY <1>1 DEF Chained
<1> QED
  BY <1>2, <1>4, <1>5, <1>6 DEF chain, heard

\* Participants and last activity are those of what was heard.
LEMMA PartiesAreRead ==
  ASSUME ThreadInv, ActivityInv
  PROVE  PartiesAndActivity
<1> SUFFICES ASSUME NEW t \in Tracked
    PROVE  LET thread == threads[t]
               heard == {recorded[t][i] : i \in DOMAIN recorded[t]}
           IN  /\ NoRepeat(thread.participants)
               /\ {thread.participants[i] : i \in DOMAIN thread.participants}
                    = {thread.initiator} \union {e.pubkey : e \in heard}
               /\ \A e \in heard : e.created_at <= thread.last_activity
               /\ thread.last_activity \in {0} \union {e.created_at : e \in heard}
  BY DEF PartiesAndActivity
<1> DEFINE thread == threads[t]
           p == thread.participants
           heard == recorded[t]
<1>1. Met(p, thread.initiator, heard) /\ Latest(thread.last_activity, heard)
      /\ IsSequence(heard)
  BY DEF ThreadInv, ThreadOK, ActivityInv, Chained
<1>2. DOMAIN p = 1..Len(p) /\ DOMAIN heard = 1..Len(heard)
  BY <1>1, Appended DEF Met
<1> HIDE DEF p
<1>3. {p[i] : i \in DOMAIN p}
        = {thread.initiator} \union {e.pubkey : e \in {heard[i] : i \in DOMAIN heard}}
  <2>1. \A k \in DOMAIN p :
          p[k] = thread.initiator \/ \E i \in DOMAIN heard : p[k] = heard[i].pubkey
    BY <1>1, <1>2 DEF Met
  <2>2. \E k \in DOMAIN p : p[k] = thread.initiator
    BY <1>1, <1>2 DEF Met, Occurs
  <2>3. \A i \in DOMAIN heard : \E k \in DOMAIN p : p[k] = heard[i].pubkey
    BY <1>1, <1>2 DEF Met, Occurs
  <2> HIDE DEF heard, thread
  <2> QED
    BY <2>1, <2>2, <2>3
<1>4. NoRepeat(p)
  BY <1>1 DEF Met
<1>5. /\ \A i \in DOMAIN heard : heard[i].created_at <= thread.last_activity
      /\ thread.last_activity = 0
         \/ \E i \in DOMAIN heard : thread.last_activity = heard[i].created_at
  BY <1>1, <1>2 DEF Latest
<1> QED
  BY <1>3, <1>4, <1>5 DEF p

\* The threads of an agent are always right about what they heard.
LEMMA ThreadsCorrect == Spec => []ThreadInv
<1>1. Init => ThreadInv
  BY DEF Init, ThreadInit, ThreadInv, Tracked
<1>2. ThreadInv /\ [Next]_vars => ThreadInv'
  <2>1. ASSUME ThreadInv, UNCHANGED threadVars PROVE ThreadInv'
    BY <2>1 DEF ThreadInv, threadVars, Tracked
  <2> QED
    BY <2>1, StepOfParts, ThreadsKept DEF PartsMove
<1> QED
  BY <1>1, <1>2, PTL DEF Spec

\* However often and in whatever order the messages of a thread come, from
\* any world and with any calls between them: its chain holds each of them
\* once, in the order of their first arrival.
THEOREM ChainCorrect == Spec => []ChainIsHistory
BY ThreadsCorrect, ChainIsRead, PTL

\* The whole history, as long as the dates are natural numbers.
LEMMA HistoryWhenDated == Spec /\ []Dated => []ThreadHistory
<1>1. Init => ActivityInv
  BY DEF Init, ThreadInit, ActivityInv, Tracked
<1>2. ThreadInv /\ ActivityInv /\ Dated' /\ [Next]_vars => ActivityInv'
  <2>1. ASSUME ActivityInv, UNCHANGED threadVars PROVE ActivityInv'
    BY <2>1 DEF ActivityInv, threadVars, Tracked
  <2> QED
    BY <2>1, StepOfParts, ActivityKept DEF PartsMove
<1>3. ThreadInv /\ ActivityInv => ThreadHistory
  BY ChainIsRead, PartiesAreRead DEF ThreadHistory
<1> QED
  BY <1>1, <1>2, <1>3, ThreadsCorrect, PTL DEF Spec

-----------------------------------------------------------------------------
(* Amounts and verdicts.                                                   *)

\* Satoshis come back from millisatoshis as they were exactly when their
\* product fits in a u64, whatever its width: an amount is not checked.
THEOREM SatsRoundTrip ==
  ASSUME NEW sats \in Nat
  PROVE  msats_to_sats(sats_to_msats(sats)) = sats <=> sats * 1000 <= MaxU64
<1> DEFINE msats == sats * 1000
           wrapped == msats % (MaxU64 + 1)
<1>1. msats \in Nat /\ MaxU64 \in Nat /\ msats_to_sats(sats_to_msats(sats)) = wrapped \div 1000
  BY ReputationAssumption DEF msats_to_sats, sats_to_msats, Wrapped
<1>2. wrapped \in 0..MaxU64
  BY <1>1
<1>3. msats <= MaxU64 => wrapped = msats
  BY <1>1
<1> HIDE DEF wrapped
<1>4. CASE msats <= MaxU64
  BY <1>1, <1>3, <1>4
<1>5. CASE ~(msats <= MaxU64)
  <2>1. wrapped < sats * 1000
    BY <1>1, <1>2, <1>5
  <2>2. wrapped \div 1000 < sats
    BY <1>1, <1>2, <2>1
  <2>3. wrapped \div 1000 # sats
    BY <1>1, <1>2, <2>2
  <2> QED
    BY <1>1, <1>5, <2>3
<1> QED
  BY <1>4, <1>5

\* Who asks more of a publisher trusts nobody that one who asks less does
\* not: each threshold tells on its own, and 0 asks for no activity.
THEOREM StricterTrustsLess ==
  ASSUME NEW summary, NEW lax, NEW stern, NEW at \in Nat,
         summary \in [completed_tasks : Nat, completion_rate_pct : Nat,
                      total_earnings_msats : Nat, last_activity : Nat],
         lax \in [min_completed_payments : Nat, min_completion_rate_pct : Nat,
                  min_total_paid_msats : Nat, max_inactivity_secs : Nat],
         stern \in [min_completed_payments : Nat, min_completion_rate_pct : Nat,
                    min_total_paid_msats : Nat, max_inactivity_secs : Nat],
         lax.min_completed_payments <= stern.min_completed_payments,
         lax.min_completion_rate_pct <= stern.min_completion_rate_pct,
         lax.min_total_paid_msats <= stern.min_total_paid_msats,
         lax.max_inactivity_secs = 0
           \/ stern.max_inactivity_secs \in 1..lax.max_inactivity_secs
  PROVE  verify_publisher(summary, lax, at) \subseteq verify_publisher(summary, stern, at)
<1> DEFINE Blames(required, v) ==
             CASE v = "InsufficientPaymentHistory" ->
                    summary.completed_tasks < required.min_completed_payments
               [] v = "LowCompletionRate" ->
                    summary.completion_rate_pct < required.min_completion_rate_pct
               [] v = "InsufficientTotalPaid" ->
                    summary.total_earnings_msats < required.min_total_paid_msats
               [] v = "StaleActivity" ->
                    /\ required.max_inactivity_secs > 0 /\ at > 0 /\ summary.last_activity > 0
                    /\ at - summary.last_activity > required.max_inactivity_secs
           All == {"InsufficientPaymentHistory", "LowCompletionRate", "InsufficientTotalPaid",
                   "StaleActivity"}
<1>1. \A required : verify_publisher(summary, required, at) = {v \in All : Blames(required, v)}
  BY DEF verify_publisher
<1>2. Blames(lax, "InsufficientPaymentHistory") => Blames(stern, "InsufficientPaymentHistory")
  OBVIOUS
<1>3. Blames(lax, "LowCompletionRate") => Blames(stern, "LowCompletionRate")
  OBVIOUS
<1>4. Blames(lax, "InsufficientTotalPaid") => Blames(stern, "InsufficientTotalPaid")
  OBVIOUS
<1>5. Blames(lax, "StaleActivity") => Blames(stern, "StaleActivity")
  OBVIOUS
<1> HIDE DEF Blames
<1> QED
  BY <1>1, <1>2, <1>3, <1>4, <1>5

=============================================================================
