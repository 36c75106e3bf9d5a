------------------------- MODULE ClickRollupProofs -------------------------
(***************************************************************************)
(* Counted once, in both the totals and the sketches; the counter of a     *)
(* link never ahead; the hard cap; and the queue's promise: for any        *)
(* clicks, links, rollups and limits.                                      *)
(***************************************************************************)
EXTENDS ClickRollup, FiniteSetTheorems, WellFoundedInduction, TLAPS

-----------------------------------------------------------------------------
(* Sums over a finite set.                                                  *)

\* Among sets of subsets of a finite set there is one that contains no other.
LEMMA SubsetMin ==
    ASSUME NEW S, IsFiniteSet(S), NEW T, T \subseteq SUBSET S, T # {}
    PROVE  \E t \in T : \A u \in T : u \subseteq t => u = t
<1>1. T \subseteq FiniteSubsetsOf(S)
  BY FS_Subset DEF FiniteSubsetsOf
<1>2. PICK t \in T : \A u \in T : ~ (<<u, t>> \in StrictSubsetOrdering(S))
  BY <1>1, FS_StrictSubsetOrderingWellFounded, WFMin
<1>3. ASSUME NEW u \in T, u \subseteq t, u # t PROVE <<u, t>> \in StrictSubsetOrdering(S)
  BY <1>3 DEF StrictSubsetOrdering
<1>4. ASSUME NEW u \in T, u \subseteq t PROVE u = t
  BY <1>2, <1>3, <1>4
<1> QED BY <1>4

\* The recursion that a sum stands for: g sums f over the subsets of S.
SumStep(g, f, s) ==
    IF s = {} THEN 0 ELSE f[CHOOSE x \in s : TRUE] + g[s \ {CHOOSE x \in s : TRUE}]
Sums(g, f, S) == g = [s \in SUBSET S |-> SumStep(g, f, s)]

\* The recursion up to sets of n elements has a solution, for every n.
LEMMA SumsUpTo ==
    ASSUME NEW S, IsFiniteSet(S), NEW f, NEW n \in Nat
    PROVE  \E g : \A s \in SUBSET S : Cardinality(s) <= n => g[s] = SumStep(g, f, s)
<1> DEFINE Good(m) == \E g : \A s \in SUBSET S : Cardinality(s) <= m => g[s] = SumStep(g, f, s)
           Bad == {m \in Nat : ~Good(m)}
<1>1. SUFFICES ASSUME Bad # {} PROVE FALSE
  <2> QED BY <1>1
<1>2. PICK m \in Bad : \A k \in Bad : ~ (<<k, m>> \in OpToRel(<, Nat))
  BY <1>1, NatLessThanWellFounded, WFMin
<1>3. m \in Nat /\ ~Good(m) /\ \A k \in Nat : k < m => Good(k)
  <2>1. \A k \in Bad : ~ (k < m)
    BY <1>2 DEF OpToRel
  <2> HIDE DEF Good
  <2> QED BY <1>2, <2>1
<1>4. \A s \in SUBSET S : IsFiniteSet(s) /\ Cardinality(s) \in Nat
  BY FS_Subset, FS_CardinalityType
<1>5. m # 0
  <2> DEFINE g == [s \in SUBSET S |-> 0]
  <2>1. \A s \in SUBSET S : Cardinality(s) <= 0 => s = {}
    BY <1>4, FS_EmptySet
  <2>2. \A s \in SUBSET S : Cardinality(s) <= 0 => g[s] = SumStep(g, f, s)
    BY <2>1 DEF SumStep
  <2>3. Good(0)
    <3> HIDE DEF g
    <3> QED BY <2>2
  <2> HIDE DEF Good
  <2> QED BY <1>3, <2>3
<1>6. m - 1 \in Nat /\ Good(m - 1)
  <2> HIDE DEF Good
  <2> QED BY <1>3, <1>5
<1>7. PICK g : \A s \in SUBSET S : Cardinality(s) <= m - 1 => g[s] = SumStep(g, f, s)
  BY <1>6
<1> DEFINE h == [s \in SUBSET S |-> SumStep(g, f, s)]
<1>8. ASSUME NEW s \in SUBSET S, Cardinality(s) <= m PROVE h[s] = SumStep(h, f, s)
  <2>1. CASE s = {}
    BY <2>1 DEF SumStep
  <2>2. CASE s # {}
    <3>1. PICK x : x = CHOOSE y \in s : TRUE
      OBVIOUS
    <3>2. x \in s
      BY <2>2, <3>1
    <3>3. Cardinality(s \ {x}) = Cardinality(s) - 1 /\ s \ {x} \in SUBSET S
      BY <1>4, <3>2, FS_RemoveElement
    <3>4. Cardinality(s \ {x}) <= m - 1
      <4>1. m \in Nat /\ Cardinality(s) \in Nat
        BY <1>3, <1>4
      <4> QED BY <1>8, <3>3, <4>1
    <3>5. g[s \ {x}] = h[s \ {x}]
      BY <1>7, <3>3, <3>4
    <3> QED BY <2>2, <3>1, <3>5 DEF SumStep
  <2> QED BY <2>1, <2>2
<1> HIDE DEF h
<1>9. Good(m)
  BY <1>8
<1> HIDE DEF Good
<1> QED BY <1>3, <1>9

\* A sum over a finite set is what its recursion says.
LEMMA SumFacts ==
    ASSUME NEW S, IsFiniteSet(S), NEW f
    PROVE  \E g : Sums(g, f, S) /\ SumFunctionOnSet(f, S) = g[S]
<1>1. \A s \in SUBSET S : Cardinality(s) <= Cardinality(S) /\ Cardinality(S) \in Nat
  BY FS_Subset, FS_CardinalityType
<1>2. PICK g : \A s \in SUBSET S : g[s] = SumStep(g, f, s)
  <2>1. PICK n \in Nat : n = Cardinality(S)
    BY FS_CardinalityType
  <2>2. PICK g : \A s \in SUBSET S : Cardinality(s) <= n => g[s] = SumStep(g, f, s)
    BY SumsUpTo
  <2>3. \A s \in SUBSET S : Cardinality(s) <= n
    BY <1>1, <2>1
  <2> QED BY <2>2, <2>3
<1> DEFINE h == [s \in SUBSET S |-> g[s]]
<1>3. ASSUME NEW s \in SUBSET S, s # {} PROVE s \ {CHOOSE x \in s : TRUE} \in SUBSET S
  OBVIOUS
<1>4. Sums(h, f, S)
  BY <1>2, <1>3 DEF Sums, SumStep
<1> HIDE DEF h
<1>5. Sums(CHOOSE i : Sums(i, f, S), f, S)
  BY <1>4
<1>6. SumFunctionOnSet(f, S) = (CHOOSE i : Sums(i, f, S))[S]
  BY DEF Sums, SumStep, SumFunctionOnSet, FoldFunctionOnSet, MapThenFoldSet
<1> QED BY <1>5, <1>6

\* A sum of naturals is one.
LEMMA SumNat ==
    ASSUME NEW S, IsFiniteSet(S), NEW f \in [S -> Nat]
    PROVE  SumFunction(f) \in Nat
<1>1. PICK g : Sums(g, f, S) /\ SumFunctionOnSet(f, S) = g[S]
  BY SumFacts
<1> DEFINE Bad == {s \in SUBSET S : g[s] \notin Nat}
<1>2. ASSUME Bad # {} PROVE FALSE
  <2>1. PICK t \in Bad : \A u \in Bad : u \subseteq t => u = t
    <3>1. Bad \subseteq SUBSET S
      OBVIOUS
    <3> HIDE DEF Bad
    <3> QED BY <1>2, <3>1, SubsetMin
  <2>2. CASE t = {}
    BY <1>1, <2>1, <2>2 DEF Sums, SumStep
  <2>3. CASE t # {}
    <3>1. PICK x : x = CHOOSE y \in t : TRUE
      OBVIOUS
    <3>2. x \in t /\ f[x] \in Nat /\ t \in SUBSET S /\ g[t] \notin Nat
      BY <2>1, <2>3, <3>1
    <3>3. g[t \ {x}] \in Nat
      BY <2>1, <3>2
    <3>4. g[t] = f[x] + g[t \ {x}]
      BY <1>1, <2>3, <3>1, <3>2 DEF Sums, SumStep
    <3> QED BY <3>2, <3>3, <3>4
  <2> QED BY <2>2, <2>3
<1>3. g[S] \in Nat
  BY <1>2
<1> QED BY <1>1, <1>3 DEF SumFunction

\* A sum of sums.
LEMMA SumAdds ==
    ASSUME NEW S, IsFiniteSet(S), NEW a \in [S -> Nat], NEW b \in [S -> Nat],
           NEW c \in [S -> Nat], \A x \in S : c[x] = a[x] + b[x]
    PROVE  SumFunction(c) = SumFunction(a) + SumFunction(b)
<1>1. PICK ga : Sums(ga, a, S) /\ SumFunctionOnSet(a, S) = ga[S]
  BY SumFacts
<1>2. PICK gb : Sums(gb, b, S) /\ SumFunctionOnSet(b, S) = gb[S]
  BY SumFacts
<1>3. PICK gc : Sums(gc, c, S) /\ SumFunctionOnSet(c, S) = gc[S]
  BY SumFacts
<1> DEFINE Good(s) == ga[s] \in Nat /\ gb[s] \in Nat /\ gc[s] = ga[s] + gb[s]
           Bad == {s \in SUBSET S : ~Good(s)}
<1>4. ASSUME Bad # {} PROVE FALSE
  <2>1. PICK t \in Bad : \A u \in Bad : u \subseteq t => u = t
    <3>1. Bad \subseteq SUBSET S
      OBVIOUS
    <3> HIDE DEF Bad
    <3> QED BY <1>4, <3>1, SubsetMin
  <2>2. CASE t = {}
    BY <1>1, <1>2, <1>3, <2>1, <2>2 DEF Sums, SumStep
  <2>3. CASE t # {}
    <3>1. PICK x : x = CHOOSE y \in t : TRUE
      OBVIOUS
    <3>2. x \in t /\ t \in SUBSET S /\ ~Good(t) /\ x \in S
      BY <2>1, <2>3, <3>1
    <3>3. Good(t \ {x})
      <4> HIDE DEF Good
      <4>1. t \ {x} \in SUBSET S /\ t \ {x} \subseteq t /\ t \ {x} # t
        BY <3>2
      <4> QED BY <2>1, <4>1
    <3>4. ga[t] = a[x] + ga[t \ {x}]
      <4> HIDE DEF Good
      <4> QED BY <1>1, <2>3, <3>1, <3>2 DEF Sums, SumStep
    <3>5. gb[t] = b[x] + gb[t \ {x}]
      <4> HIDE DEF Good
      <4> QED BY <1>2, <2>3, <3>1, <3>2 DEF Sums, SumStep
    <3>6. gc[t] = c[x] + gc[t \ {x}]
      <4> HIDE DEF Good
      <4> QED BY <1>3, <2>3, <3>1, <3>2 DEF Sums, SumStep
    <3> QED BY <3>2, <3>3, <3>4, <3>5, <3>6
  <2> QED BY <2>2, <2>3
<1>5. Good(S)
  <2> HIDE DEF Good
  <2> QED BY <1>4
<1> QED BY <1>1, <1>2, <1>3, <1>5 DEF SumFunction

\* A sum of more is no less.
LEMMA SumMonotone ==
    ASSUME NEW S, IsFiniteSet(S), NEW a \in [S -> Nat], NEW c \in [S -> Nat],
           \A x \in S : a[x] <= c[x]
    PROVE  SumFunction(a) <= SumFunction(c)
<1>1. PICK b : b = [x \in S |-> c[x] - a[x]]
  OBVIOUS
<1>2. b \in [S -> Nat] /\ \A x \in S : c[x] = a[x] + b[x]
  BY <1>1
<1>3. SumFunction(c) = SumFunction(a) + SumFunction(b)
  BY <1>2, SumAdds
<1>4. SumFunction(a) \in Nat /\ SumFunction(b) \in Nat
  BY <1>2, SumNat
<1> QED BY <1>3, <1>4

\* Counting the parts of a set and adding up is counting the set.
LEMMA SumCounts ==
    ASSUME NEW S, IsFiniteSet(S), NEW B, IsFiniteSet(B), NEW p \in [B -> S],
           NEW f, f = [x \in S |-> Cardinality({b \in B : p[b] = x})]
    PROVE  SumFunction(f) = Cardinality(B)
<1>1. PICK g : Sums(g, f, S) /\ SumFunctionOnSet(f, S) = g[S]
  BY SumFacts
<1> DEFINE Part(s) == {b \in B : p[b] \in s}
           Bad == {s \in SUBSET S : g[s] # Cardinality(Part(s))}
<1>2. ASSUME Bad # {} PROVE FALSE
  <2>1. PICK t \in Bad : \A u \in Bad : u \subseteq t => u = t
    <3>1. Bad \subseteq SUBSET S
      OBVIOUS
    <3> HIDE DEF Bad
    <3> QED BY <1>2, <3>1, SubsetMin
  <2>2. t \in SUBSET S /\ g[t] # Cardinality(Part(t))
    <3> HIDE DEF Part
    <3> QED BY <2>1
  <2>3. CASE t = {}
    <3>1. Part(t) = {}
      BY <2>3
    <3> HIDE DEF Part
    <3> QED BY <1>1, <2>2, <2>3, <3>1, FS_EmptySet DEF Sums, SumStep
  <2>4. CASE t # {}
    <3>1. PICK x : x = CHOOSE y \in t : TRUE
      OBVIOUS
    <3>2. x \in t /\ x \in S
      BY <2>2, <2>4, <3>1
    <3>3. g[t \ {x}] = Cardinality(Part(t \ {x}))
      <4> HIDE DEF Part
      <4>1. t \ {x} \in SUBSET S /\ t \ {x} \subseteq t /\ t \ {x} # t
        BY <2>2, <3>2
      <4> QED BY <2>1, <4>1
    <3>4. g[t] = f[x] + g[t \ {x}]
      BY <1>1, <2>2, <2>4, <3>1, <3>2 DEF Sums, SumStep
    <3>5. PICK P, Q : P = {b \in B : p[b] = x} /\ Q = Part(t \ {x})
      OBVIOUS
    <3>6. Part(t) = P \cup Q /\ P \cap Q = {} /\ P \subseteq B /\ Q \subseteq B
      BY <3>2, <3>5
    <3>7. IsFiniteSet(P) /\ IsFiniteSet(Q) /\ Cardinality(P) \in Nat /\ Cardinality(Q) \in Nat
      BY <3>6, FS_Subset, FS_CardinalityType
    <3>8. Cardinality(P \cup Q) = Cardinality(P) + Cardinality(Q) - Cardinality(P \cap Q)
      BY <3>7, FS_Union
    <3>9. f[x] = Cardinality(P)
      BY <3>2, <3>5
    <3>10. Cardinality(Part(t)) = Cardinality(P) + Cardinality(Q)
      <4> HIDE DEF Part
      <4>1. Cardinality(P \cap Q) = 0
        BY <3>6, FS_EmptySet
      <4>2. Part(t) = P \cup Q
        BY <3>6
      <4> QED BY <3>7, <3>8, <4>1, <4>2
    <3> HIDE DEF Part
    <3> QED BY <2>2, <3>3, <3>4, <3>5, <3>9, <3>10
  <2> QED BY <2>3, <2>4
<1>3. g[S] = Cardinality(Part(S))
  <2> HIDE DEF Part
  <2> QED BY <1>2
<1>4. Part(S) = B
  OBVIOUS
<1>5. DOMAIN f = S
  OBVIOUS
<1> HIDE DEF Part
<1> QED BY <1>1, <1>3, <1>4, <1>5 DEF SumFunction

-----------------------------------------------------------------------------
(* The inductive invariant.                                                 *)

\* A transaction is a record of its step, its rows and what it has computed.
TxShape ==
    tx = [w \in Rollups |-> [step |-> tx[w].step, batch |-> tx[w].batch,
                             merged |-> tx[w].merged, sums |-> tx[w].sums]]

\* Where click c is, how often it was delivered, and which rows it has.
PathInv(c) ==
    /\ stage[c] \in {"none", "gated"} => receives[c] = 0
    /\ stage[c] \in {"queued", "inflight", "stored", "done", "dead"} => day[c] \in Days
    /\ stage[c] \in {"queued", "stored", "dead"} => profile = "aws"
    /\ stage[c] = "queued" => receives[c] < MaxReceive
    /\ stage[c] = "inflight" => receives[c] >= 1
    /\ stage[c] = "dead" => receives[c] = MaxReceive
    /\ profile = "postgres" => receives[c] <= 1
    /\ stage[c] = "stored" \/ (stage[c] = "done" /\ profile = "aws") => RowOf(c)
    /\ \A k \in 1 .. MaxReceive : row[<<c, k>>] # "absent" =>
          /\ k <= receives[c]
          /\ stage[c] = "inflight" => k < receives[c]
          /\ stage[c] \notin {"none", "gated"}
          /\ day[c] \in Days

\* The clicks that the gate of link l has let through.
LetThrough(l) == {c \in Clicks : LinkOf[c] = l /\ stage[c] # "none" /\ kind[c] # "blocked"}

ReservedInv ==
    \A l \in Links : profile = "postgres" /\ Limit[l] # NoLimit =>
        Cardinality(LetThrough(l)) <= reserved[l] /\ reserved[l] <= Limit[l]

\* What rollup t (a value of tx) has, once it has written click_daily, is what it
\* has merged into what is still stored, and sums that the commits of others may
\* have overtaken.
Writing(t) == t.step \in {"added", "summed", "written"}
OwnSum(B, l) == SumFunction([d \in Days |-> HowMany(B, <<l, d>>, "click")])
TxInv(t) ==
    /\ t.batch \subseteq Pending
    /\ t.step = "idle" => t.batch = {}
    /\ Writing(t) =>
          /\ DOMAIN t.merged = Touched(t.batch)
          /\ \A k \in Touched(t.batch) : t.merged[k] = sketch[k] \cup VisitorsIn(t.batch, k)
    /\ t.step \in {"summed", "written"} =>
          /\ DOMAIN t.sums = {k[1] : k \in Touched(t.batch)}
          /\ \A l \in {k[1] : k \in Touched(t.batch)} :
                t.sums[l] \in Nat /\ t.sums[l] <= DailyTotal(l) + OwnSum(t.batch, l)

\* No two rollups hold one row, nor, once both write, one row of click_daily.
PairInv(t, u) ==
    /\ t.batch \cap u.batch = {}
    /\ Writing(t) /\ Writing(u) => Touched(t.batch) \cap Touched(u.batch) = {}

RollInv ==
    /\ \A w \in Rollups : TxInv(tx[w])
    /\ \A v, w \in Rollups : v # w => PairInv(tx[v], tx[w])
    /\ CountedOnce /\ SketchesKeepVisitors /\ CounterNeverAhead

IInv ==
    /\ ClickTypeOK /\ TxShape
    /\ \A c \in Clicks : PathInv(c)
    /\ ReservedInv
    /\ RollInv

-----------------------------------------------------------------------------
(* Sets of rows.                                                            *)

\* The sets that the model counts are finite.
LEMMA Finite ==
    /\ IsFiniteSet(Days)
    /\ \A B : B \subseteq Rows => IsFiniteSet(B) /\ Cardinality(B) \in Nat
<1>1. MaxDay \in Int /\ MaxReceive \in Int
  BY ClickRollupAssumption
<1>2. IsFiniteSet(1 .. MaxDay) /\ IsFiniteSet(1 .. MaxReceive)
  BY <1>1, FS_Interval
<1>3. IsFiniteSet(Clicks \X (1 .. MaxReceive))
  BY <1>2, FS_Product, ClickRollupAssumption
<1> QED BY <1>2, <1>3, FS_Subset, FS_CardinalityType DEF Rows, Days

\* How many of a set of rows belong to a key is a number.
LEMMA HowManyNat ==
    ASSUME NEW B, B \subseteq Rows
    PROVE  \A k, which : HowMany(B, k, which) \in Nat
BY Finite DEF HowMany

\* ... and adds up over disjoint sets.
LEMMA HowManyUnion ==
    ASSUME NEW B, B \subseteq Rows, NEW R, R \subseteq Rows, R \cap B = {}, NEW k, NEW which
    PROVE  HowMany(R \cup B, k, which) = HowMany(R, k, which) + HowMany(B, k, which)
<1>1. PICK P : P = {r \in R : KeyOf(r) = k /\ kind[r[1]] = which}
  OBVIOUS
<1>2. PICK Q : Q = {r \in B : KeyOf(r) = k /\ kind[r[1]] = which}
  OBVIOUS
<1>3. PICK U : U = {r \in R \cup B : KeyOf(r) = k /\ kind[r[1]] = which}
  OBVIOUS
<1>4. U = P \cup Q /\ P \cap Q = {} /\ P \subseteq Rows /\ Q \subseteq Rows
  BY <1>1, <1>2, <1>3
<1>5. IsFiniteSet(P) /\ IsFiniteSet(Q) /\ Cardinality(P) \in Nat /\ Cardinality(Q) \in Nat
  BY <1>4, Finite
<1>6. Cardinality(P \cup Q) = Cardinality(P) + Cardinality(Q) - Cardinality(P \cap Q)
  BY <1>5, FS_Union
<1>7. Cardinality(U) = Cardinality(P) + Cardinality(Q)
  BY <1>4, <1>5, <1>6, FS_EmptySet
<1> QED BY <1>1, <1>2, <1>3, <1>7 DEF HowMany

\* What is counted of a set of rows depends on no other row.
Stable(B) == \A r \in B : day'[r[1]] = day[r[1]] /\ kind'[r[1]] = kind[r[1]]

\* So its keys, its visitors and its counts are the same after such a step.
LEMMA SetsKept ==
    ASSUME NEW B, Stable(B)
    PROVE  /\ Touched(B)' = Touched(B)
           /\ \A k : VisitorsIn(B, k)' = VisitorsIn(B, k)
           /\ \A k, which : HowMany(B, k, which)' = HowMany(B, k, which)
           /\ \A l : OwnSum(B, l)' = OwnSum(B, l)
<1>1. \A r \in B : KeyOf(r)' = KeyOf(r) /\ kind[r[1]]' = kind[r[1]]
  BY DEF Stable, KeyOf
<1>2. Touched(B)' = Touched(B)
  BY <1>1 DEF Touched
<1>3. \A k : VisitorsIn(B, k)' = VisitorsIn(B, k)
  BY <1>1 DEF VisitorsIn
<1>4. \A k, which : HowMany(B, k, which)' = HowMany(B, k, which)
  <2> TAKE k, which
  <2>1. {r \in B : KeyOf(r)' = k /\ kind[r[1]]' = which} = {r \in B : KeyOf(r) = k /\ kind[r[1]] = which}
    BY <1>1
  <2> QED BY <2>1 DEF HowMany
<1>5. \A l : OwnSum(B, l)' = OwnSum(B, l)
  <2> TAKE l
  <2>1. [d \in Days |-> HowMany(B, <<l, d>>, "click")'] = [d \in Days |-> HowMany(B, <<l, d>>, "click")]
    BY <1>4
  <2> QED BY <2>1 DEF OwnSum
<1> QED BY <1>2, <1>3, <1>4, <1>5

\* The rows of click_events, and those a rollup holds, have a day and so a key.
LEMMA KeysOfRows ==
    ASSUME IInv, NEW r \in Rows, row[r] # "absent"
    PROVE  /\ day[r[1]] \in Days /\ KeyOf(r) \in Keys /\ LinkOf[r[1]] \in Links
           /\ r[1] \in Clicks
<1>1. PICK c \in Clicks, k \in 1 .. MaxReceive : r = <<c, k>>
  BY DEF Rows
<1>2. PathInv(c)
  BY DEF IInv
<1>3. day[c] \in Days
  BY <1>1, <1>2 DEF PathInv
<1> QED BY <1>1, <1>3, ClickRollupAssumption DEF KeyOf, Keys

\* The total of a link is a number, before a step and after it.
LEMMA TotalNat ==
    ASSUME NEW D \in [Keys -> [clicks : Nat, blocked : Nat]], NEW l \in Links
    PROVE  SumFunction([d \in Days |-> D[<<l, d>>].clicks]) \in Nat
<1>1. \A d \in Days : <<l, d>> \in Keys
  BY DEF Keys
<1>2. [d \in Days |-> D[<<l, d>>].clicks] \in [Days -> Nat]
  BY <1>1
<1> QED BY <1>2, SumNat, Finite

\* The same of the totals themselves.
LEMMA TotalsNat ==
    /\ ClickTypeOK => \A l \in Links : DailyTotal(l) \in Nat
    /\ ClickTypeOK' => \A l \in Links : DailyTotal(l)' \in Nat
BY TotalNat DEF DailyTotal, ClickTypeOK, Days

\* So is what a batch adds to it.
LEMMA OwnSumNat ==
    ASSUME NEW B, B \subseteq Rows, NEW l
    PROVE  OwnSum(B, l) \in Nat
<1>1. [d \in Days |-> HowMany(B, <<l, d>>, "click")] \in [Days -> Nat]
  BY HowManyNat
<1> QED BY <1>1, SumNat, Finite DEF OwnSum

-----------------------------------------------------------------------------
(* What a step must leave alone for an invariant to hold after it.          *)

\* A click whose stage, day and deliveries are as before, and which has the same
\* rows, counted or not.
PathSame(d) ==
    /\ profile' = profile /\ stage'[d] = stage[d]
    /\ day'[d] = day[d] /\ receives'[d] = receives[d]
    /\ \A k \in 1 .. MaxReceive : row'[<<d, k>>] = "absent" <=> row[<<d, k>>] = "absent"

\* Its path then stays consistent.
LEMMA PathKept ==
    ASSUME NEW d, PathInv(d), PathSame(d)
    PROVE  PathInv(d)'
BY DEF PathInv, PathSame, RowOf

\* A gate that lets nobody else through keeps the reservations above their number.
LEMMA ReservedKept ==
    ASSUME ClickTypeOK, ReservedInv, profile' = profile, reserved' = reserved,
           \A c \in Clicks : stage'[c] # "none" /\ kind'[c] # "blocked"
                                 => stage[c] # "none" /\ kind[c] # "blocked"
    PROVE  ReservedInv'
<1>1. SUFFICES ASSUME NEW l \in Links, profile = "postgres", Limit[l] # NoLimit
               PROVE  Cardinality(LetThrough(l))' <= reserved[l] /\ reserved[l] <= Limit[l]
  BY DEF ReservedInv
<1>2. PICK S, T : S = LetThrough(l) /\ T = LetThrough(l)'
  OBVIOUS
<1>3. T \subseteq S /\ S \subseteq Clicks
  BY <1>2 DEF LetThrough
<1>4. Cardinality(S) \in Nat /\ Cardinality(T) \in Nat /\ Cardinality(T) <= Cardinality(S)
  BY <1>3, FS_Subset, FS_CardinalityType, ClickRollupAssumption
<1>5. Cardinality(S) <= reserved[l] /\ reserved[l] <= Limit[l]
  BY <1>1, <1>2 DEF ReservedInv
<1>6. Cardinality(T) <= reserved[l]
  BY <1>4, <1>5 DEF ClickTypeOK
<1>7. T = LetThrough(l)'
  BY <1>2
<1> QED BY <1>5, <1>6, <1>7

\* A transaction keeps what it has while its rows stay pending, what it has merged
\* into stays stored, and the totals only grow.
LEMMA TxKept ==
    ASSUME ClickTypeOK, ClickTypeOK', NEW t, TxInv(t), Stable(t.batch), t.batch \subseteq Pending',
           \A l \in Links : DailyTotal(l) <= DailyTotal(l)',
           \A k \in Touched(t.batch) : k[1] \in Links,
           Writing(t) => \A k \in Touched(t.batch) : sketch'[k] = sketch[k]
    PROVE  TxInv(t)'
<1>1. PICK B : B = t.batch
  OBVIOUS
<1>2. /\ Touched(B)' = Touched(B)
      /\ \A k : VisitorsIn(B, k)' = VisitorsIn(B, k)
      /\ \A l : OwnSum(B, l)' = OwnSum(B, l)
  BY <1>1, SetsKept
<1>3. (t.step = "idle" => B = {}) /\ B \subseteq Rows
  BY <1>1 DEF TxInv, Pending
<1>4. Writing(t) => /\ DOMAIN t.merged = Touched(B)'
                    /\ \A k \in Touched(B)' : t.merged[k] = sketch'[k] \cup VisitorsIn(B, k)'
  BY <1>1, <1>2 DEF TxInv
<1>5. ASSUME t.step \in {"summed", "written"}
      PROVE  /\ DOMAIN t.sums = {k[1] : k \in Touched(B)'}
             /\ \A l \in {k[1] : k \in Touched(B)'} :
                   t.sums[l] \in Nat /\ t.sums[l] <= DailyTotal(l)' + OwnSum(B, l)'
  <2>1. DOMAIN t.sums = {k[1] : k \in Touched(B)'}
    BY <1>1, <1>2, <1>5 DEF TxInv
  <2>2. ASSUME NEW l \in {k[1] : k \in Touched(B)'}
        PROVE  t.sums[l] \in Nat /\ t.sums[l] <= DailyTotal(l)' + OwnSum(B, l)'
    <3>1. l \in Links /\ l \in {k[1] : k \in Touched(B)}
      BY <1>1, <1>2, <2>2
    <3>2. t.sums[l] \in Nat /\ t.sums[l] <= DailyTotal(l) + OwnSum(B, l)
      BY <1>1, <1>5, <3>1 DEF TxInv
    <3>3. DailyTotal(l) \in Nat /\ OwnSum(B, l) \in Nat
      BY <1>3, <3>1, TotalsNat, OwnSumNat
    <3>4. DailyTotal(l)' \in Nat
      BY <3>1, TotalsNat
    <3>5. PICK x, y, z : x = DailyTotal(l) /\ y = DailyTotal(l)' /\ z = OwnSum(B, l)
      OBVIOUS
    <3>6. x <= y
      BY <3>1, <3>5
    <3>7. t.sums[l] <= y + z
      BY <3>2, <3>3, <3>4, <3>5, <3>6
    <3> QED BY <1>2, <3>2, <3>5, <3>7
  <2> QED BY <2>1, <2>2
<1> QED BY <1>1, <1>3, <1>4, <1>5 DEF TxInv, Writing

\* Two transactions whose rows keep their day and kind stay apart.
LEMMA PairKept ==
    ASSUME NEW t, NEW u, PairInv(t, u), Stable(t.batch), Stable(u.batch)
    PROVE  PairInv(t, u)'
<1>1. PICK B, C : B = t.batch /\ C = u.batch
  OBVIOUS
<1>2. Touched(B)' = Touched(B) /\ Touched(C)' = Touched(C)
  BY <1>1, SetsKept
<1> QED BY <1>1, <1>2 DEF PairInv, Writing

-----------------------------------------------------------------------------
(* Initially.                                                               *)

\* Nothing has been clicked, stored or counted.
LEMMA InitIInv == ClickInit => IInv
<1> SUFFICES ASSUME ClickInit PROVE IInv
  OBVIOUS
<1>1. Rolled = {} /\ Pending = {}
  BY DEF ClickInit, Rolled, Pending
<1>2. ClickTypeOK
  <2>1. today \in Days
    BY ClickRollupAssumption DEF ClickInit, Days
  <2>2. receives \in [Clicks -> 0 .. MaxReceive] /\ day \in [Clicks -> 0 .. today]
    BY ClickRollupAssumption DEF ClickInit
  <2> QED BY <2>1, <2>2 DEF ClickInit, ClickTypeOK, Stages, Steps, NoTx
<1>3. TxShape
  BY DEF ClickInit, TxShape, NoTx
<1>4. ASSUME NEW c \in Clicks PROVE PathInv(c)
  <2>1. \A k \in 1 .. MaxReceive : row[<<c, k>>] = "absent"
    BY DEF ClickInit, Rows
  <2> QED BY <2>1, ClickRollupAssumption DEF ClickInit, PathInv
<1>5. ReservedInv
  <2> SUFFICES ASSUME NEW l \in Links, Limit[l] # NoLimit
               PROVE  Cardinality(LetThrough(l)) <= reserved[l] /\ reserved[l] <= Limit[l]
    BY DEF ReservedInv
  <2>1. LetThrough(l) = {}
    BY DEF ClickInit, LetThrough
  <2>2. Limit[l] \in Nat /\ reserved[l] = 0
    BY ClickRollupAssumption DEF ClickInit
  <2> QED BY <2>1, <2>2, FS_EmptySet
<1>6. RollInv
  <2>1. \A w \in Rollups : tx[w] = NoTx
    BY DEF ClickInit
  <2>2. TxInv(NoTx) /\ PairInv(NoTx, NoTx)
    BY DEF TxInv, PairInv, NoTx, Writing
  <2>3. \A k, which : HowMany({}, k, which) = 0
    BY FS_EmptySet DEF HowMany
  <2>4. CountedOnce
    BY <1>1, <2>3 DEF ClickInit, CountedOnce
  <2>5. SketchesKeepVisitors
    BY <1>1 DEF ClickInit, SketchesKeepVisitors, VisitorsIn
  <2>6. CounterNeverAhead
    BY <1>2, TotalsNat DEF ClickInit, CounterNeverAhead
  <2>7. (\A w \in Rollups : TxInv(tx[w])) /\ \A v, w \in Rollups : PairInv(tx[v], tx[w])
    BY <2>1, <2>2
  <2> QED BY <2>4, <2>5, <2>6, <2>7 DEF RollInv
<1> QED BY <1>2, <1>3, <1>4, <1>5, <1>6 DEF IInv

-----------------------------------------------------------------------------
(* The redirect and the queue.                                              *)

\* What a step of a click's path may do to the rows: insert one, and keep the day
\* and the kind of every click that has one.
RowsKept ==
    \A r \in Rows :
        /\ row'[r] # row[r] => row[r] = "absent" /\ row'[r] = "pending"
        /\ row[r] # "absent" => day'[r[1]] = day[r[1]] /\ kind'[r[1]] = kind[r[1]]

\* Such a step disturbs no transaction, and nothing that is counted.
LEMMA RollKept ==
    ASSUME IInv, UNCHANGED rollVars, RowsKept, ClickTypeOK'
    PROVE  RollInv' /\ TxShape'
<1> USE DEF rollVars
<1>1. Rolled' = Rolled /\ Pending \subseteq Pending'
  BY DEF RowsKept, Rolled, Pending
<1>2. \A B : B \subseteq {r \in Rows : row[r] # "absent"} => Stable(B)
  BY DEF RowsKept, Stable
<1>3. Rolled \subseteq {r \in Rows : row[r] # "absent"} /\ Pending \subseteq {r \in Rows : row[r] # "absent"}
  BY DEF Rolled, Pending
<1>4. \A l \in Links : DailyTotal(l)' = DailyTotal(l) /\ DailyTotal(l) \in Nat
  BY TotalsNat DEF DailyTotal, IInv
<1>5. ASSUME NEW w \in Rollups PROVE Stable(tx[w].batch) /\ tx[w].batch \subseteq Pending'
  <2>1. TxInv(tx[w])
    BY DEF IInv, RollInv
  <2>2. tx[w].batch \subseteq Pending
    BY <2>1 DEF TxInv
  <2> QED BY <1>1, <1>2, <1>3, <2>2
<1>6. ASSUME NEW w \in Rollups PROVE TxInv(tx[w])'
  <2>1. PICK t : t = tx[w]
    OBVIOUS
  <2>2. TxInv(t)
    BY <2>1 DEF IInv, RollInv
  <2>3. \A k \in Touched(t.batch) : k[1] \in Links
    <3>1. t.batch \subseteq Rows
      BY <2>2 DEF TxInv, Pending
    <3>2. \A r \in Rows : LinkOf[r[1]] \in Links
      BY ClickRollupAssumption DEF Rows
    <3> QED BY <3>1, <3>2 DEF Touched, KeyOf
  <2>4. Stable(t.batch) /\ t.batch \subseteq Pending'
    BY <1>5, <2>1
  <2>5. \A l \in Links : DailyTotal(l) <= DailyTotal(l)'
    BY <1>4
  <2>6. TxInv(t)'
    BY <2>2, <2>3, <2>4, <2>5, TxKept DEF IInv
  <2> QED BY <2>1, <2>6
<1>7. ASSUME NEW v \in Rollups, NEW w \in Rollups, v # w PROVE PairInv(tx[v], tx[w])'
  <2>1. PICK t, u : t = tx[v] /\ u = tx[w]
    OBVIOUS
  <2>2. PairInv(t, u)
    BY <1>7, <2>1 DEF IInv, RollInv
  <2>3. Stable(t.batch) /\ Stable(u.batch)
    BY <1>5, <2>1
  <2>4. PairInv(t, u)'
    BY <2>2, <2>3, PairKept
  <2> QED BY <2>1, <2>4
<1>8. PICK R : R = Rolled
  OBVIOUS
<1>9. /\ \A k : VisitorsIn(R, k)' = VisitorsIn(R, k)
      /\ \A k, which : HowMany(R, k, which)' = HowMany(R, k, which)
  BY <1>2, <1>3, <1>8, SetsKept
<1>10. CountedOnce'
  <2>1. \A k \in Keys : daily[k].clicks = HowMany(R, k, "click") /\ daily[k].blocked = HowMany(R, k, "blocked")
    BY <1>8 DEF IInv, RollInv, CountedOnce
  <2>2. \A k \in Keys : daily'[k].clicks = HowMany(R, k, "click")' /\ daily'[k].blocked = HowMany(R, k, "blocked")'
    BY <1>9, <2>1
  <2> QED BY <1>1, <1>8, <2>2 DEF CountedOnce
<1>11. SketchesKeepVisitors'
  <2>1. \A k \in Keys : sketch[k] = VisitorsIn(R, k)
    BY <1>8 DEF IInv, RollInv, SketchesKeepVisitors
  <2>2. \A k \in Keys : sketch'[k] = VisitorsIn(R, k)'
    BY <1>9, <2>1
  <2> QED BY <1>1, <1>8, <2>2 DEF SketchesKeepVisitors
<1>12. CounterNeverAhead'
  BY <1>4 DEF IInv, RollInv, CounterNeverAhead
<1>13. TxShape'
  BY DEF IInv, TxShape
<1> QED BY <1>6, <1>7, <1>10, <1>11, <1>12, <1>13 DEF RollInv

\* A verdict on a click moves it from nowhere to the gate; it has no row yet.
LEMMA VerdictKeeps ==
    ASSUME IInv, NEW c \in Clicks, NEW refused \in BOOLEAN, Verdict(c, refused),
           reserved' \in [Links -> Nat]
    PROVE  /\ ClickTypeOK' /\ TxShape' /\ RollInv'
           /\ \A d \in Clicks : PathInv(d)'
<1> USE DEF Verdict, rollVars
<1>1. PICK k \in {"click", "bot", "blocked"} : kind' = [kind EXCEPT ![c] = k]
  OBVIOUS
<1>2. ClickTypeOK'
  BY <1>1 DEF IInv, ClickTypeOK, Stages
<1>3. \A i \in 1 .. MaxReceive : row[<<c, i>>] = "absent"
  BY DEF IInv, PathInv
<1>4. \A r \in Rows : r[1] \in Clicks /\ \E i \in 1 .. MaxReceive : r = <<r[1], i>>
  BY DEF Rows
<1>5. RowsKept
  BY <1>1, <1>3, <1>4 DEF RowsKept, IInv, ClickTypeOK
<1>6. RollInv' /\ TxShape'
  BY <1>2, <1>5, RollKept
<1>7. ASSUME NEW d \in Clicks PROVE PathInv(d)'
  <2>1. CASE d = c
    BY <1>3, <2>1 DEF IInv, PathInv, ClickTypeOK
  <2>2. CASE d # c
    BY <2>2, PathKept DEF PathSame, IInv, ClickTypeOK
  <2> QED BY <2>1, <2>2
<1> QED BY <1>2, <1>6, <1>7

\* A refusal, or a gate without a limit, lets through no click of a limited link.
LEMMA GateOtherKeeps ==
    ASSUME IInv, NEW c \in Clicks, NEW refused \in BOOLEAN, GateOther(c, refused)
    PROVE  IInv'
<1>1. Verdict(c, refused) /\ reserved' = reserved /\ (Limit[LinkOf[c]] # NoLimit => refused)
  BY DEF GateOther
<1>2. ClickTypeOK' /\ TxShape' /\ RollInv' /\ \A d \in Clicks : PathInv(d)'
  BY <1>1, VerdictKeeps DEF IInv, ClickTypeOK
<1>3. ReservedInv'
  <2>1. CASE refused
    <3>1. kind' = [kind EXCEPT ![c] = "blocked"] /\ stage' = [stage EXCEPT ![c] = "gated"]
          /\ profile' = profile
      BY <1>1, <2>1 DEF Verdict
    <3>2. \A d \in Clicks : stage'[d] # "none" /\ kind'[d] # "blocked"
                                 => stage[d] # "none" /\ kind[d] # "blocked"
      BY <3>1 DEF IInv, ClickTypeOK
    <3> QED BY <1>1, <3>1, <3>2, ReservedKept DEF IInv
  <2>2. CASE ~refused
    <3> SUFFICES ASSUME NEW l \in Links, profile = "postgres", Limit[l] # NoLimit
                 PROVE  Cardinality(LetThrough(l))' <= reserved[l] /\ reserved[l] <= Limit[l]
      BY <1>1 DEF ReservedInv, Verdict
    <3>1. Limit[LinkOf[c]] = NoLimit
      BY <1>1, <2>2
    <3>2. \A d \in Clicks : d # c => stage'[d] = stage[d] /\ kind'[d] = kind[d]
      BY <1>1 DEF Verdict, IInv, ClickTypeOK
    <3>3. LetThrough(l)' = LetThrough(l)
      BY <3>1, <3>2 DEF LetThrough
    <3>4. Cardinality(LetThrough(l)) <= reserved[l] /\ reserved[l] <= Limit[l]
      BY DEF IInv, ReservedInv
    <3> QED BY <3>3, <3>4
  <2> QED BY <2>1, <2>2
<1> QED BY <1>2, <1>3 DEF IInv

\* Without a database in the redirect nothing is reserved.
LEMMA GateByCountKeeps ==
    ASSUME IInv, NEW c \in Clicks, NEW seen \in 0 .. counters[LinkOf[c]], GateByCount(c, seen)
    PROVE  IInv'
<1>1. PICK refused \in BOOLEAN : Verdict(c, refused)
  <2>1. CASE seen >= Limit[LinkOf[c]]
    BY <2>1 DEF GateByCount, Verdict
  <2>2. CASE ~(seen >= Limit[LinkOf[c]])
    BY <2>2 DEF GateByCount, Verdict
  <2> QED BY <2>1, <2>2
<1>2. ClickTypeOK' /\ TxShape' /\ RollInv' /\ \A d \in Clicks : PathInv(d)'
  BY <1>1, VerdictKeeps DEF GateByCount, IInv, ClickTypeOK
<1>3. profile' = "aws"
  BY DEF GateByCount, Verdict
<1>4. ReservedInv'
  BY <1>3 DEF ReservedInv
<1> QED BY <1>2, <1>4 DEF IInv

\* Each click that is let through adds one to what is reserved, up to the limit.
LEMMA ReserveKeeps ==
    ASSUME IInv, NEW c \in Clicks, Reserve(c)
    PROVE  IInv'
<1> DEFINE l == LinkOf[c]
<1>1. l \in Links /\ Limit[l] \in Nat
  BY ClickRollupAssumption DEF Reserve
<1>2. reserved' = [reserved EXCEPT ![l] = IF reserved[l] < Limit[l] THEN reserved[l] + 1 ELSE reserved[l]]
  BY DEF Reserve
<1> HIDE DEF l
<1>3. PICK refused \in BOOLEAN : refused = (reserved' = reserved) /\ Verdict(c, refused)
  BY DEF Reserve
<1>4. reserved' \in [Links -> Nat]
  BY <1>1, <1>2 DEF IInv, ClickTypeOK
<1>5. ClickTypeOK' /\ TxShape' /\ RollInv' /\ \A d \in Clicks : PathInv(d)'
  BY <1>3, <1>4, VerdictKeeps
<1>6. ASSUME NEW m \in Links, profile = "postgres", Limit[m] # NoLimit
      PROVE  Cardinality(LetThrough(m))' <= reserved'[m] /\ reserved'[m] <= Limit[m]
  <2>1. PICK S, T : S = LetThrough(m) /\ T = LetThrough(m)'
    OBVIOUS
  <2>2. IsFiniteSet(S) /\ Cardinality(S) \in Nat
    BY <2>1, FS_Subset, FS_CardinalityType, ClickRollupAssumption DEF LetThrough
  <2>3. Cardinality(S) <= reserved[m] /\ reserved[m] <= Limit[m] /\ reserved[m] \in Nat
    BY <1>6, <2>1 DEF IInv, ReservedInv, ClickTypeOK
  <2>4. \A d \in Clicks : d # c => stage'[d] = stage[d] /\ kind'[d] = kind[d]
    BY <1>3 DEF Verdict, IInv, ClickTypeOK
  <2>5. T \subseteq S \cup {c} /\ (m # l => T = S)
    BY <2>1, <2>4 DEF LetThrough, l
  <2>6. CASE m # l
    BY <1>1, <1>2, <2>1, <2>3, <2>5, <2>6 DEF IInv, ClickTypeOK
  <2>7. CASE m = l /\ reserved[l] < Limit[l]
    <3>1. reserved'[m] = reserved[m] + 1
      BY <1>1, <1>2, <2>7 DEF IInv, ClickTypeOK
    <3>2. IsFiniteSet(S \cup {c}) /\ Cardinality(S \cup {c}) \in Nat
          /\ Cardinality(S \cup {c}) <= Cardinality(S) + 1
      <4>1. /\ IsFiniteSet(S \cup {c})
            /\ Cardinality(S \cup {c}) = IF c \in S THEN Cardinality(S) ELSE Cardinality(S) + 1
        BY <2>2, FS_AddElement
      <4> QED BY <2>2, <4>1
    <3>3. Cardinality(T) <= Cardinality(S \cup {c}) /\ Cardinality(T) \in Nat
      BY <2>5, <3>2, FS_Subset, FS_CardinalityType
    <3>4. Cardinality(T) <= reserved'[m] /\ reserved'[m] <= Limit[m]
      BY <1>1, <2>2, <2>3, <2>7, <3>1, <3>2, <3>3
    <3> QED BY <2>1, <3>4
  <2>8. CASE m = l /\ ~(reserved[l] < Limit[l])
    <3>1. reserved' = reserved
      BY <1>1, <1>2, <2>8 DEF IInv, ClickTypeOK
    <3>2. kind'[c] = "blocked"
      BY <1>3, <3>1 DEF Verdict, IInv, ClickTypeOK
    <3>3. T \subseteq S
      BY <2>1, <2>5, <3>2 DEF LetThrough
    <3>4. Cardinality(T) <= Cardinality(S) /\ Cardinality(T) \in Nat
      BY <2>2, <3>3, FS_Subset, FS_CardinalityType
    <3>5. Cardinality(T) <= reserved'[m]
      BY <2>2, <2>3, <3>1, <3>4
    <3> QED BY <2>1, <2>3, <3>1, <3>5
  <2> QED BY <2>6, <2>7, <2>8
<1>7. ReservedInv'
  <2>1. profile' = profile
    BY <1>3 DEF Verdict
  <2> QED BY <1>6, <2>1 DEF ReservedInv
<1> QED BY <1>5, <1>7 DEF IInv

\* The day of a click is taken when it is recorded, and it has no row before.
LEMMA RecordKeeps ==
    ASSUME IInv, NEW c \in Clicks, Record(c)
    PROVE  IInv'
<1> USE DEF Record, rollVars
<1>1. /\ receives[c] = 0
      /\ \A i \in 1 .. MaxReceive : row[<<c, i>>] = "absent"
  BY DEF IInv, PathInv
<1>2. \A r \in Rows : r[1] \in Clicks /\ \E i \in 1 .. MaxReceive : r = <<r[1], i>>
  BY DEF Rows
<1>3. today \in Days /\ today \in 0 .. today
  BY DEF IInv, ClickTypeOK, Days
<1>4. ClickTypeOK'
  <2>1. day' \in [Clicks -> 0 .. today']
    BY <1>3 DEF IInv, ClickTypeOK
  <2>2. receives' \in [Clicks -> 0 .. MaxReceive] /\ stage' \in [Clicks -> Stages]
    BY ClickRollupAssumption DEF IInv, ClickTypeOK, Stages
  <2> QED BY <2>1, <2>2 DEF IInv, ClickTypeOK
<1>5. RowsKept
  BY <1>1, <1>2 DEF RowsKept, IInv, ClickTypeOK
<1>6. RollInv' /\ TxShape'
  BY <1>4, <1>5, RollKept
<1>7. ASSUME NEW d \in Clicks PROVE PathInv(d)'
  <2>1. CASE d = c
    BY <1>1, <1>3, <2>1, ClickRollupAssumption DEF IInv, PathInv, ClickTypeOK
  <2>2. CASE d # c
    BY <2>2, PathKept DEF PathSame, IInv, ClickTypeOK
  <2> QED BY <2>1, <2>2
<1>8. ReservedInv'
  BY ReservedKept DEF IInv, ClickTypeOK
<1> QED BY <1>4, <1>6, <1>7, <1>8 DEF IInv

\* The steps that only move a click on keep its rows: those of a click that is
\* forgotten, received, acknowledged or put back.
LEMMA MoveKeeps ==
    ASSUME IInv, NEW c \in Clicks, Forget(c) \/ Deliver(c)
    PROVE  IInv'
<1> USE DEF Forget, Deliver, Receive, Acknowledge, Redrive, rollVars
<1>1. ClickTypeOK'
  <2>1. stage' \in [Clicks -> Stages] /\ profile' = profile /\ today' = today /\ day' = day
    BY DEF IInv, ClickTypeOK, Stages
  <2>2. receives' \in [Clicks -> 0 .. MaxReceive]
    <3>1. CASE Receive(c)
      <4>1. receives[c] \in 0 .. MaxReceive /\ receives[c] < MaxReceive
        BY <3>1 DEF IInv, ClickTypeOK, PathInv
      <4>2. receives[c] + 1 \in 0 .. MaxReceive
        BY <4>1, ClickRollupAssumption
      <4> QED BY <3>1, <4>2 DEF IInv, ClickTypeOK
    <3>2. CASE ~Receive(c)
      <4>1. receives' = receives
        BY <3>2
      <4> QED BY <4>1 DEF IInv, ClickTypeOK
    <3> QED BY <3>1, <3>2
  <2> QED BY <2>1, <2>2 DEF IInv, ClickTypeOK
<1>2. RowsKept
  BY DEF RowsKept
<1>3. RollInv' /\ TxShape'
  BY <1>1, <1>2, RollKept
<1>4. ASSUME NEW d \in Clicks PROVE PathInv(d)'
  <2>1. CASE d # c
    BY <2>1, PathKept DEF PathSame, IInv, ClickTypeOK
  <2>2. CASE d = c
    <3>1. PathInv(c) /\ receives[c] \in 0 .. MaxReceive /\ profile \in {"postgres", "aws"}
      BY DEF IInv, ClickTypeOK
    <3>2. \A m \in 1 .. MaxReceive : row'[<<c, m>>] = row[<<c, m>>]
      OBVIOUS
    <3>3. CASE Forget(c)
      <4>1. stage'[c] = "lost" /\ profile' = profile /\ receives'[c] = receives[c] /\ day'[c] = day[c]
        BY <3>3 DEF IInv, ClickTypeOK
      <4>2. stage[c] \in {"gated", "inflight"}
        BY <3>3
      <4> QED BY <2>2, <3>1, <3>2, <4>1, <4>2 DEF PathInv
    <3>4. CASE Receive(c)
      <4>1. /\ stage'[c] = "inflight" /\ profile' = profile /\ receives'[c] = receives[c] + 1
            /\ day'[c] = day[c]
        BY <3>4 DEF IInv, ClickTypeOK
      <4>2. stage[c] = "queued" /\ profile = "aws" /\ receives[c] < MaxReceive
        BY <3>1, <3>4 DEF PathInv
      <4>3. \A m \in 1 .. MaxReceive : row'[<<c, m>>] # "absent" => m <= receives[c] /\ m < receives'[c]
        BY <3>1, <3>2, <4>1, <4>2 DEF PathInv
      <4> QED BY <2>2, <3>1, <4>1, <4>2, <4>3 DEF PathInv
    <3>5. CASE Acknowledge(c)
      BY <2>2, <3>1, <3>2, <3>5, ClickRollupAssumption DEF PathInv, RowOf, IInv, ClickTypeOK
    <3>6. CASE Redrive(c)
      <4>1. /\ stage'[c] = (IF receives[c] < MaxReceive THEN "queued" ELSE "dead")
            /\ profile' = profile /\ receives'[c] = receives[c] /\ day'[c] = day[c]
        BY <3>6 DEF IInv, ClickTypeOK
      <4>2. stage[c] \in {"inflight", "stored"} /\ profile = "aws"
        BY <3>6
      <4>3. ~(receives[c] < MaxReceive) => receives[c] = MaxReceive
        BY <3>1, ClickRollupAssumption
      <4> QED BY <2>2, <3>1, <3>2, <4>1, <4>2, <4>3 DEF PathInv
    <3> QED BY <3>3, <3>4, <3>5, <3>6
  <2> QED BY <2>1, <2>2
<1>5. ReservedInv'
  <2>1. \A d \in Clicks : stage'[d] # "none" /\ kind'[d] # "blocked"
                                => stage[d] # "none" /\ kind[d] # "blocked"
    BY DEF IInv, ClickTypeOK
  <2> QED BY <2>1, ReservedKept DEF IInv
<1> QED BY <1>1, <1>3, <1>4, <1>5 DEF IInv

\* An insert adds a row of the latest delivery, which has none yet.
LEMMA StoreKeeps ==
    ASSUME IInv, NEW c \in Clicks, Store(c)
    PROVE  IInv'
<1> USE DEF Store, rollVars
<1>1. PathInv(c) /\ receives[c] \in 1 .. MaxReceive /\ day[c] \in Days
  BY DEF IInv, ClickTypeOK, PathInv
<1>2. row[<<c, receives[c]>>] = "absent" /\ <<c, receives[c]>> \in Rows
  BY <1>1 DEF PathInv, Rows, IInv, ClickTypeOK
<1>3. ClickTypeOK'
  BY <1>2 DEF IInv, ClickTypeOK, Stages
<1>4. RowsKept
  BY <1>2 DEF RowsKept, IInv, ClickTypeOK
<1>5. RollInv' /\ TxShape'
  BY <1>3, <1>4, RollKept
<1>6. ASSUME NEW d \in Clicks PROVE PathInv(d)'
  <2>1. \A m \in 1 .. MaxReceive : <<d, m>> \in Rows
    BY DEF Rows
  <2>2. CASE d # c
    BY <2>1, <2>2, PathKept DEF PathSame, IInv, ClickTypeOK
  <2>3. CASE d = c
    <3>1. row'[<<c, receives[c]>>] = "pending"
      BY <1>2 DEF IInv, ClickTypeOK
    <3>2. RowOf(c)'
      BY <1>1, <3>1 DEF RowOf
    <3>3. \A m \in 1 .. MaxReceive : row'[<<c, m>>] # "absent" => m <= receives[c]
      BY <1>1, <2>1, <2>3 DEF PathInv, IInv, ClickTypeOK
    <3>4. /\ stage'[c] = (IF profile = "aws" THEN "stored" ELSE "done")
          /\ receives'[c] = receives[c] /\ profile' = profile /\ day'[c] = day[c]
          /\ profile = "postgres" => receives[c] <= 1
      BY <1>1 DEF IInv, ClickTypeOK, PathInv
    <3> QED BY <1>1, <2>3, <3>2, <3>3, <3>4 DEF PathInv
  <2> QED BY <2>2, <2>3
<1>7. ReservedInv'
  <2>1. \A d \in Clicks : stage'[d] # "none" /\ kind'[d] # "blocked"
                                => stage[d] # "none" /\ kind[d] # "blocked"
    BY DEF IInv, ClickTypeOK
  <2> QED BY <2>1, ReservedKept DEF IInv
<1> QED BY <1>3, <1>5, <1>6, <1>7 DEF IInv

\* A new day changes nothing that is recorded.
LEMMA MidnightKeeps ==
    ASSUME IInv, Midnight
    PROVE  IInv'
<1> USE DEF Midnight, rollVars
<1>1. ClickTypeOK'
  <2>1. today' \in Days /\ 0 .. today \subseteq 0 .. today'
    BY ClickRollupAssumption DEF IInv, ClickTypeOK, Days
  <2> QED BY <2>1 DEF IInv, ClickTypeOK
<1>2. RowsKept
  BY DEF RowsKept
<1>3. RollInv' /\ TxShape'
  BY <1>1, <1>2, RollKept
<1>4. \A d \in Clicks : PathInv(d)'
  BY PathKept DEF PathSame, IInv
<1>5. ReservedInv'
  BY ReservedKept DEF IInv
<1> QED BY <1>1, <1>3, <1>4, <1>5 DEF IInv

-----------------------------------------------------------------------------
(* The rollups.                                                             *)

\* A transaction as a record of its four parts.
Shaped(t) == t = [step |-> t.step, batch |-> t.batch, merged |-> t.merged, sums |-> t.sums]

\* The keys of the rows that a rollup holds are keys of links.
LEMMA TouchedLinks ==
    ASSUME NEW B, B \subseteq Rows
    PROVE  \A k \in Touched(B) : k[1] \in Links
<1>1. \A r \in Rows : LinkOf[r[1]] \in Links
  BY ClickRollupAssumption DEF Rows
<1> QED BY <1>1 DEF Touched, KeyOf

\* What a statement leaves its transaction with is all that must be shown of it.
LEMMA AdvanceKeeps ==
    ASSUME IInv, NEW w \in Rollups, NEW t, Advance(w, t),
           Shaped(t), t.step \in Steps, TxInv(t),
           \A v \in Rollups : v # w => PairInv(tx[v], t) /\ PairInv(t, tx[v])
    PROVE  IInv'
<1> USE DEF Advance, pathVars
<1>1. t.batch \subseteq Pending /\ Pending' = Pending /\ Rolled' = Rolled
  BY DEF TxInv, Pending, Rolled
<1>2. tx'[w] = t /\ \A v \in Rollups : v # w => tx'[v] = tx[v]
  BY DEF IInv, TxShape
<1>3. ClickTypeOK'
  <2>1. \A v \in Rollups : tx'[v].step \in Steps /\ tx'[v].batch \subseteq Rows
    BY <1>1, <1>2 DEF Pending, IInv, ClickTypeOK
  <2> QED BY <2>1 DEF IInv, ClickTypeOK
<1>4. TxShape'
  <2>1. tx' = [v \in Rollups |-> tx'[v]]
    BY DEF IInv, TxShape
  <2>2. ASSUME NEW v \in Rollups PROVE Shaped(tx'[v])
    <3>1. CASE v = w
      BY <1>2, <3>1
    <3>2. CASE v # w
      <4>1. tx'[v] = tx[v]
        BY <1>2, <3>2
      <4>2. Shaped(tx[v])
        BY DEF IInv, TxShape, Shaped
      <4> QED BY <4>1, <4>2
    <3> QED BY <3>1, <3>2
  <2> QED BY <2>1, <2>2 DEF TxShape, Shaped
<1>5. \A d \in Clicks : PathInv(d)'
  BY PathKept DEF PathSame, IInv
<1>6. ReservedInv'
  BY ReservedKept DEF IInv
<1>7. ASSUME NEW u, TxInv(u) PROVE Stable(u.batch) /\ TxInv(u)'
  <2>1. u.batch \subseteq Pending' /\ u.batch \subseteq Rows
    BY <1>1, <1>7 DEF TxInv, Pending
  <2>2. Stable(u.batch)
    BY DEF Stable
  <2>3. \A l \in Links : DailyTotal(l) <= DailyTotal(l)'
    <3>1. \A l \in Links : DailyTotal(l)' = DailyTotal(l) /\ DailyTotal(l) \in Nat
      BY TotalsNat DEF DailyTotal, IInv
    <3> QED BY <3>1
  <2>4. \A k \in Touched(u.batch) : k[1] \in Links
    BY <2>1, TouchedLinks
  <2> QED BY <1>3, <1>7, <2>1, <2>2, <2>3, <2>4, TxKept DEF IInv
<1>8. \A v \in Rollups : TxInv(tx[v])
  BY DEF IInv, RollInv
<1>9. ASSUME NEW v \in Rollups PROVE TxInv(tx[v])'
  <2>1. PICK u : u = tx'[v]
    OBVIOUS
  <2>2. TxInv(u)
    BY <1>2, <1>8, <2>1
  <2>3. TxInv(u)'
    BY <1>7, <2>2
  <2> QED BY <2>1, <2>3
<1>10. ASSUME NEW v \in Rollups, NEW x \in Rollups, v # x PROVE PairInv(tx[v], tx[x])'
  <2>1. PICK a, b : a = tx'[v] /\ b = tx'[x]
    OBVIOUS
  <2>2. TxInv(a) /\ TxInv(b)
    BY <1>2, <1>8, <2>1
  <2>3. PairInv(a, b)
    <3>1. CASE v = w
      BY <1>2, <1>10, <2>1, <3>1
    <3>2. CASE x = w
      BY <1>2, <1>10, <2>1, <3>2
    <3>3. CASE v # w /\ x # w
      BY <1>2, <1>10, <2>1, <3>3 DEF IInv, RollInv
    <3> QED BY <3>1, <3>2, <3>3
  <2>4. PairInv(a, b)'
    BY <1>7, <2>2, <2>3, PairKept
  <2> QED BY <2>1, <2>4
<1>11. CountedOnce' /\ SketchesKeepVisitors'
  <2>1. PICK R : R = Rolled
    OBVIOUS
  <2>2. /\ \A k : VisitorsIn(R, k)' = VisitorsIn(R, k)
        /\ \A k, which : HowMany(R, k, which)' = HowMany(R, k, which)
    BY SetsKept DEF Stable
  <2>3. \A k \in Keys : /\ daily[k].clicks = HowMany(R, k, "click")
                        /\ daily[k].blocked = HowMany(R, k, "blocked")
                        /\ sketch[k] = VisitorsIn(R, k)
    BY <2>1 DEF IInv, RollInv, CountedOnce, SketchesKeepVisitors
  <2>4. \A k \in Keys : /\ daily'[k].clicks = HowMany(R, k, "click")'
                        /\ daily'[k].blocked = HowMany(R, k, "blocked")'
                        /\ sketch'[k] = VisitorsIn(R, k)'
    BY <2>2, <2>3
  <2>5. R = Rolled'
    BY <1>1, <2>1
  <2> QED BY <2>4, <2>5 DEF CountedOnce, SketchesKeepVisitors
<1>12. CounterNeverAhead'
  BY DEF IInv, RollInv, CounterNeverAhead, DailyTotal
<1>13. RollInv'
  BY <1>9, <1>10, <1>11, <1>12 DEF RollInv
<1> QED BY <1>3, <1>4, <1>5, <1>6, <1>13 DEF IInv

\* Two rollups are apart either way round.
LEMMA Apart ==
    ASSUME NEW t, NEW u, PairInv(t, u)
    PROVE  PairInv(u, t)
BY DEF PairInv

\* The claim takes free rows only.
LEMMA ClaimKeeps ==
    ASSUME IInv, NEW w \in Rollups, NEW B \in SUBSET Free, Claim(w, B)
    PROVE  IInv'
<1>1. PICK t : t = [NoTx EXCEPT !.step = "claimed", !.batch = B]
  OBVIOUS
<1>2. t = [step |-> "claimed", batch |-> B, merged |-> NoTx.merged, sums |-> NoTx.sums]
  BY <1>1 DEF NoTx
<1>3. Advance(w, t)
  BY <1>1 DEF Claim
<1>4. Shaped(t) /\ t.step = "claimed" /\ t.batch = B
  BY <1>2 DEF Shaped
<1>5. TxInv(t)
  BY <1>4 DEF TxInv, Writing, Free
<1>6. \A v \in Rollups : PairInv(tx[v], t)
  BY <1>4 DEF PairInv, Writing, Free, InBatch
<1> QED BY <1>3, <1>4, <1>5, <1>6, Apart, AdvanceKeeps DEF Steps

\* The additive upsert waits for those who have written the same keys.
LEMMA AddDailyKeeps ==
    ASSUME IInv, NEW w \in Rollups, AddDaily(w)
    PROVE  IInv'
<1>1. PICK B : B = tx[w].batch
  OBVIOUS
<1>2. PICK m : m = [k \in Touched(B) |-> Merged(B, k)]
  OBVIOUS
<1>3. PICK t : t = [tx[w] EXCEPT !.step = "added", !.merged = m]
  OBVIOUS
<1>4. Shaped(tx[w]) /\ TxInv(tx[w]) /\ tx[w].step = "claimed"
  BY DEF IInv, RollInv, TxShape, Shaped, AddDaily
<1>5. t = [step |-> "added", batch |-> B, merged |-> m, sums |-> tx[w].sums]
  BY <1>1, <1>3, <1>4 DEF Shaped
<1>6. Advance(w, t)
  BY <1>1, <1>2, <1>3 DEF AddDaily
<1>7. Shaped(t) /\ t.step = "added" /\ t.batch = B /\ t.merged = m
  BY <1>5 DEF Shaped
<1>8. TxInv(t)
  BY <1>1, <1>2, <1>4, <1>7 DEF TxInv, Writing, Merged
<1>9. ASSUME NEW v \in Rollups, v # w PROVE PairInv(tx[v], t)
  <2>1. tx[v].batch \cap B = {}
    BY <1>1, <1>9 DEF IInv, RollInv, PairInv
  <2>2. \A k \in Touched(B) : Writing(tx[v]) => k \notin Touched(tx[v].batch)
    BY <1>1, <1>9 DEF AddDaily, Holds, Writing
  <2> QED BY <1>7, <2>1, <2>2 DEF PairInv
<1> QED BY <1>6, <1>7, <1>8, <1>9, Apart, AdvanceKeeps DEF Steps

\* The sum is of what is committed and of what the transaction adds itself.
LEMMA SumCountersKeeps ==
    ASSUME IInv, NEW w \in Rollups, SumCounters(w)
    PROVE  IInv'
<1>1. PICK B : B = tx[w].batch
  OBVIOUS
<1>2. PICK s : s = [l \in LinksIn(w) |-> DailyTotal(l) + OwnTotal(w, l)]
  OBVIOUS
<1>3. PICK t : t = [tx[w] EXCEPT !.step = "summed", !.sums = s]
  OBVIOUS
<1>4. Shaped(tx[w]) /\ TxInv(tx[w]) /\ tx[w].step = "added"
  BY DEF IInv, RollInv, TxShape, Shaped, SumCounters
<1>5. t = [step |-> "summed", batch |-> B, merged |-> tx[w].merged, sums |-> s]
  BY <1>1, <1>3, <1>4 DEF Shaped
<1>6. Advance(w, t)
  BY <1>2, <1>3 DEF SumCounters
<1>7. Shaped(t) /\ t.step = "summed" /\ t.batch = B /\ t.merged = tx[w].merged /\ t.sums = s
  BY <1>5 DEF Shaped
<1>8. LinksIn(w) = {k[1] : k \in Touched(B)}
  BY <1>1 DEF LinksIn
<1>9. B \subseteq Rows
  BY <1>1, <1>4 DEF TxInv, Pending
<1>10. ASSUME NEW l \in LinksIn(w) PROVE s[l] \in Nat /\ s[l] <= DailyTotal(l) + OwnSum(B, l)
  <2>1. l \in Links
    BY <1>8, <1>9, TouchedLinks
  <2>2. DailyTotal(l) \in Nat /\ OwnSum(B, l) \in Nat
    BY <1>9, <2>1, TotalsNat, OwnSumNat DEF IInv
  <2>3. s[l] = DailyTotal(l) + OwnSum(B, l)
    BY <1>1, <1>2 DEF OwnTotal, OwnSum
  <2> QED BY <2>2, <2>3
<1>11. DOMAIN s = LinksIn(w)
  BY <1>2
<1>12. TxInv(t)
  BY <1>1, <1>4, <1>7, <1>8, <1>10, <1>11 DEF TxInv, Writing
<1>13. ASSUME NEW v \in Rollups, v # w PROVE PairInv(tx[v], t)
  <2>1. PairInv(tx[v], tx[w])
    BY <1>13 DEF IInv, RollInv
  <2> QED BY <1>1, <1>4, <1>7, <2>1 DEF PairInv, Writing
<1> QED BY <1>6, <1>7, <1>12, <1>13, Apart, AdvanceKeeps DEF Steps

\* Writing what was summed changes nothing more of the transaction.
LEMMA WriteCountersKeeps ==
    ASSUME IInv, NEW w \in Rollups, WriteCounters(w)
    PROVE  IInv'
<1>1. PICK t : t = [tx[w] EXCEPT !.step = "written"]
  OBVIOUS
<1>2. Shaped(tx[w]) /\ TxInv(tx[w]) /\ tx[w].step = "summed"
  BY DEF IInv, RollInv, TxShape, Shaped, WriteCounters
<1>3. t = [step |-> "written", batch |-> tx[w].batch, merged |-> tx[w].merged, sums |-> tx[w].sums]
  BY <1>1, <1>2 DEF Shaped
<1>4. Advance(w, t)
  BY <1>1 DEF WriteCounters
<1>5. /\ Shaped(t) /\ t.step = "written"
      /\ t.batch = tx[w].batch /\ t.merged = tx[w].merged /\ t.sums = tx[w].sums
  BY <1>3 DEF Shaped
<1>6. TxInv(t)
  BY <1>2, <1>5 DEF TxInv, Writing
<1>7. ASSUME NEW v \in Rollups, v # w PROVE PairInv(tx[v], t)
  <2>1. PairInv(tx[v], tx[w])
    BY <1>7 DEF IInv, RollInv
  <2> QED BY <1>2, <1>5, <2>1 DEF PairInv, Writing
<1> QED BY <1>4, <1>5, <1>6, <1>7, Apart, AdvanceKeeps DEF Steps

\* A rollup that rolls back holds nothing.
LEMMA NoTxInv ==
    /\ Shaped(NoTx) /\ NoTx.step = "idle" /\ NoTx.step \in Steps /\ TxInv(NoTx)
    /\ \A u : PairInv(u, NoTx) /\ PairInv(NoTx, u)
BY DEF NoTx, Shaped, Steps, TxInv, PairInv, Writing

\* An abort changes nothing but the transaction.
LEMMA AbortKeeps ==
    ASSUME IInv, NEW w \in Rollups, Abort(w)
    PROVE  IInv'
BY NoTxInv, AdvanceKeeps DEF Abort

\* A commit adds the rows of the batch to the totals as they are now, in the same
\* step as their marks, to the sketches it has locked since it merged them, and
\* writes sums that are no larger than the totals it leaves.
LEMMA CommitKeeps ==
    ASSUME IInv, NEW w \in Rollups, Commit(w)
    PROVE  IInv'
<1> USE DEF Commit, pathVars
<1>1. PICK B, m, s : B = tx[w].batch /\ m = tx[w].merged /\ s = tx[w].sums
  OBVIOUS
<1>2. PICK R : R = Rolled
  OBVIOUS
<1>3. B \subseteq Pending /\ B \subseteq Rows /\ R \subseteq Rows /\ R \cap B = {}
  <2>1. TxInv(tx[w])
    BY DEF IInv, RollInv
  <2> QED BY <1>1, <1>2, <2>1 DEF TxInv, Pending, Rolled
<1>4. row' = [r \in Rows |-> IF r \in B THEN "counted" ELSE row[r]]
  BY <1>1 DEF InBatch
<1>5. Rolled' = R \cup B /\ Pending' = Pending \ B
  BY <1>2, <1>3, <1>4 DEF Rolled, Pending
<1>6. \A S : Stable(S)
  BY DEF Stable
<1>7. \A k \in Keys : /\ daily'[k].clicks = daily[k].clicks + HowMany(B, k, "click")
                      /\ daily'[k].blocked = daily[k].blocked + HowMany(B, k, "blocked")
  BY <1>1 DEF Added
<1>8. \A k, which : HowMany(B, k, which) \in Nat
  BY <1>3, HowManyNat
<1>9. /\ DOMAIN m = Touched(B)
      /\ \A k \in Touched(B) : m[k] = sketch[k] \cup VisitorsIn(B, k)
      /\ DOMAIN s = {k[1] : k \in Touched(B)}
      /\ \A l \in DOMAIN s : s[l] \in Nat /\ s[l] <= DailyTotal(l) + OwnSum(B, l)
  <2>1. TxInv(tx[w])
    BY DEF IInv, RollInv
  <2> QED BY <1>1, <2>1 DEF TxInv, Writing
<1>10. \A k \in Touched(B) : k \in Keys /\ k[1] \in Links
  <2>1. \A r \in B : KeyOf(r) \in Keys
    BY <1>3, KeysOfRows DEF Pending
  <2> QED BY <1>3, <2>1, TouchedLinks DEF Touched
<1>11. ASSUME NEW k \in Keys
       PROVE  sketch'[k] = sketch[k] \cup VisitorsIn(B, k)
  <2>1. sketch' = [x \in Keys |-> IF x \in Touched(B) THEN m[x] ELSE sketch[x]]
    BY <1>1, <1>9 DEF Overwritten, IInv, ClickTypeOK
  <2>2. k \notin Touched(B) => VisitorsIn(B, k) = {}
    BY DEF Touched, VisitorsIn
  <2> QED BY <1>9, <1>11, <2>1, <2>2
<1>12. ASSUME NEW l \in Links
       PROVE  /\ counters'[l] = IF l \in DOMAIN s THEN s[l] ELSE counters[l]
              /\ counters'[l] \in Nat
  <2>1. counters' = [x \in Links |-> IF x \in DOMAIN s THEN s[x] ELSE counters[x]]
    BY <1>1 DEF Overwritten, IInv, ClickTypeOK
  <2> QED BY <1>9, <2>1 DEF IInv, ClickTypeOK
<1>13. ClickTypeOK'
  <2>1. row' \in [Rows -> {"absent", "pending", "counted", "removed"}]
    BY <1>4 DEF IInv, ClickTypeOK
  <2>2. daily' \in [Keys -> [clicks : Nat, blocked : Nat]]
    BY <1>1, <1>8 DEF Added, IInv, ClickTypeOK
  <2>3. sketch' \in [Keys -> SUBSET Visitors]
    <3>1. \A k : VisitorsIn(B, k) \subseteq Visitors
      BY <1>3, ClickRollupAssumption DEF VisitorsIn, Rows
    <3>2. sketch' = [k \in Keys |-> sketch'[k]]
      BY DEF Overwritten, IInv, ClickTypeOK
    <3> QED BY <1>11, <3>1, <3>2 DEF IInv, ClickTypeOK
  <2>4. counters' \in [Links -> Nat]
    <3>1. counters' = [l \in Links |-> counters'[l]]
      BY DEF Overwritten, IInv, ClickTypeOK
    <3> QED BY <1>12, <3>1
  <2>5. \A v \in Rollups : tx'[v].step \in Steps /\ tx'[v].batch \subseteq Rows
    BY DEF NoTx, Steps, IInv, ClickTypeOK, TxShape
  <2> QED BY <2>1, <2>2, <2>3, <2>4, <2>5 DEF IInv, ClickTypeOK
<1>14. tx'[w] = NoTx /\ \A v \in Rollups : v # w => tx'[v] = tx[v]
  BY DEF IInv, TxShape
<1>15. TxShape'
  <2>1. tx' = [v \in Rollups |-> tx'[v]]
    BY DEF IInv, TxShape
  <2>2. \A v \in Rollups : Shaped(tx[v])
    BY DEF IInv, TxShape, Shaped
  <2>3. \A v \in Rollups : Shaped(tx'[v])
    BY <1>14, <2>2, NoTxInv
  <2> QED BY <2>1, <2>3 DEF TxShape, Shaped
<1>16. \A d \in Clicks : PathInv(d)'
  <2> SUFFICES ASSUME NEW d \in Clicks PROVE PathInv(d)'
    OBVIOUS
  <2>1. \A k \in 1 .. MaxReceive : row'[<<d, k>>] = "absent" <=> row[<<d, k>>] = "absent"
    BY <1>3, <1>4 DEF Rows, Pending
  <2> QED BY <2>1, PathKept DEF PathSame, IInv
<1>17. ReservedInv'
  BY ReservedKept DEF IInv
<1>18. ASSUME NEW l \in Links
       PROVE  /\ DailyTotal(l)' = DailyTotal(l) + OwnSum(B, l)
              /\ DailyTotal(l) \in Nat /\ OwnSum(B, l) \in Nat
  <2>1. PICK a, b, c : /\ a = [d \in Days |-> daily[<<l, d>>].clicks]
                       /\ b = [d \in Days |-> HowMany(B, <<l, d>>, "click")]
                       /\ c = [d \in Days |-> daily'[<<l, d>>].clicks]
    OBVIOUS
  <2>2. \A d \in Days : <<l, d>> \in Keys
    BY DEF Keys
  <2>3. a \in [Days -> Nat] /\ b \in [Days -> Nat] /\ c \in [Days -> Nat]
    BY <1>8, <1>13, <2>1, <2>2 DEF IInv, ClickTypeOK
  <2>4. \A d \in Days : c[d] = a[d] + b[d]
    BY <1>7, <2>1, <2>2
  <2>5. SumFunction(c) = SumFunction(a) + SumFunction(b)
    BY <2>3, <2>4, Finite, SumAdds
  <2>6. DailyTotal(l) = SumFunction(a) /\ OwnSum(B, l) = SumFunction(b)
        /\ DailyTotal(l)' = SumFunction(c)
    BY <2>1 DEF DailyTotal, OwnSum, Days
  <2> QED BY <1>3, <2>5, <2>6, TotalsNat, OwnSumNat DEF IInv
<1>19. \A l \in Links : DailyTotal(l) <= DailyTotal(l)'
  <2> SUFFICES ASSUME NEW l \in Links PROVE DailyTotal(l) <= DailyTotal(l)'
    OBVIOUS
  <2>1. PICK x, y, z : x = DailyTotal(l) /\ y = OwnSum(B, l) /\ z = DailyTotal(l)'
    OBVIOUS
  <2>2. x \in Nat /\ y \in Nat /\ z = x + y
    BY <1>18, <2>1
  <2> QED BY <2>1, <2>2
<1>20. ASSUME NEW v \in Rollups PROVE TxInv(tx[v])'
  <2>1. PICK t : t = tx'[v]
    OBVIOUS
  <2>2. TxInv(t) /\ t.batch \subseteq Pending' /\
        (Writing(t) => \A k \in Touched(t.batch) : sketch'[k] = sketch[k])
    <3>1. CASE v = w
      <4>1. t = NoTx
        BY <1>14, <2>1, <3>1
      <4> QED BY <4>1, NoTxInv DEF NoTx, Writing
    <3>2. CASE v # w
      <4>1. t = tx[v]
        BY <1>14, <2>1, <3>2
      <4>2. TxInv(t) /\ PairInv(t, tx[w]) /\ Writing(tx[w])
        BY <3>2, <4>1 DEF IInv, RollInv, Writing
      <4>3. t.batch \subseteq Pending /\ t.batch \cap B = {}
        BY <1>1, <4>2 DEF TxInv, PairInv
      <4>4. ASSUME Writing(t), NEW k \in Touched(t.batch) PROVE sketch'[k] = sketch[k]
        <5>1. k \notin Touched(B)
          BY <1>1, <4>2, <4>4 DEF PairInv
        <5>2. k \in Keys
          <6>1. \A r \in t.batch : KeyOf(r) \in Keys
            BY <4>3, KeysOfRows DEF Pending
          <6> QED BY <4>4, <6>1 DEF Touched
        <5>3. VisitorsIn(B, k) = {}
          BY <5>1 DEF Touched, VisitorsIn
        <5> QED BY <1>11, <5>2, <5>3
      <4> QED BY <1>5, <4>2, <4>3, <4>4
    <3> QED BY <3>1, <3>2
  <2>3. \A k \in Touched(t.batch) : k[1] \in Links
    BY <2>2, TouchedLinks DEF Pending
  <2>4. TxInv(t)'
    BY <1>6, <1>13, <1>19, <2>2, <2>3, TxKept DEF IInv
  <2> QED BY <2>1, <2>4
<1>21. ASSUME NEW v \in Rollups, NEW x \in Rollups, v # x PROVE PairInv(tx[v], tx[x])'
  <2>1. PICK a, b : a = tx'[v] /\ b = tx'[x]
    OBVIOUS
  <2>2. PairInv(a, b)
    <3>1. CASE v = w \/ x = w
      BY <1>14, <2>1, <3>1, NoTxInv
    <3>2. CASE v # w /\ x # w
      BY <1>14, <1>21, <2>1, <3>2 DEF IInv, RollInv
    <3> QED BY <3>1, <3>2
  <2>3. PairInv(a, b)'
    BY <1>6, <2>2, PairKept
  <2> QED BY <2>1, <2>3
<1>22. PICK U : U = R \cup B
  OBVIOUS
<1>23. \A k \in Keys : /\ daily[k].clicks = HowMany(R, k, "click")
                       /\ daily[k].blocked = HowMany(R, k, "blocked")
                       /\ sketch[k] = VisitorsIn(R, k)
  BY <1>2 DEF IInv, RollInv, CountedOnce, SketchesKeepVisitors
<1>24. /\ \A k : VisitorsIn(U, k)' = VisitorsIn(U, k)
       /\ \A k, which : HowMany(U, k, which)' = HowMany(U, k, which)
  BY <1>6, SetsKept
<1>25. CountedOnce'
  <2>1. \A k, which : HowMany(U, k, which) = HowMany(R, k, which) + HowMany(B, k, which)
    BY <1>3, <1>22, HowManyUnion
  <2>2. \A k \in Keys : /\ daily'[k].clicks = HowMany(U, k, "click")'
                        /\ daily'[k].blocked = HowMany(U, k, "blocked")'
    BY <1>7, <1>23, <1>24, <2>1
  <2>3. U = Rolled'
    BY <1>5, <1>22
  <2> QED BY <2>2, <2>3 DEF CountedOnce
<1>26. SketchesKeepVisitors'
  <2>1. \A k : VisitorsIn(U, k) = VisitorsIn(R, k) \cup VisitorsIn(B, k)
    BY <1>22 DEF VisitorsIn
  <2>2. \A k \in Keys : sketch'[k] = VisitorsIn(U, k)'
    BY <1>11, <1>23, <1>24, <2>1
  <2>3. U = Rolled'
    BY <1>5, <1>22
  <2> QED BY <2>2, <2>3 DEF SketchesKeepVisitors
<1>27. CounterNeverAhead'
  <2> SUFFICES ASSUME NEW l \in Links PROVE counters'[l] <= DailyTotal(l)'
    BY DEF CounterNeverAhead
  <2>1. PICK x, y, z : x = DailyTotal(l) /\ y = OwnSum(B, l) /\ z = DailyTotal(l)'
    OBVIOUS
  <2>2. x \in Nat /\ y \in Nat /\ z = x + y
    BY <1>18, <2>1
  <2>3. counters[l] <= x /\ counters[l] \in Nat
    BY <2>1 DEF IInv, RollInv, CounterNeverAhead, ClickTypeOK
  <2>4. l \in DOMAIN s => s[l] \in Nat /\ s[l] <= x + y
    BY <1>9, <2>1
  <2>5. counters'[l] <= z
    BY <1>12, <2>2, <2>3, <2>4
  <2> QED BY <2>1, <2>5
<1>28. RollInv'
  BY <1>20, <1>21, <1>25, <1>26, <1>27 DEF RollInv
<1> QED BY <1>13, <1>15, <1>16, <1>17, <1>28 DEF IInv

-----------------------------------------------------------------------------
(* The theorems.                                                            *)

\* Every step keeps the invariant.
LEMMA NextIInv == IInv /\ [ClickNext]_clickVars => IInv'
<1> SUFFICES ASSUME IInv, [ClickNext]_clickVars PROVE IInv'
  OBVIOUS
<1>1. ASSUME NEW c \in Clicks, Serve(c) PROVE IInv'
  BY <1>1, GateOtherKeeps, ReserveKeeps, GateByCountKeeps, RecordKeeps DEF Serve
<1>2. ASSUME NEW c \in Clicks, Forget(c) \/ Deliver(c) PROVE IInv'
  BY <1>2, MoveKeeps
<1>3. ASSUME NEW c \in Clicks, Store(c) PROVE IInv'
  BY <1>3, StoreKeeps
<1>4. ASSUME NEW w \in Rollups, Roll(w) PROVE IInv'
  BY <1>4, ClaimKeeps, AddDailyKeeps, SumCountersKeeps, WriteCountersKeeps, CommitKeeps DEF Roll
<1>5. ASSUME NEW w \in Rollups, Abort(w) PROVE IInv'
  BY <1>5, AbortKeeps
<1>6. ASSUME Midnight PROVE IInv'
  BY <1>6, MidnightKeeps
<1>7. ASSUME UNCHANGED clickVars PROVE IInv'
  <2> USE <1>7 DEF clickVars, rollVars
  <2>1. ClickTypeOK' /\ RowsKept
    BY DEF IInv, ClickTypeOK, RowsKept
  <2>2. RollInv' /\ TxShape'
    BY <2>1, RollKept
  <2>3. \A d \in Clicks : PathInv(d)'
    BY PathKept DEF PathSame, IInv
  <2>4. ReservedInv'
    BY ReservedKept DEF IInv
  <2> QED BY <2>1, <2>2, <2>3, <2>4 DEF IInv
<1> QED BY <1>1, <1>2, <1>3, <1>4, <1>5, <1>6, <1>7 DEF ClickNext

\* The gate, the queue, the tables and the transactions stay consistent, for any
\* clicks, links, limits and rollups.
THEOREM InductiveInvariant == ClickSpec => []IInv
BY InitIInv, NextIInv, PTL DEF ClickSpec

\* Every variable keeps its type; no click is dated after today (rollup.ts counts
\* by the day of occurred_at).
THEOREM TypesAlways == ClickSpec => []ClickTypeOK
<1>1. IInv => ClickTypeOK
  BY DEF IInv
<1> QED BY <1>1, InductiveInvariant, PTL

\* rollup.ts:32 whatever rollups overlap, fail or run again, click_daily holds
\* exactly the rows that are marked as rolled up.
THEOREM CountedOnceAlways == ClickSpec => []CountedOnce
<1>1. IInv => CountedOnce
  BY DEF IInv, RollInv
<1> QED BY <1>1, InductiveInvariant, PTL

\* rollup.ts:142 no overlap of rollups loses a visitor from a stored sketch.
THEOREM SketchesKeepVisitorsAlways == ClickSpec => []SketchesKeepVisitors
<1>1. IInv => SketchesKeepVisitors
  BY DEF IInv, RollInv
<1> QED BY <1>1, InductiveInvariant, PTL

\* rollup.ts:210 the counter that the gate reads never exceeds what click_daily sums to.
THEOREM CounterNeverAheadAlways == ClickSpec => []CounterNeverAhead
<1>1. IInv => CounterNeverAhead
  BY DEF IInv, RollInv
<1> QED BY <1>1, InductiveInvariant, PTL

\* lambda.ts:113 a message leaves the queue only with its row written, or dead.
THEOREM DeliveredOrDeadAlways == ClickSpec => []DeliveredOrDead
<1>1. IInv => DeliveredOrDead
  BY DEF IInv, PathInv, DeliveredOrDead
<1> QED BY <1>1, InductiveInvariant, PTL

\* The total of a link is the number of its rows that are rolled up as clicks.
LEMMA TotalCounts ==
    ASSUME IInv, NEW l \in Links
    PROVE  DailyTotal(l) = Cardinality({r \in Rolled : LinkOf[r[1]] = l /\ kind[r[1]] = "click"})
<1>1. PICK C : C = {r \in Rolled : LinkOf[r[1]] = l /\ kind[r[1]] = "click"}
  OBVIOUS
<1>2. C \subseteq Rows /\ \A r \in C : row[r] # "absent"
  BY <1>1 DEF Rolled
<1>3. PICK p : p = [r \in C |-> day[r[1]]]
  OBVIOUS
<1>4. p \in [C -> Days]
  BY <1>2, <1>3, KeysOfRows
<1>5. PICK f : f = [d \in Days |-> daily[<<l, d>>].clicks]
  OBVIOUS
<1>6. ASSUME NEW d \in Days PROVE f[d] = Cardinality({r \in C : p[r] = d})
  <2>1. <<l, d>> \in Keys
    BY DEF Keys
  <2>2. f[d] = HowMany(Rolled, <<l, d>>, "click")
    BY <1>5, <2>1 DEF IInv, RollInv, CountedOnce
  <2>3. {r \in Rolled : KeyOf(r) = <<l, d>> /\ kind[r[1]] = "click"} = {r \in C : p[r] = d}
    BY <1>1, <1>3 DEF KeyOf
  <2> QED BY <2>2, <2>3 DEF HowMany
<1>7. f = [d \in Days |-> Cardinality({r \in C : p[r] = d})]
  BY <1>5, <1>6
<1>8. SumFunction(f) = Cardinality(C)
  BY <1>2, <1>4, <1>7, Finite, SumCounts
<1> QED BY <1>1, <1>5, <1>8 DEF DailyTotal

\* click-reservation.ts:55 a hard cap: however many requests ask at the same time,
\* a link whose clicks are reserved never counts more of them than its limit.  Each
\* click of the total has been let through, and without a queue each has one row.
THEOREM HardCapAlways == ClickSpec => []HardCap
<1>1. ASSUME IInv PROVE HardCap
  <2> SUFFICES ASSUME NEW l \in Links, profile = "postgres", Limit[l] # NoLimit
               PROVE  DailyTotal(l) <= Limit[l]
    BY DEF HardCap
  <2>1. PICK C, S : /\ C = {r \in Rolled : LinkOf[r[1]] = l /\ kind[r[1]] = "click"}
                    /\ S = LetThrough(l)
    OBVIOUS
  <2>2. S \subseteq Clicks /\ IsFiniteSet(S) /\ Cardinality(S) \in Nat
    BY <2>1, FS_Subset, FS_CardinalityType, ClickRollupAssumption DEF LetThrough
  <2>3. ASSUME NEW r \in C PROVE r[1] \in S /\ r = <<r[1], 1>>
    <3>1. PICK c \in Clicks, k \in 1 .. MaxReceive : r = <<c, k>>
      BY <2>1, <2>3 DEF Rolled, Rows
    <3>2. row[<<c, k>>] # "absent"
      BY <2>1, <2>3, <3>1 DEF Rolled
    <3>3. PathInv(c) /\ receives[c] \in Nat
      BY <1>1 DEF IInv, ClickTypeOK
    <3>4. k <= receives[c] /\ receives[c] <= 1 /\ stage[c] \notin {"none", "gated"}
      BY <3>2, <3>3 DEF PathInv
    <3>5. k = 1
      BY <3>3, <3>4
    <3> QED BY <2>1, <2>3, <3>1, <3>4, <3>5 DEF LetThrough
  <2>4. PICK f : f = [r \in C |-> r[1]]
    OBVIOUS
  <2>5. f \in Injection(C, S)
    <3>1. f \in [C -> S]
      BY <2>3, <2>4
    <3>2. \A q, r \in C : f[q] = f[r] => q = r
      BY <2>3, <2>4
    <3> QED BY <3>1, <3>2 DEF Injection, IsInjective
  <2>6. Cardinality(C) <= Cardinality(S)
    BY <2>2, <2>5, FS_Injection DEF ExistsInjection
  <2>7. DailyTotal(l) = Cardinality(C)
    BY <1>1, <2>1, TotalCounts
  <2>8. Cardinality(S) <= reserved[l] /\ reserved[l] <= Limit[l] /\ reserved[l] \in Nat
    BY <1>1, <2>1 DEF IInv, ReservedInv, ClickTypeOK
  <2>9. Limit[l] \in Nat /\ Cardinality(C) \in Nat
    <3>1. C \subseteq Rows
      BY <2>1 DEF Rolled
    <3> QED BY <3>1, Finite, ClickRollupAssumption
  <2> QED BY <2>2, <2>6, <2>7, <2>8, <2>9
<1> QED BY <1>1, InductiveInvariant, PTL

-----------------------------------------------------------------------------
(* Refinement of the ledger.                                                *)

\* A step that keeps the rows, and the day and the kind of each, and the totals.
LEMMA EntriesKept ==
    ASSUME IInv, row' = row, daily' = daily,
           \A r \in Rows : row[r] # "absent"
                              => day'[r[1]] = day[r[1]] /\ kind'[r[1]] = kind[r[1]]
    PROVE  UNCHANGED <<Entry, daily>>
<1>1. ASSUME NEW r \in Rows PROVE EntryOf(r)' = EntryOf(r)
  <2>1. CASE row[r] = "absent"
    BY <2>1 DEF EntryOf
  <2>2. CASE row[r] # "absent"
    BY <2>2 DEF EntryOf, KeyOf
  <2> QED BY <2>1, <2>2
<1> QED BY <1>1 DEF Entry

\* The insert of a row records it, with the day and the kind its click has.
LEMMA StoreRecords ==
    ASSUME IInv, NEW c \in Clicks, Store(c)
    PROVE  Ledger!Next
<1>1. PICK r : r = <<c, receives[c]>>
  OBVIOUS
<1>2. r \in Rows /\ row[r] = "absent" /\ r[1] = c
  BY <1>1 DEF Store, IInv, PathInv, ClickTypeOK, Rows
<1>3. row' = [row EXCEPT ![r] = "pending"]
  BY <1>1 DEF Store
<1>4. row \in [Rows -> {"absent", "pending", "counted", "removed"}]
  BY DEF IInv, ClickTypeOK
<1>5. Entry'[r] = [state |-> "pending", key |-> KeyOf(r), kind |-> kind[c]]
  BY <1>2, <1>3, <1>4 DEF Entry, EntryOf, KeyOf, Store
<1>6. KeyOf(r) \in Keys /\ kind[c] \in Ledger!Kinds
  <2>1. day[c] \in Days
    BY DEF Store, IInv, PathInv
  <2> QED BY <1>2, <2>1, ClickRollupAssumption DEF KeyOf, Keys, Ledger!Kinds, IInv, ClickTypeOK
<1>7. Entry' = [Entry EXCEPT ![r] = Entry'[r]]
  <2>1. ASSUME NEW q \in Rows, q # r PROVE EntryOf(q)' = EntryOf(q)
    BY <1>2, <1>3, <1>4, <2>1 DEF EntryOf, KeyOf, Store
  <2>2. Entry' = [q \in Rows |-> Entry'[q]] /\ \A q \in Rows : Entry'[q] = EntryOf(q)'
    BY DEF Entry
  <2> QED BY <1>2, <2>1, <2>2 DEF Entry
<1>8. Ledger!Record(r)
  <2>1. Entry'[r] \in [state : {"pending"}, key : Keys, kind : Ledger!Kinds]
    BY <1>5, <1>6
  <2>2. UNCHANGED daily
    BY DEF Store, rollVars
  <2> QED BY <1>7, <2>1, <2>2 DEF Ledger!Record
<1>9. r \in Ledger!In("absent")
  BY <1>2 DEF Ledger!In, Entry, EntryOf
<1> QED BY <1>8, <1>9 DEF Ledger!Next

\* A commit counts its batch: each row of it, once, with its mark.
LEMMA CommitCounts ==
    ASSUME IInv, NEW w \in Rollups, Commit(w)
    PROVE  Ledger!Next
<1>1. PICK B : B = tx[w].batch
  OBVIOUS
<1>2. B \subseteq Rows /\ \A r \in B : row[r] = "pending"
  <2>1. TxInv(tx[w])
    BY DEF IInv, RollInv
  <2> QED BY <1>1, <2>1 DEF TxInv, Pending
<1>3. row' = [r \in Rows |-> IF r \in B THEN "counted" ELSE row[r]]
      /\ day' = day /\ kind' = kind
  BY <1>1 DEF Commit, InBatch, pathVars
<1>4. B \in SUBSET Ledger!In("pending")
  BY <1>2 DEF Ledger!In, Entry, EntryOf
<1>5. Entry' = Ledger!Moved(B, "counted")
  BY <1>2, <1>3 DEF Entry, EntryOf, KeyOf, Ledger!Moved
<1>6. ASSUME NEW k, NEW which PROVE Ledger!HowMany(B, k, which) = HowMany(B, k, which)
  <2>1. {r \in B : Entry[r].key = k /\ Entry[r].kind = which}
            = {r \in B : KeyOf(r) = k /\ kind[r[1]] = which}
    BY <1>2 DEF Entry, EntryOf
  <2>2. Ledger!HowMany(B, k, which) = Cardinality({r \in B : Entry[r].key = k /\ Entry[r].kind = which})
    BY DEF Ledger!HowMany, Ledger!Cardinality, Cardinality
  <2> QED BY <2>1, <2>2 DEF HowMany
<1>7. daily' = [k \in Keys |->
          [clicks |-> daily[k].clicks + Ledger!HowMany(B, k, "click"),
           blocked |-> daily[k].blocked + Ledger!HowMany(B, k, "blocked")]]
  BY <1>1, <1>6 DEF Commit, Added
<1>8. Ledger!Count(B)
  BY <1>5, <1>7 DEF Ledger!Count
<1> QED BY <1>4, <1>8 DEF Ledger!Next

\* Every step is a step of the ledger, or none.
LEMMA NextLedger == IInv /\ [ClickNext]_clickVars => [Ledger!Next]_<<Entry, daily>>
<1> SUFFICES ASSUME IInv, [ClickNext]_clickVars PROVE [Ledger!Next]_<<Entry, daily>>
  OBVIOUS
<1>1. \A r \in Rows : row[r] # "absent" => r[1] \in Clicks /\ stage[r[1]] \notin {"none", "gated"}
  <2> SUFFICES ASSUME NEW r \in Rows, row[r] # "absent"
               PROVE  r[1] \in Clicks /\ stage[r[1]] \notin {"none", "gated"}
    OBVIOUS
  <2>1. PICK c \in Clicks, k \in 1 .. MaxReceive : r = <<c, k>>
    BY DEF Rows
  <2> QED BY <2>1 DEF IInv, PathInv
<1>2. ASSUME NEW c \in Clicks, Serve(c) PROVE UNCHANGED <<Entry, daily>>
  <2>1. \A d \in Clicks : d # c => day'[d] = day[d] /\ kind'[d] = kind[d]
    BY <1>2 DEF Serve, GateOther, Reserve, GateByCount, Verdict, Record, IInv, ClickTypeOK
  <2>2. stage[c] \in {"none", "gated"} /\ row' = row /\ daily' = daily
    BY <1>2 DEF Serve, GateOther, Reserve, GateByCount, Verdict, Record, rollVars
  <2> QED BY <1>1, <2>1, <2>2, EntriesKept
<1>3. ASSUME NEW c \in Clicks, Forget(c) \/ Deliver(c) PROVE UNCHANGED <<Entry, daily>>
  BY <1>3, EntriesKept DEF Forget, Deliver, Receive, Acknowledge, Redrive, rollVars
<1>4. ASSUME NEW c \in Clicks, Store(c) PROVE Ledger!Next
  BY <1>4, StoreRecords
<1>5. ASSUME NEW w \in Rollups, NEW t, Advance(w, t) PROVE UNCHANGED <<Entry, daily>>
  BY <1>5, EntriesKept DEF Advance, pathVars
<1>6. ASSUME NEW w \in Rollups, Roll(w) \/ Abort(w)
      PROVE  Ledger!Next \/ UNCHANGED <<Entry, daily>>
  BY <1>5, <1>6, CommitCounts DEF Roll, Abort, Claim, AddDaily, SumCounters, WriteCounters
<1>7. ASSUME Midnight \/ UNCHANGED clickVars PROVE UNCHANGED <<Entry, daily>>
  BY <1>7, EntriesKept DEF Midnight, rollVars, clickVars
<1> QED BY <1>2, <1>3, <1>4, <1>6, <1>7 DEF ClickNext

\* rollup.ts:15 for any clicks, links and rollups, the gate, the queue and the
\* transactions implement the ledger of what is recorded and counted once.
THEOREM ImplementsLedger == ClickSpec => LedgerSpec
<1>1. ClickInit => Ledger!Init
  BY DEF ClickInit, Ledger!Init, Entry, EntryOf
<1>2. IInv /\ [ClickNext]_clickVars => [Ledger!Next]_<<Entry, daily>>
  BY NextLedger
<1> QED BY <1>1, <1>2, InductiveInvariant, PTL DEF ClickSpec, LedgerSpec, Ledger!Spec
=============================================================================
