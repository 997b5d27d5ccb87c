-------------------------------- MODULE SumProofs ------------------------------
(***************************************************************************)
(* What the sums of the community module Functions compute, for every      *)
(* finite set: SumFunctionOnSet is a fold over an element chosen at each   *)
(* step, so its value is shown not to depend on the choice.  Induction is  *)
(* over the subsets of a finite set, ordered by inclusion: a minimal set   *)
(* that violates the claim is examined (LeastSet).                         *)
(***************************************************************************)
EXTENDS Integers, Sequences, Functions, FiniteSets, FiniteSetTheorems,
  SequenceTheorems, TLAPS

\* it is the function by which the fold is computed on the subsets of S.
Pick(s) == CHOOSE x \in s : TRUE
Step(g, it, s) == IF s = {} THEN 0 ELSE g[Pick(s)] + it[s \ {Pick(s)}]
Computes(it, g, S) == it = [s \in SUBSET S |-> Step(g, it, s)]

\* A nonempty set of subsets of a finite set has a minimal member.
LEMMA LeastSet ==
  ASSUME NEW S, IsFiniteSet(S), NEW T \in SUBSET (SUBSET S), T # {}
  PROVE  \E t \in T : \A u \in SUBSET t : u # t => u \notin T
<1>1. IsWellFoundedOn(StrictSubsetOrdering(S), SUBSET S) BY FS_StrictSubsetOrderingWellFounded, FS_FiniteSubsetsOfFinite
<1>2. PICK t \in T : \A u \in T : ~(<<u, t>> \in StrictSubsetOrdering(S)) BY <1>1, WFMin
<1>3. \A u \in SUBSET t : u # t => u \notin T BY <1>2 DEF StrictSubsetOrdering
<1>. QED BY <1>3

\* SumFunctionOnSet is the value of that function.
LEMMA FoldUnfolds ==
  ASSUME NEW g, NEW S
  PROVE  SumFunctionOnSet(g, S) = (CHOOSE it : Computes(it, g, S))[S]
BY DEF SumFunctionOnSet, FoldFunctionOnSet, MapThenFoldSet, Computes, Step, Pick

\* What the two sides of Computes mean, subset by subset.
LEMMA ComputesMeans ==
  ASSUME NEW g, NEW S, NEW it
  PROVE  Computes(it, g, S) <=>
           it = [s \in SUBSET S |-> it[s]] /\ \A s \in SUBSET S : it[s] = Step(g, it, s)
<1>1. ASSUME Computes(it, g, S)
      PROVE  it = [s \in SUBSET S |-> it[s]] /\ \A s \in SUBSET S : it[s] = Step(g, it, s)
  <2>1. it = [s \in SUBSET S |-> Step(g, it, s)] BY <1>1 DEF Computes
  <2>. QED BY <2>1
<1>2. ASSUME it = [s \in SUBSET S |-> it[s]], \A s \in SUBSET S : it[s] = Step(g, it, s)
      PROVE  Computes(it, g, S) BY <1>2 DEF Computes
<1>. QED BY <1>1, <1>2

\* Two computations agree on the sets both know.
LEMMA ComputesUnique ==
  ASSUME NEW g, NEW S, IsFiniteSet(S), NEW U \in SUBSET S, NEW it, NEW iu,
         Computes(it, g, S), Computes(iu, g, U)
  PROVE  it[U] = iu[U]
<1>. DEFINE T == {s \in SUBSET U : it[s] # iu[s]}
<1>1. IsFiniteSet(U) BY FS_Subset
<1>2. \A s \in SUBSET U : it[s] = Step(g, it, s) /\ iu[s] = Step(g, iu, s) BY ComputesMeans
<1>3. T = {}
  <2>. SUFFICES ASSUME T # {} PROVE FALSE OBVIOUS
  <2>0. T \in SUBSET SUBSET U /\ T # {} OBVIOUS
  <2>1. PICK t \in T : \A u \in SUBSET t : u # t => u \notin T
    <3>. HIDE DEF T
    <3>. QED BY <1>1, <2>0, LeastSet
  <2>2. t # {} BY <1>2 DEF Step
  <2>3. Pick(t) \in t BY <2>2 DEF Pick
  <2>4. it[t \ {Pick(t)}] = iu[t \ {Pick(t)}] BY <2>1, <2>3
  <2>. QED BY <1>2, <2>2, <2>4 DEF Step
<1>. QED BY <1>3

\* A finite set can be folded.
LEMMA ComputesExists ==
  ASSUME NEW g, NEW S, IsFiniteSet(S)
  PROVE  \E it : Computes(it, g, S)
<1>. DEFINE T == {t \in SUBSET S : ~\E it : Computes(it, g, t)}
            Val(u) == (CHOOSE it : Computes(it, g, u))[u]
<1>1. ASSUME T # {} PROVE FALSE
  <2>0. T \in SUBSET SUBSET S /\ T # {} BY <1>1
  <2>1. PICK t \in T : \A u \in SUBSET t : u # t => u \notin T
    <3>. HIDE DEF T
    <3>. QED BY <2>0, LeastSet
  <2>. DEFINE it == [s \in SUBSET t |-> IF s = {} THEN 0 ELSE g[Pick(s)] + Val(s \ {Pick(s)})]
  <2>2. \A u \in SUBSET t : u # t => Computes(CHOOSE iu : Computes(iu, g, u), g, u) BY <2>1
  <2>3. \A u \in SUBSET t : u # t => it[u] = Val(u)
    <3>. SUFFICES ASSUME NEW u \in SUBSET t, u # t PROVE it[u] = Val(u) OBVIOUS
    <3>1. PICK iu : iu = (CHOOSE i : Computes(i, g, u)) OBVIOUS
    <3>2. Computes(iu, g, u) /\ Val(u) = iu[u] BY <2>2, <3>1
    <3>3. iu[u] = Step(g, iu, u) BY <3>2, ComputesMeans
    <3>4. CASE u = {} BY <3>2, <3>3, <3>4 DEF Step
    <3>5. CASE u # {}
      <4>1. PICK v : v = u \ {Pick(u)} OBVIOUS
      <4>2. v \in SUBSET u /\ v # u /\ v # t BY <3>5, <4>1 DEF Pick
      <4>3. PICK iv : iv = (CHOOSE i : Computes(i, g, v)) OBVIOUS
      <4>4. Computes(iv, g, v) BY <2>2, <4>2, <4>3
      <4>5. IsFiniteSet(u) BY FS_Subset
      <4>6. iu[v] = iv[v] BY <3>2, <4>2, <4>4, <4>5, ComputesUnique
      <4>7. it[u] = g[Pick(u)] + Val(v) BY <3>5, <4>1
      <4>8. iu[u] = g[Pick(u)] + iu[v] BY <3>3, <3>5, <4>1 DEF Step
      <4>. QED BY <3>2, <4>3, <4>6, <4>7, <4>8
    <3>. QED BY <3>4, <3>5
  <2>4. \A s \in SUBSET t : it[s] = Step(g, it, s)
    <3>. SUFFICES ASSUME NEW s \in SUBSET t PROVE it[s] = Step(g, it, s) OBVIOUS
    <3>1. CASE s = {} BY <3>1 DEF Step
    <3>2. CASE s # {}
      <4>1. s \ {Pick(s)} \in SUBSET t /\ s \ {Pick(s)} # t BY <3>2 DEF Pick
      <4>2. it[s \ {Pick(s)}] = Val(s \ {Pick(s)}) BY <2>3, <4>1
      <4>. QED BY <3>2, <4>2 DEF Step
    <3>. QED BY <3>1, <3>2
  <2>5. it = [s \in SUBSET t |-> it[s]] OBVIOUS
  <2>. HIDE DEF it
  <2>6. Computes(it, g, t) BY <2>4, <2>5, ComputesMeans
  <2>. QED BY <2>6
<1>. QED BY <1>1

\* A sum, one element at a time.
LEMMA TotalStep ==
  ASSUME NEW g, NEW S, IsFiniteSet(S)
  PROVE  /\ S = {} => SumFunctionOnSet(g, S) = 0
         /\ S # {} => SumFunctionOnSet(g, S) = g[Pick(S)] + SumFunctionOnSet(g, S \ {Pick(S)})
<1>1. PICK it : it = CHOOSE i : Computes(i, g, S) OBVIOUS
<1>2. Computes(it, g, S) /\ SumFunctionOnSet(g, S) = it[S] BY <1>1, ComputesExists, FoldUnfolds
<1>3. it[S] = Step(g, it, S) BY <1>2, ComputesMeans
<1>4. PICK U : U = S \ {Pick(S)} OBVIOUS
<1>5. IsFiniteSet(U) /\ U \in SUBSET S BY <1>4, FS_Subset
<1>6. PICK iu : iu = CHOOSE i : Computes(i, g, U) OBVIOUS
<1>7. Computes(iu, g, U) /\ SumFunctionOnSet(g, U) = iu[U] BY <1>5, <1>6, ComputesExists, FoldUnfolds
<1>8. it[U] = iu[U] BY <1>2, <1>5, <1>7, ComputesUnique
<1>. QED BY <1>2, <1>3, <1>4, <1>7, <1>8 DEF Step

\* A sum of integers is an integer, of naturals a natural.
LEMMA TotalType ==
  ASSUME NEW S, IsFiniteSet(S), NEW g, \A s \in S : g[s] \in Int
  PROVE  SumFunctionOnSet(g, S) \in Int /\ ((\A s \in S : g[s] \in Nat) => SumFunctionOnSet(g, S) \in Nat)
<1>. DEFINE T == {t \in SUBSET S : ~(SumFunctionOnSet(g, t) \in Int /\ ((\A s \in S : g[s] \in Nat) => SumFunctionOnSet(g, t) \in Nat))}
<1>1. ASSUME T # {} PROVE FALSE
  <2>0. T \in SUBSET SUBSET S /\ T # {} BY <1>1
  <2>1. PICK t \in T : \A u \in SUBSET t : u # t => u \notin T
    <3>. HIDE DEF T
    <3>. QED BY <2>0, LeastSet
  <2>2. IsFiniteSet(t) BY FS_Subset
  <2>3. t # {}
    <3>. SUFFICES ASSUME t = {} PROVE FALSE OBVIOUS
    <3>1. SumFunctionOnSet(g, t) = 0 BY <2>2, TotalStep
    <3>. QED BY <3>1
  <2>4. PICK x, u : x = Pick(t) /\ u = t \ {x} OBVIOUS
  <2>5. x \in S /\ u \in SUBSET t /\ u # t BY <2>3, <2>4 DEF Pick
  <2>6. SumFunctionOnSet(g, t) = g[x] + SumFunctionOnSet(g, u) BY <2>2, <2>3, <2>4, TotalStep
  <2>7. SumFunctionOnSet(g, u) \in Int /\ ((\A s \in S : g[s] \in Nat) => SumFunctionOnSet(g, u) \in Nat) BY <2>1, <2>5
  <2>. QED BY <2>5, <2>6, <2>7
<1>. QED BY <1>1

\* A sum depends on the values summed only.
LEMMA TotalSame ==
  ASSUME NEW S, IsFiniteSet(S), NEW g, NEW h, \A s \in S : g[s] = h[s]
  PROVE  SumFunctionOnSet(g, S) = SumFunctionOnSet(h, S)
<1>. DEFINE T == {t \in SUBSET S : SumFunctionOnSet(g, t) # SumFunctionOnSet(h, t)}
<1>1. ASSUME T # {} PROVE FALSE
  <2>0. T \in SUBSET SUBSET S /\ T # {} BY <1>1
  <2>1. PICK t \in T : \A u \in SUBSET t : u # t => u \notin T
    <3>. HIDE DEF T
    <3>. QED BY <2>0, LeastSet
  <2>2. IsFiniteSet(t) BY FS_Subset
  <2>3. t # {} BY <2>2, TotalStep
  <2>4. PICK x, u : x = Pick(t) /\ u = t \ {x} OBVIOUS
  <2>5. x \in S /\ u \in SUBSET t /\ u # t BY <2>3, <2>4 DEF Pick
  <2>6. SumFunctionOnSet(g, t) = g[x] + SumFunctionOnSet(g, u) /\ SumFunctionOnSet(h, t) = h[x] + SumFunctionOnSet(h, u)
    BY <2>2, <2>3, <2>4, TotalStep
  <2>7. SumFunctionOnSet(g, u) = SumFunctionOnSet(h, u) BY <2>1, <2>5
  <2>. QED BY <2>5, <2>6, <2>7
<1>. QED BY <1>1

\* The order of a sum does not matter: any element can be taken out.
LEMMA TotalRemove ==
  ASSUME NEW S, IsFiniteSet(S), NEW g, \A s \in S : g[s] \in Int, NEW y \in S
  PROVE  SumFunctionOnSet(g, S) = g[y] + SumFunctionOnSet(g, S \ {y})
<1>. DEFINE T == {t \in SUBSET S : \E z \in t : SumFunctionOnSet(g, t) # g[z] + SumFunctionOnSet(g, t \ {z})}
<1>1. ASSUME T # {} PROVE FALSE
  <2>0. T \in SUBSET SUBSET S /\ T # {} BY <1>1
  <2>1. PICK t \in T : \A u \in SUBSET t : u # t => u \notin T
    <3>. HIDE DEF T
    <3>. QED BY <2>0, LeastSet
  <2>2. PICK z \in t : SumFunctionOnSet(g, t) # g[z] + SumFunctionOnSet(g, t \ {z}) OBVIOUS
  <2>3. IsFiniteSet(t) /\ t # {} /\ t \in SUBSET S BY FS_Subset
  <2>4. PICK x, u, v, w : x = Pick(t) /\ u = t \ {x} /\ v = t \ {z} /\ w = u \ {z} OBVIOUS
  <2>5. x \in t /\ u \in SUBSET t /\ u # t /\ v \in SUBSET t /\ v # t /\ w \in SUBSET t /\ w = v \ {x}
    BY <2>3, <2>4 DEF Pick
  <2>6. SumFunctionOnSet(g, t) = g[x] + SumFunctionOnSet(g, u) BY <2>3, <2>4, TotalStep
  <2>7. x # z BY <2>2, <2>4, <2>6
  <2>8. SumFunctionOnSet(g, u) = g[z] + SumFunctionOnSet(g, w)
    <3>1. z \in u /\ u \notin T BY <2>1, <2>4, <2>5, <2>7
    <3>. QED BY <2>3, <2>4, <2>5, <3>1
  <2>9. SumFunctionOnSet(g, v) = g[x] + SumFunctionOnSet(g, w)
    <3>1. x \in v /\ v \notin T BY <2>1, <2>4, <2>5, <2>7
    <3>. QED BY <2>3, <2>4, <2>5, <3>1
  <2>10. SumFunctionOnSet(g, w) \in Int /\ g[x] \in Int /\ g[z] \in Int
    <3>1. IsFiniteSet(w) /\ w \in SUBSET S BY <2>3, <2>5, FS_Subset
    <3>. QED BY <2>3, <2>5, <3>1, TotalType
  <2>11. SumFunctionOnSet(g, t) = g[z] + SumFunctionOnSet(g, v) BY <2>6, <2>8, <2>9, <2>10
  <2>. QED BY <2>2, <2>4, <2>11
<1>2. S \notin T BY <1>1
<1>. QED BY <1>2

\* One of the values changes.
LEMMA TotalUpdate ==
  ASSUME NEW S, IsFiniteSet(S), NEW g, NEW h, \A s \in S : g[s] \in Int /\ h[s] \in Int,
         NEW y \in S, \A s \in S : s # y => h[s] = g[s]
  PROVE  SumFunctionOnSet(h, S) = SumFunctionOnSet(g, S) + (h[y] - g[y])
<1>1. IsFiniteSet(S \ {y}) BY FS_Subset
<1>2. SumFunctionOnSet(h, S \ {y}) = SumFunctionOnSet(g, S \ {y}) BY <1>1, TotalSame
<1>3. SumFunctionOnSet(g, S) = g[y] + SumFunctionOnSet(g, S \ {y}) /\ SumFunctionOnSet(h, S) = h[y] + SumFunctionOnSet(h, S \ {y})
  BY TotalRemove
<1>4. SumFunctionOnSet(g, S \ {y}) \in Int BY <1>1, TotalType
<1>. QED BY <1>2, <1>3, <1>4

\* Values set to zero leave the sum together.
LEMMA TotalSplit ==
  ASSUME NEW S, IsFiniteSet(S), NEW g, \A s \in S : g[s] \in Int, NEW L \in SUBSET S,
         NEW h, \A s \in S : h[s] = IF s \in L THEN 0 ELSE g[s]
  PROVE  SumFunctionOnSet(g, S) = SumFunctionOnSet(h, S) + SumFunctionOnSet(g, L)
<1>. DEFINE H(t) == [s \in S |-> IF s \in t THEN 0 ELSE g[s]]
            T == {t \in SUBSET S : SumFunctionOnSet(g, S) # SumFunctionOnSet(H(t), S) + SumFunctionOnSet(g, t)}
<1>0. \A t \in SUBSET S : \A s \in S : H(t)[s] \in Int /\ H(t)[s] = IF s \in t THEN 0 ELSE g[s] OBVIOUS
<1>1. ASSUME T # {} PROVE FALSE
  <2>0. T \in SUBSET SUBSET S /\ T # {} BY <1>1
  <2>1. PICK t \in T : \A u \in SUBSET t : u # t => u \notin T BY <2>0, LeastSet
  <2>2. t \in SUBSET S /\ IsFiniteSet(t) BY FS_Subset
  <2>3. CASE t = {}
    <3>1. SumFunctionOnSet(g, t) = 0 BY <2>2, <2>3, TotalStep
    <3>2. SumFunctionOnSet(H(t), S) = SumFunctionOnSet(g, S)
      <4>1. \A s \in S : H(t)[s] = g[s] BY <1>0, <2>2, <2>3
      <4>2. PICK k : k = H(t) OBVIOUS
      <4>. QED BY <4>1, <4>2, TotalSame
    <3>3. SumFunctionOnSet(g, S) \in Int BY TotalType
    <3>. QED BY <2>1, <3>1, <3>2, <3>3
  <2>4. CASE t # {}
    <3>1. PICK y \in t : TRUE BY <2>4
    <3>2. PICK u : u = t \ {y} OBVIOUS
    <3>3. u \in SUBSET t /\ u # t /\ u \in SUBSET S /\ y \in S /\ IsFiniteSet(u) BY <2>2, <3>1, <3>2, FS_Subset
    <3>4. SumFunctionOnSet(g, S) = SumFunctionOnSet(H(u), S) + SumFunctionOnSet(g, u) BY <2>1, <3>3
    <3>5. SumFunctionOnSet(g, t) = g[y] + SumFunctionOnSet(g, u) BY <2>2, <3>1, <3>2, TotalRemove
    <3>6. PICK a, b : a = H(u) /\ b = H(t) OBVIOUS
    <3>7. \A s \in S : a[s] \in Int /\ b[s] \in Int /\ (s # y => b[s] = a[s]) BY <1>0, <2>2, <3>2, <3>3, <3>6
    <3>8. a[y] = g[y] /\ b[y] = 0 BY <1>0, <2>2, <3>1, <3>2, <3>3, <3>6
    <3>9. SumFunctionOnSet(b, S) = SumFunctionOnSet(a, S) + (b[y] - a[y]) BY <3>3, <3>7, TotalUpdate
    <3>10. SumFunctionOnSet(a, S) \in Int /\ SumFunctionOnSet(g, u) \in Int /\ g[y] \in Int
      BY <2>2, <3>3, <3>7, TotalType
    <3>11. SumFunctionOnSet(g, S) = SumFunctionOnSet(b, S) + SumFunctionOnSet(g, t)
      BY <3>4, <3>5, <3>6, <3>8, <3>9, <3>10
    <3>. QED BY <2>1, <3>6, <3>11
  <2>. QED BY <2>3, <2>4
<1>2. SumFunctionOnSet(g, S) = SumFunctionOnSet(H(L), S) + SumFunctionOnSet(g, L) BY <1>1
<1>3. SumFunctionOnSet(H(L), S) = SumFunctionOnSet(h, S)
  <2>1. PICK k : k = H(L) OBVIOUS
  <2>2. \A s \in S : k[s] = h[s] BY <1>0, <2>1
  <2>. QED BY <2>1, <2>2, TotalSame
<1>. QED BY <1>2, <1>3

\* A sum of naturals is no less than each of them.
LEMMA TotalBounds ==
  ASSUME NEW S, IsFiniteSet(S), NEW g, \A s \in S : g[s] \in Nat, NEW y \in S
  PROVE  g[y] <= SumFunctionOnSet(g, S)
<1>1. IsFiniteSet(S \ {y}) BY FS_Subset
<1>2. SumFunctionOnSet(g, S) = g[y] + SumFunctionOnSet(g, S \ {y}) BY TotalRemove
<1>3. SumFunctionOnSet(g, S \ {y}) \in Nat BY <1>1, TotalType
<1>. QED BY <1>2, <1>3

\* SumFunction adds up the whole domain.
LEMMA SumIsTotal ==
  ASSUME NEW q
  PROVE  SumFunction(q) = SumFunctionOnSet(q, DOMAIN q)
BY DEF SumFunction

\* The sum of a sequence of integers is one, of naturals too, and of nothing 0.
LEMMA SumType ==
  ASSUME NEW q \in Seq(Int)
  PROVE  SumFunction(q) \in Int /\ (q \in Seq(Nat) => SumFunction(q) \in Nat) /\ SumFunction(<< >>) = 0
<1>1. IsFiniteSet(1..Len(q)) /\ DOMAIN q = 1..Len(q) /\ \A i \in DOMAIN q : q[i] \in Int BY FS_Interval
<1>2. SumFunction(q) \in Int BY <1>1, SumIsTotal, TotalType
<1>3. ASSUME q \in Seq(Nat) PROVE SumFunction(q) \in Nat
  <2>1. \A i \in DOMAIN q : q[i] \in Nat BY <1>3
  <2>. QED BY <1>1, <2>1, SumIsTotal, TotalType
<1>4. SumFunction(<< >>) = 0
  <2>1. DOMAIN << >> = {} OBVIOUS
  <2>. QED BY <2>1, SumIsTotal, TotalStep, FS_EmptySet
<1>. QED BY <1>2, <1>3, <1>4

\* Appending a number adds it to the sum.
LEMMA SumAppend ==
  ASSUME NEW q \in Seq(Int), NEW n \in Int
  PROVE  SumFunction(Append(q, n)) = SumFunction(q) + n
<1>1. PICK r : r = Append(q, n) OBVIOUS
<1>2. PICK k \in Nat : k = Len(q) OBVIOUS
<1>3. /\ DOMAIN r = 1..k + 1 /\ r[k + 1] = n /\ DOMAIN q = 1..k
      /\ \A i \in 1..k : r[i] = q[i] /\ q[i] \in Int BY <1>1, <1>2
<1>4. (1..k + 1) \ {k + 1} = 1..k /\ k + 1 \in 1..k + 1 BY <1>2
<1>5. IsFiniteSet(1..k) /\ IsFiniteSet(1..k + 1) BY <1>2, FS_Interval
<1>6. \A i \in 1..k + 1 : r[i] \in Int BY <1>3, <1>4
<1>7. SumFunctionOnSet(r, 1..k + 1) = n + SumFunctionOnSet(r, 1..k) BY <1>3, <1>4, <1>5, <1>6, TotalRemove
<1>8. SumFunctionOnSet(r, 1..k) = SumFunctionOnSet(q, 1..k) BY <1>3, <1>5, TotalSame
<1>9. SumFunctionOnSet(q, 1..k) \in Int BY <1>3, <1>5, TotalType
<1>10. SumFunction(r) = SumFunctionOnSet(r, 1..k + 1) /\ SumFunction(q) = SumFunctionOnSet(q, 1..k)
  <2>1. SumFunction(r) = SumFunctionOnSet(r, DOMAIN r) /\ SumFunction(q) = SumFunctionOnSet(q, DOMAIN q) BY SumIsTotal
  <2>. QED BY <1>3, <2>1
<1>. QED BY <1>1, <1>7, <1>8, <1>9, <1>10

\* Removing the first number takes it off the sum.
LEMMA SumTail ==
  ASSUME NEW q \in Seq(Int), q # << >>
  PROVE  SumFunction(Tail(q)) = SumFunction(q) - Head(q)
<1>1. PICK r, n : r = Tail(q) /\ n = Len(q) OBVIOUS
<1>2. n \in Nat \ {0} /\ r \in Seq(Int) /\ Len(r) = n - 1
      /\ \A i \in 1..n - 1 : r[i] = q[i + 1] BY <1>1
<1>3. DOMAIN q = 1..n /\ DOMAIN r = 1..n - 1 /\ Head(q) = q[1] /\ q[1] \in Int
      /\ \A i \in 1..n : q[i] \in Int BY <1>1, <1>2
<1>. DEFINE T == {t \in SUBSET (1..n - 1) : SumFunctionOnSet(r, t) # SumFunctionOnSet(q, {i + 1 : i \in t})}
<1>4. T = {}
  <2>. SUFFICES ASSUME T # {} PROVE FALSE OBVIOUS
  <2>0. T \in SUBSET SUBSET (1..n - 1) /\ T # {} /\ IsFiniteSet(1..n - 1)
    <3>1. T \in SUBSET SUBSET (1..n - 1) /\ T # {} OBVIOUS
    <3>2. 1 \in Int /\ n - 1 \in Int BY <1>2
    <3>. QED BY <3>1, <3>2, FS_Interval
  <2>1. PICK t \in T : \A u \in SUBSET t : u # t => u \notin T
    <3>. HIDE DEF T
    <3>. QED BY <2>0, LeastSet, ZenonT(60)
  <2>2. PICK s : s = {i + 1 : i \in t} OBVIOUS
  <2>3. IsFiniteSet(t) /\ t \in SUBSET (1..n - 1) BY <2>0, FS_Subset
  <2>4. s \in SUBSET (1..n) /\ IsFiniteSet(1..n)
    <3>1. \A i \in t : i + 1 \in 1..n BY <1>2, <2>3
    <3>2. IsFiniteSet(1..n) BY <1>2, FS_Interval
    <3>. QED BY <2>2, <3>1, <3>2
  <2>5. IsFiniteSet(s) BY <2>4, FS_Subset
  <2>6. t # {}
    <3>. SUFFICES ASSUME t = {} PROVE FALSE OBVIOUS
    <3>1. s = {} BY <2>2
    <3>. QED BY <2>2, <2>3, <2>5, <3>1, TotalStep
  <2>7. PICK x \in t : TRUE BY <2>6
  <2>8. PICK u, v : u = t \ {x} /\ v = s \ {x + 1} OBVIOUS
  <2>9. v = {i + 1 : i \in u} /\ x + 1 \in s
    <3>1. \A i \in t : i \in Int BY <1>2, <2>3
    <3>2. \A i \in t : i + 1 = x + 1 => i = x BY <3>1
    <3>. QED BY <2>2, <2>8, <3>2
  <2>10. SumFunctionOnSet(r, u) = SumFunctionOnSet(q, v) BY <2>1, <2>8, <2>9
  <2>11. SumFunctionOnSet(r, t) = r[x] + SumFunctionOnSet(r, u)
    <3>1. \A i \in t : r[i] \in Int BY <1>2, <1>3, <2>3
    <3>. QED BY <2>3, <2>8, <3>1, TotalRemove
  <2>12. SumFunctionOnSet(q, s) = q[x + 1] + SumFunctionOnSet(q, v)
    <3>1. \A i \in s : q[i] \in Int BY <1>3, <2>4
    <3>. QED BY <2>5, <2>8, <2>9, <3>1, TotalRemove, SMTT(30)
  <2>13. r[x] = q[x + 1] BY <1>2, <2>3
  <2>. QED BY <2>2, <2>10, <2>11, <2>12, <2>13
<1>5. SumFunctionOnSet(r, 1..n - 1) = SumFunctionOnSet(q, (1..n) \ {1})
  <2>1. {i + 1 : i \in 1..n - 1} = (1..n) \ {1}
    <3>1. \A j \in (1..n) \ {1} : j - 1 \in 1..n - 1 /\ j = (j - 1) + 1 BY <1>2
    <3>2. \A i \in 1..n - 1 : i + 1 \in (1..n) \ {1} BY <1>2
    <3>. QED BY <3>1, <3>2
  <2>. QED BY <1>4, <2>1
<1>6. IsFiniteSet(1..n) /\ 1 \in 1..n BY <1>2, FS_Interval
<1>7. SumFunctionOnSet(q, 1..n) = q[1] + SumFunctionOnSet(q, (1..n) \ {1}) BY <1>3, <1>6, TotalRemove
<1>8. SumFunctionOnSet(q, (1..n) \ {1}) \in Int
  <2>1. IsFiniteSet((1..n) \ {1}) BY <1>6, FS_Subset
  <2>. QED BY <1>3, <2>1, TotalType
<1>9. SumFunction(r) = SumFunctionOnSet(r, 1..n - 1) /\ SumFunction(q) = SumFunctionOnSet(q, 1..n)
  <2>1. SumFunction(r) = SumFunctionOnSet(r, DOMAIN r) /\ SumFunction(q) = SumFunctionOnSet(q, DOMAIN q) BY SumIsTotal
  <2>. QED BY <1>3, <2>1
<1>. QED BY <1>1, <1>3, <1>5, <1>7, <1>8, <1>9

\* What Append does to a sequence, as the facts the invariants are about: its
\* length, its last element, the elements before it.
LEMMA SeqAppend ==
  ASSUME NEW S, NEW q \in Seq(S), NEW e \in S
  PROVE  /\ Append(q, e) \in Seq(S) /\ Append(q, e) # <<>> /\ Len(q) \in Nat
         /\ Len(Append(q, e)) = Len(q) + 1 /\ Append(q, e)[Len(q) + 1] = e
         /\ \A i \in 1 .. Len(q) : Append(q, e)[i] = q[i] /\ q[i] \in S
         /\ \A i \in 1 .. Len(q) + 1 : i \in 1 .. Len(q) \/ i = Len(q) + 1
<1>1. Len(q) \in Nat /\ \A i \in 1 .. Len(q) : q[i] \in S OBVIOUS
<1>2. \A i \in 1 .. Len(q) + 1 : i \in 1 .. Len(q) \/ i = Len(q) + 1 BY <1>1
<1> QED BY <1>1, <1>2, AppendProperties

\* What Head and Tail do to a non-empty sequence, index by index.
LEMMA SeqTail ==
  ASSUME NEW S, NEW q \in Seq(S), q # <<>>
  PROVE  /\ Tail(q) \in Seq(S) /\ Len(q) \in Nat /\ Len(q) >= 1 /\ Len(Tail(q)) = Len(q) - 1
         /\ Head(q) = q[1] /\ Head(q) \in S /\ 1 \in 1 .. Len(q)
         /\ \A i \in 1 .. Len(q) - 1 : Tail(q)[i] = q[i + 1] /\ i + 1 \in 1 .. Len(q) /\ q[i + 1] \in S
         /\ \A i \in 1 .. Len(q) : i = 1 \/ (i - 1 \in 1 .. Len(q) - 1 /\ Tail(q)[i - 1] = q[i])
<1>1. Len(q) \in Nat /\ Len(q) >= 1 /\ \A i \in 1 .. Len(q) : q[i] \in S OBVIOUS
<1>2. Tail(q) \in Seq(S) /\ Len(Tail(q)) = Len(q) - 1 /\ \A i \in 1 .. Len(Tail(q)) : Tail(q)[i] = q[i + 1]
  BY HeadTailProperties
<1>3. Head(q) = q[1] OBVIOUS
<1>4. \A i \in 1 .. Len(q) - 1 : Tail(q)[i] = q[i + 1] /\ i + 1 \in 1 .. Len(q) /\ q[i + 1] \in S BY <1>1, <1>2
<1>5. \A i \in 1 .. Len(q) : i = 1 \/ (i - 1 \in 1 .. Len(q) - 1 /\ Tail(q)[i - 1] = q[i])
  <2> TAKE i \in 1 .. Len(q)
  <2>1. CASE i # 1
    <3>1. i - 1 \in 1 .. Len(q) - 1 /\ (i - 1) + 1 = i BY <1>1, <2>1
    <3> QED BY <1>4, <3>1
  <2> QED BY <2>1
<1> QED BY <1>1, <1>2, <1>3, <1>4, <1>5

\* The sum of what g gives for the members of q.
LEMMA SumOver ==
  ASSUME NEW S, NEW g \in [S -> Nat], NEW q \in Seq(S)
  PROVE  LET Over(p) == SumFunction([i \in DOMAIN p |-> g[p[i]]])
         IN  /\ Over(q) \in Nat /\ Over(<<>>) = 0
             /\ \A e \in S : Over(Append(q, e)) = Over(q) + g[e]
             /\ q # <<>> => Over(Tail(q)) = Over(q) - g[Head(q)]
<1>. DEFINE L(p) == [i \in DOMAIN p |-> g[p[i]]]
<1>0. \A p \in Seq(S) : L(p) \in Seq(Nat) /\ L(p) \in Seq(Int) /\ Len(L(p)) = Len(p)
  <2> TAKE p \in Seq(S)
  <2>1. DOMAIN p = 1 .. Len(p) /\ Len(p) \in Nat /\ \A i \in 1 .. Len(p) : g[p[i]] \in Nat OBVIOUS
  <2>2. L(p) \in [1 .. Len(p) -> Nat] BY <2>1
  <2>3. PICK l, n : l = L(p) /\ n = Len(p) OBVIOUS
  <2> HIDE DEF L
  <2>4. n \in Nat /\ l \in [1 .. n -> Nat] BY <2>1, <2>2, <2>3
  <2>5. l \in Seq(Nat) BY <2>4
  <2>6. l \in Seq(Int) BY <2>4
  <2>7. Len(l) = n BY <2>4
  <2> QED BY <2>3, <2>5, <2>6, <2>7
<1>1. SumFunction(L(q)) \in Nat
  <2> HIDE DEF L
  <2> QED BY <1>0, SumType
<1>2. SumFunction(L(<<>>)) = 0
  <2>1. L(<<>>) = <<>> OBVIOUS
  <2> HIDE DEF L
  <2> QED BY <1>0, <2>1, SumType
<1>3. ASSUME NEW f \in S PROVE SumFunction(L(Append(q, f))) = SumFunction(L(q)) + g[f]
  <2>0. Append(q, f) \in Seq(S) /\ g[f] \in Int OBVIOUS
  <2>1. L(Append(q, f)) = Append(L(q), g[f])
    <3>1. /\ DOMAIN Append(q, f) = 1 .. Len(q) + 1 /\ DOMAIN q = 1 .. Len(q) /\ Len(q) \in Nat
          /\ Append(q, f)[Len(q) + 1] = f /\ \A i \in 1 .. Len(q) : Append(q, f)[i] = q[i] OBVIOUS
    <3>2. /\ Append(L(q), g[f]) \in Seq(Int) /\ Len(Append(L(q), g[f])) = Len(q) + 1
          /\ \A i \in 1 .. Len(q) + 1 : Append(L(q), g[f])[i] = IF i = Len(q) + 1 THEN g[f] ELSE L(q)[i]
      <4> HIDE DEF L
      <4>1. PICK l : l = L(q) /\ l \in Seq(Int) /\ Len(l) = Len(q) BY <1>0
      <4> QED BY <4>1, <2>0, <3>1
    <3>3. \A i \in 1 .. Len(q) + 1 : Append(L(q), g[f])[i] = L(Append(q, f))[i]
      <4> TAKE i \in 1 .. Len(q) + 1
      <4>1. L(Append(q, f))[i] = g[Append(q, f)[i]] BY <3>1
      <4>2. CASE i = Len(q) + 1 BY <4>1, <4>2, <3>1, <3>2
      <4>3. CASE i # Len(q) + 1
        <5>1. i \in 1 .. Len(q) BY <4>3, <3>1
        <5>2. L(q)[i] = g[q[i]] BY <5>1, <3>1
        <5> HIDE DEF L
        <5> QED BY <4>1, <5>1, <5>2, <3>1, <3>2
      <4> QED BY <4>2, <4>3
    <3>4. L(Append(q, f)) \in Seq(Int) /\ Len(L(Append(q, f))) = Len(q) + 1
      <4> HIDE DEF L
      <4>1. Len(Append(q, f)) = Len(q) + 1 OBVIOUS
      <4> QED BY <1>0, <2>0, <4>1
    <3> HIDE DEF L
    <3> QED BY <3>2, <3>3, <3>4
  <2>2. SumFunction(Append(L(q), g[f])) = SumFunction(L(q)) + g[f]
    <3> HIDE DEF L
    <3> QED BY <1>0, <2>0, SumAppend
  <2> HIDE DEF L
  <2> QED BY <2>1, <2>2
<1>4. ASSUME q # <<>> PROVE SumFunction(L(Tail(q))) = SumFunction(L(q)) - g[Head(q)]
  <2>0. /\ Tail(q) \in Seq(S) /\ Len(Tail(q)) = Len(q) - 1 /\ Len(q) \in Nat /\ Len(q) >= 1
        /\ Head(q) = q[1] /\ DOMAIN q = 1 .. Len(q) /\ DOMAIN Tail(q) = 1 .. Len(q) - 1
        /\ \A i \in 1 .. Len(q) - 1 : Tail(q)[i] = q[i + 1] BY <1>4
  <2>1. L(Tail(q)) = Tail(L(q)) /\ Head(L(q)) = g[Head(q)] /\ L(q) # <<>>
    <3>1. \A i \in 1 .. Len(q) : L(q)[i] = g[q[i]] BY <2>0
    <3>2. \A i \in 1 .. Len(q) - 1 : L(Tail(q))[i] = g[Tail(q)[i]] BY <2>0
    <3>3. L(Tail(q)) \in Seq(Int) /\ Len(L(Tail(q))) = Len(q) - 1
      <4> HIDE DEF L
      <4> QED BY <1>0, <2>0
    <3> HIDE DEF L
    <3>4. /\ L(q) # <<>> /\ Tail(L(q)) \in Seq(Int) /\ Len(Tail(L(q))) = Len(q) - 1
          /\ Head(L(q)) = L(q)[1] /\ \A i \in 1 .. Len(q) - 1 : Tail(L(q))[i] = L(q)[i + 1] BY <1>0, <2>0
    <3>5. \A i \in 1 .. Len(q) - 1 : Tail(L(q))[i] = L(Tail(q))[i] BY <3>1, <3>2, <3>4, <2>0
    <3>6. PICK a, b : a = L(Tail(q)) /\ b = Tail(L(q)) OBVIOUS
    <3>7. /\ a \in Seq(Int) /\ b \in Seq(Int) /\ Len(a) = Len(b)
          /\ \A i \in 1 .. Len(a) : a[i] = b[i] BY <3>6, <3>3, <3>4, <3>5
    <3>8. a = b BY <3>7, SeqEqual
    <3>9. Head(L(q)) = g[Head(q)] BY <2>0, <3>1, <3>4
    <3> QED BY <3>6, <3>8, <3>9, <3>4
  <2>2. SumFunction(Tail(L(q))) = SumFunction(L(q)) - Head(L(q))
    <3> HIDE DEF L
    <3> QED BY <1>0, <2>1, SumTail
  <2> HIDE DEF L
  <2> QED BY <2>1, <2>2
<1> QED BY <1>1, <1>2, <1>3, <1>4

\* A total of nothing is zero.
LEMMA TotalZero ==
  ASSUME NEW S, IsFiniteSet(S), NEW g, \A s \in S : g[s] = 0
  PROVE  SumFunctionOnSet(g, S) = 0
<1>1. SumFunctionOnSet(g, S) \in Int BY TotalType
<1>2. \A s \in S : g[s] \in Int /\ g[s] = IF s \in S THEN 0 ELSE g[s] OBVIOUS
<1>3. SumFunctionOnSet(g, S) = SumFunctionOnSet(g, S) + SumFunctionOnSet(g, S) BY <1>2, TotalSplit, S \in SUBSET S
<1>4. PICK n \in Int : n = SumFunctionOnSet(g, S) BY <1>1, Zenon
<1>5. n = n + n BY <1>3, <1>4, Zenon
<1>6. n = 0 BY <1>5
<1> QED BY <1>4, <1>6, Zenon

\* A total of terms, none above B, is at most B for each term.
LEMMA TotalAtMost ==
  ASSUME NEW S, IsFiniteSet(S), NEW g, NEW B \in Nat, \A s \in S : g[s] \in Nat /\ g[s] <= B
  PROVE  SumFunctionOnSet(g, S) <= B * Cardinality(S)
<1>. DEFINE T == {t \in SUBSET S : ~(SumFunctionOnSet(g, t) <= B * Cardinality(t))}
<1>1. ASSUME T # {} PROVE FALSE
  <2>0. T \in SUBSET SUBSET S /\ T # {} BY <1>1
  <2>1. PICK t \in T : \A u \in SUBSET t : u # t => u \notin T
    <3>. HIDE DEF T
    <3>. QED BY <2>0, LeastSet
  <2>2. IsFiniteSet(t) /\ t \in SUBSET S /\ ~(SumFunctionOnSet(g, t) <= B * Cardinality(t)) BY FS_Subset
  <2>3. t # {}
    <3>1. SUFFICES ASSUME t = {} PROVE FALSE OBVIOUS
    <3>2. SumFunctionOnSet(g, t) = 0 /\ Cardinality(t) = 0 BY <3>1, <2>2, TotalStep, FS_EmptySet
    <3>3. B * 0 = 0 OBVIOUS
    <3>. QED BY <2>2, <3>2, <3>3
  <2>4. PICK x \in t : SumFunctionOnSet(g, t) = g[x] + SumFunctionOnSet(g, t \ {x})
    <3>1. Pick(t) \in t BY <2>3 DEF Pick
    <3>. QED BY <2>2, <2>3, <3>1, TotalStep
  <2>5. PICK u : u = t \ {x} OBVIOUS
  <2>6. SumFunctionOnSet(g, u) <= B * Cardinality(u) BY <2>1, <2>4, <2>5
  <2>7. IsFiniteSet(u) /\ Cardinality(u) \in Nat /\ Cardinality(t) = Cardinality(u) + 1
    <3>1. IsFiniteSet(u) /\ t = u \cup {x} /\ x \notin u BY <2>2, <2>4, <2>5, FS_Subset
    <3>. QED BY <3>1, FS_AddElement, FS_CardinalityType
  <2>8. PICK c \in Nat, y \in Nat : c = Cardinality(u) /\ y = g[x] /\ y <= B BY <2>2, <2>4, <2>7
  <2>9. SumFunctionOnSet(g, u) \in Int BY <2>2, <2>5, <2>7, TotalType
  <2>10. PICK p \in Nat : p = B * c OBVIOUS
  <2>11. B * (c + 1) = p + B BY <2>10
  <2>12. PICK z \in Int : z = SumFunctionOnSet(g, u) BY <2>9
  <2>13. z <= p /\ SumFunctionOnSet(g, t) = y + z /\ ~(y + z <= p + B)
    BY <2>2, <2>4, <2>5, <2>6, <2>7, <2>8, <2>10, <2>11, <2>12
  <2>. QED BY <2>8, <2>13
<1>2. S \notin T BY <1>1
<1>. QED BY <1>2
=============================================================================
