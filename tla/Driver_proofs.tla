---------------------------- MODULE Driver_proofs ----------------------------
(* The load generator loses no job and gets done, for every value of the      *)
(* constants.                                                                 *)
EXTENDS Driver, FiniteSetTheorems, SequenceTheorems, TLAPS

-----------------------------------------------------------------------------
(* Sums over a finite set (the totals of Stats).  SumFunctionOnSet takes its   *)
(* elements one by one, so that what it does is shown by taking a smallest set *)
(* for which it does not.                                                      *)

\* A set of subsets of a finite set has one that is smaller than no other.
LEMMA SmallestSubset ==
  ASSUME NEW S, IsFiniteSet(S), NEW B \in SUBSET SUBSET S, B # {}
  PROVE  \E U \in B : \A V \in SUBSET U : V # U => V \notin B
<1>1. IsWellFoundedOn(StrictSubsetOrdering(S), SUBSET S)
  BY FS_StrictSubsetOrderingWellFounded, FS_FiniteSubsetsOfFinite
<1>2. PICK U \in B : \A V \in B : ~(<<V, U>> \in StrictSubsetOrdering(S))
  BY <1>1, WFMin
<1>3. ASSUME NEW V \in SUBSET U, V # U PROVE V \notin B
  BY <1>2, <1>3 DEF StrictSubsetOrdering
<1> QED BY <1>3

\* The element of s that is taken first.
First(s) == CHOOSE x \in s : TRUE

\* g adds up f over the subsets of S.
Adds(g, f, S) ==
  g = [s \in SUBSET S |-> IF s = {} THEN 0 ELSE f[First(s)] + g[s \ {First(s)}]]

\* What the library takes for the sum.
LEMMA SumIsChosen ==
  \A f, S : SumFunctionOnSet(f, S) = (CHOOSE g : Adds(g, f, S))[S]
BY DEF SumFunctionOnSet, FoldFunctionOnSet, MapThenFoldSet, First, Adds

\* The first element is one of them.
LEMMA FirstTaken == \A s : s # {} => First(s) \in s
BY DEF First

\* All ways to add up agree.
LEMMA AddsAgree ==
  ASSUME NEW f, NEW S, NEW T, NEW g, NEW h, Adds(g, f, S), Adds(h, f, T),
         NEW U, U \subseteq S, U \subseteq T, IsFiniteSet(U)
  PROVE  g[U] = h[U]
<1> DEFINE Bad == {V \in SUBSET U : g[V] # h[V]}
<1> SUFFICES ASSUME Bad # {} PROVE FALSE
  OBVIOUS
<1>1. PICK V \in Bad : \A W \in SUBSET V : W # V => W \notin Bad
  <2>1. Bad \in SUBSET SUBSET U
    OBVIOUS
  <2> HIDE DEF Bad
  <2> QED BY <2>1, SmallestSubset
<1>2. V \in SUBSET S /\ V \in SUBSET T /\ V \in SUBSET U /\ g[V] # h[V]
  BY <1>1
<1>3. /\ g[V] = IF V = {} THEN 0 ELSE f[First(V)] + g[V \ {First(V)}]
      /\ h[V] = IF V = {} THEN 0 ELSE f[First(V)] + h[V \ {First(V)}]
  BY <1>2 DEF Adds
<1>4. V # {}
  BY <1>2, <1>3
<1>5. g[V \ {First(V)}] = h[V \ {First(V)}]
  BY <1>1, <1>2, <1>4, FirstTaken
<1> QED BY <1>2, <1>3, <1>5

\* There is a way to add up over every finite set.
LEMMA AddsExists ==
  ASSUME NEW f, NEW S, IsFiniteSet(S)
  PROVE  \E g : Adds(g, f, S)
<1> DEFINE Bad == {U \in SUBSET S : ~\E g : Adds(g, f, U)}
<1> SUFFICES ASSUME Bad # {} PROVE FALSE
  OBVIOUS
<1>1. PICK U \in Bad : \A V \in SUBSET U : V # U => V \notin Bad
  <2>1. Bad \in SUBSET SUBSET S
    OBVIOUS
  <2> HIDE DEF Bad
  <2> QED BY <2>1, SmallestSubset
<1> DEFINE Way(V) == CHOOSE g : Adds(g, f, V)
           h == [s \in SUBSET U |->
                   IF s = {} THEN 0 ELSE f[First(s)] + Way(s \ {First(s)})[s \ {First(s)}]]
<1>2. U \in SUBSET S /\ ~\E g : Adds(g, f, U)
  BY <1>1
<1>3. ASSUME NEW V \in SUBSET U, V # U PROVE Adds(Way(V), f, V)
  BY <1>1, <1>2, <1>3
<1>4. ASSUME NEW s \in SUBSET U, s # {}
      PROVE  h[s \ {First(s)}] = Way(s \ {First(s)})[s \ {First(s)}]
  <2> DEFINE t == s \ {First(s)}
             u == t \ {First(t)}
  <2>1. t \in SUBSET U /\ t # U /\ u \in SUBSET U /\ u \subseteq t /\ IsFiniteSet(u)
    BY <1>2, <1>4, FirstTaken, FS_Subset
  <2> DEFINE g == Way(t)
  <2>2. Adds(g, f, t)
    BY <1>3, <2>1
  <2>3. h[t] = IF t = {} THEN 0 ELSE f[First(t)] + Way(u)[u]
    BY <2>1
  <2> HIDE DEF h, Way, t
  <2>4. g[t] = IF t = {} THEN 0 ELSE f[First(t)] + g[u]
    BY <2>2 DEF Adds
  <2>5. ASSUME t # {} PROVE g[u] = Way(u)[u]
    <3>1. u # U
      BY <2>1, <2>5, FirstTaken
    <3>2. Adds(Way(u), f, u)
      BY <1>3, <2>1, <3>1
    <3> HIDE DEF g, u
    <3> QED BY <2>1, <2>2, <3>2, AddsAgree
  <2>6. h[t] = g[t]
    BY <2>3, <2>4, <2>5
  <2> QED BY <2>6 DEF t
<1>5. Adds(h, f, U)
  <2>1. h = [s \in SUBSET U |->
               IF s = {} THEN 0 ELSE f[First(s)] + Way(s \ {First(s)})[s \ {First(s)}]]
    OBVIOUS
  <2> HIDE DEF h, Way
  <2>2. \A s \in SUBSET U :
          (IF s = {} THEN 0 ELSE f[First(s)] + Way(s \ {First(s)})[s \ {First(s)}])
          = (IF s = {} THEN 0 ELSE f[First(s)] + h[s \ {First(s)}])
    BY <1>4
  <2>3. h = [s \in SUBSET U |-> IF s = {} THEN 0 ELSE f[First(s)] + h[s \ {First(s)}]]
    BY ONLY <2>1, <2>2
  <2> QED BY <2>3 DEF Adds
<1> QED BY <1>2, <1>5

\* A sum is that of the first element and of the others.
LEMMA SumUnfolds ==
  ASSUME NEW f, NEW S, IsFiniteSet(S)
  PROVE  /\ S = {} => SumFunctionOnSet(f, S) = 0
         /\ S # {} => SumFunctionOnSet(f, S) = f[First(S)] + SumFunctionOnSet(f, S \ {First(S)})
<1> DEFINE T == S \ {First(S)}
<1>1. PICK g : g = (CHOOSE x : Adds(x, f, S)) /\ Adds(g, f, S)
  BY AddsExists
<1>2. IsFiniteSet(T)
  BY FS_Subset
<1>3. PICK h : h = (CHOOSE x : Adds(x, f, T)) /\ Adds(h, f, T)
  BY <1>2, AddsExists
<1>4. SumFunctionOnSet(f, S) = g[S] /\ SumFunctionOnSet(f, T) = h[T]
  BY <1>1, <1>3, SumIsChosen
<1>5. g[T] = h[T]
  BY <1>1, <1>2, <1>3, AddsAgree
<1>6. g[S] = IF S = {} THEN 0 ELSE f[First(S)] + g[T]
  BY <1>1 DEF Adds
<1> QED BY <1>4, <1>5, <1>6

\* A sum of numbers is a number.
LEMMA SumIsNatural ==
  ASSUME NEW S, IsFiniteSet(S), NEW f, \A x \in S : f[x] \in Nat
  PROVE  SumFunctionOnSet(f, S) \in Nat
<1> DEFINE Bad == {U \in SUBSET S : SumFunctionOnSet(f, U) \notin Nat}
<1> SUFFICES ASSUME Bad # {} PROVE FALSE
  OBVIOUS
<1>1. PICK U \in Bad : \A V \in SUBSET U : V # U => V \notin Bad
  <2>1. Bad \in SUBSET SUBSET S
    OBVIOUS
  <2> HIDE DEF Bad
  <2> QED BY <2>1, SmallestSubset
<1>2. U \in SUBSET S /\ IsFiniteSet(U) /\ SumFunctionOnSet(f, U) \notin Nat
  BY <1>1, FS_Subset
<1>3. U # {}
  <2>1. U = {} => SumFunctionOnSet(f, U) = 0
    BY ONLY <1>2, SumUnfolds
  <2> QED BY <1>2, <2>1
<1> DEFINE V == U \ {First(U)}
<1>4. First(U) \in U /\ V \in SUBSET U /\ V # U /\ V \in SUBSET S
  BY <1>2, <1>3, FirstTaken
<1>5. SumFunctionOnSet(f, V) \in Nat /\ f[First(U)] \in Nat
  BY <1>1, <1>2, <1>4
<1>6. SumFunctionOnSet(f, U) = f[First(U)] + SumFunctionOnSet(f, V)
  BY <1>2, <1>3, SumUnfolds
<1> HIDE DEF V
<1> QED BY <1>2, <1>5, <1>6

\* When one value changes, the sum changes by as much.
LEMMA SumMoves ==
  ASSUME NEW S, IsFiniteSet(S), NEW f, NEW g, NEW a \in S,
         \A x \in S : f[x] \in Nat /\ g[x] \in Nat, \A x \in S : x # a => g[x] = f[x]
  PROVE  SumFunctionOnSet(g, S) + f[a] = SumFunctionOnSet(f, S) + g[a]
<1> DEFINE Old(U) == IF a \in U THEN f[a] ELSE 0
           New(U) == IF a \in U THEN g[a] ELSE 0
           Bad == {U \in SUBSET S : SumFunctionOnSet(g, U) + Old(U) # SumFunctionOnSet(f, U) + New(U)}
<1> SUFFICES ASSUME Bad # {} PROVE FALSE
  OBVIOUS
<1>1. PICK U \in Bad : \A V \in SUBSET U : V # U => V \notin Bad
  <2>1. Bad \in SUBSET SUBSET S
    OBVIOUS
  <2> HIDE DEF Bad
  <2> QED BY <2>1, SmallestSubset
<1>2. U \in SUBSET S /\ IsFiniteSet(U)
      /\ SumFunctionOnSet(g, U) + Old(U) # SumFunctionOnSet(f, U) + New(U)
  BY <1>1, FS_Subset
<1>3. U # {}
  <2>1. U = {} => SumFunctionOnSet(f, U) = 0 /\ SumFunctionOnSet(g, U) = 0
    BY ONLY <1>2, SumUnfolds
  <2>2. U = {} => Old(U) = 0 /\ New(U) = 0
    OBVIOUS
  <2> HIDE DEF Old, New
  <2> QED BY <1>2, <2>1, <2>2
<1> DEFINE x == First(U)
           V == U \ {x}
<1>4. x \in U /\ V \in SUBSET U /\ V # U /\ V \in SUBSET S /\ IsFiniteSet(V)
  BY <1>2, <1>3, FirstTaken, FS_Subset
<1>5. SumFunctionOnSet(g, V) + Old(V) = SumFunctionOnSet(f, V) + New(V)
  BY <1>1, <1>4
<1>6. /\ SumFunctionOnSet(f, U) = f[x] + SumFunctionOnSet(f, V)
      /\ SumFunctionOnSet(g, U) = g[x] + SumFunctionOnSet(g, V)
  BY <1>2, <1>3, SumUnfolds
<1>7. /\ f[x] \in Nat /\ g[x] \in Nat
      /\ SumFunctionOnSet(f, V) \in Nat /\ SumFunctionOnSet(g, V) \in Nat
  BY <1>2, <1>4, SumIsNatural
<1>8. /\ Old(V) \in Nat /\ New(V) \in Nat /\ Old(U) \in Nat /\ New(U) \in Nat
      /\ g[x] + Old(U) + New(V) = f[x] + New(U) + Old(V)
  <2>1. CASE x = a
    BY <1>4, <1>7, <2>1
  <2>2. CASE x # a
    BY <1>2, <1>4, <1>7, <2>2
  <2> QED BY <2>1, <2>2
<1> HIDE DEF V, x, Old, New
<1>9. ASSUME NEW sf \in Nat, NEW sg \in Nat, NEW fx \in Nat, NEW gx \in Nat,
             NEW ov \in Nat, NEW nv \in Nat, NEW ou \in Nat, NEW nu \in Nat,
             sg + ov = sf + nv, gx + ou + nv = fx + nu + ov
      PROVE  (gx + sg) + ou = (fx + sf) + nu
  BY ONLY <1>9
<1>10. (g[x] + SumFunctionOnSet(g, V)) + Old(U) = (f[x] + SumFunctionOnSet(f, V)) + New(U)
  BY ONLY <1>5, <1>7, <1>8, <1>9
<1> QED BY <1>2, <1>6, <1>10

\* Counting one more of a adds one to the sum over every set that a is in.
LEMMA SumAddsOne ==
  ASSUME NEW S, IsFiniteSet(S), NEW f, NEW g, NEW a \in S,
         \A x \in S : f[x] \in Nat, g[a] = f[a] + 1, \A x \in S : x # a => g[x] = f[x]
  PROVE  SumFunctionOnSet(g, S) = SumFunctionOnSet(f, S) + 1
<1>1. \A x \in S : f[x] \in Nat /\ g[x] \in Nat
  OBVIOUS
<1>2. SumFunctionOnSet(g, S) + f[a] = SumFunctionOnSet(f, S) + g[a]
  BY <1>1, SumMoves
<1>3. SumFunctionOnSet(f, S) \in Nat /\ SumFunctionOnSet(g, S) \in Nat /\ f[a] \in Nat
  BY <1>1, SumIsNatural
<1> QED BY <1>2, <1>3

\* The sum over all arguments of a function.
LEMMA SumOnDomain ==
  \A f : SumFunction(f) = SumFunctionOnSet(f, DOMAIN f)
BY DEF SumFunction

\* The sum depends on the values alone.
LEMMA SumOfZero ==
  ASSUME NEW S, IsFiniteSet(S), NEW f, \A x \in S : f[x] = 0
  PROVE  SumFunctionOnSet(f, S) = 0
<1> DEFINE Bad == {U \in SUBSET S : SumFunctionOnSet(f, U) # 0}
<1> SUFFICES ASSUME Bad # {} PROVE FALSE
  OBVIOUS
<1>1. PICK U \in Bad : \A V \in SUBSET U : V # U => V \notin Bad
  <2>1. Bad \in SUBSET SUBSET S
    OBVIOUS
  <2> HIDE DEF Bad
  <2> QED BY <2>1, SmallestSubset
<1>2. U \in SUBSET S /\ IsFiniteSet(U) /\ SumFunctionOnSet(f, U) # 0
  BY <1>1, FS_Subset
<1>3. U # {} /\ First(U) \in U
  BY <1>2, SumUnfolds, FirstTaken
<1>4. U \ {First(U)} \in SUBSET U /\ U \ {First(U)} # U
  BY <1>3
<1>5. SumFunctionOnSet(f, U \ {First(U)}) = 0 /\ f[First(U)] = 0
  BY <1>1, <1>2, <1>3, <1>4
<1>6. SumFunctionOnSet(f, U) = f[First(U)] + SumFunctionOnSet(f, U \ {First(U)})
  BY <1>2, <1>3, SumUnfolds
<1> QED BY <1>2, <1>5, <1>6

-----------------------------------------------------------------------------
(* The invariant.                                                             *)

\* The jobs channel is closed once the pacer is done, and the workers are gone when Run
\* returns.
Closing ==
  /\ closed <=> run \in {"wait", "returned"}
  /\ run # "pace" => pacer = "next"
  /\ run = "returned" => AllExited

\* The pacer holds a job exactly while it offers it.
Offering == picked # "none" <=> pacer = "offer"

\* A worker holds a job exactly while it works on it.
Working == \A w \in Workers : worker[w] \in {"fire", "record"} <=> job[w] # "none"

\* A worker goes only when nothing is left and nothing can come.
Leaving == \A w \in Workers : worker[w] = "exited" => closed /\ jobs = << >>

Inv == TypeOK /\ Closing /\ Offering /\ Working /\ Leaving

\* Number of workers and of segments.
LEMMA Counts == Cardinality(Workers) \in Nat \ {0} /\ Len(Rates) \in Nat
<1>1. Cardinality(Workers) \in Nat /\ Cardinality(Workers) # 0
  BY WorkersAssumption, FS_CardinalityType, FS_EmptySet
<1>2. Len(Rates) \in Nat
  BY RatesAssumption
<1> QED BY <1>1, <1>2

\* Before Run seeds the first device (Run).
LEMMA InitInv == Init => Inv
<1> SUFFICES ASSUME Init PROVE Inv
  OBVIOUS
<1> USE DEF Init
<1>1. TypeOK
  <2>1. /\ << >> \in Seq(Ops) /\ Len(<< >>) <= Cardinality(Workers)
        /\ 0 \in 0..Devices /\ 0 \in 0..MaxTicks /\ 0 \in 0..Len(Rates)
    BY ONLY Counts, BoundsAssumption
  <2> QED BY <2>1 DEF TypeOK
<1>2. Closing /\ Offering /\ Working /\ Leaving
  BY WorkersAssumption DEF Closing, Offering, Working, Leaving, AllExited
<1> QED BY <1>1, <1>2 DEF Inv

\* The steps of Run and of its pacer.
LEMMA PacerInv ==
  ASSUME Inv, Pacer \/ EndSegment
  PROVE  Inv'
<1> USE DEF Inv, TypeOK, pacerVars, queueVars, workVars
<1>1. CASE SeedDevice \/ Seeded \/ EndSegment
  <2>1. TypeOK'
    BY <1>1, BoundsAssumption DEF SeedDevice, Seeded, EndSegment
  <2>2. Closing' /\ Offering' /\ Working' /\ Leaving'
    BY <1>1 DEF SeedDevice, Seeded, EndSegment, Closing, Offering, Working, Leaving, AllExited
  <2> QED BY <2>1, <2>2
<1>2. CASE BeginSegment
  <2>0. segment + 1 \in 0..Len(Rates)
    <3>1. segment \in 0..Len(Rates) /\ segment < Len(Rates)
      BY <1>2 DEF BeginSegment
    <3> QED BY ONLY <3>1, Counts
  <2>1. TypeOK'
    BY <1>2, <2>0 DEF BeginSegment
  <2>2. Closing' /\ Offering' /\ Working' /\ Leaving'
    BY <1>2 DEF BeginSegment, Closing, Offering, Working, Leaving, AllExited
  <2> QED BY <2>1, <2>2
<1>3. CASE TakeTick
  <2>1. PICK op \in Ops : picked' = op /\ offered' = [offered EXCEPT ![op] = @ + 1]
    BY <1>3 DEF TakeTick
  <2>2. TypeOK'
    <3>1. offered' \in [Ops -> Nat] /\ picked' \in Ops
      BY <2>1
    <3>2. UNCHANGED <<run, seeded, segment, ticks, jobs, closed, dropped, cancelled, worker, job,
                      ok, count, fails>> /\ pacer' = "offer" /\ tick' = FALSE
      BY <1>3 DEF TakeTick
    <3> QED BY <3>1, <3>2
  <2>3. Closing' /\ Offering' /\ Working' /\ Leaving'
    BY <1>3, <2>1, OpsAssumption DEF TakeTick, Closing, Offering, Working, Leaving, AllExited
  <2> QED BY <2>2, <2>3
<1>4. CASE Offer
  <2>1. picked \in Ops /\ ~closed
    BY <1>4 DEF Offer, Offering, Closing
  <2>2. /\ UNCHANGED <<run, seeded, segment, tick, ticks, closed, cancelled, worker, job, ok,
                        count, fails, offered>>
        /\ pacer = "offer" /\ pacer' = "select" /\ picked' = "none"
    BY <1>4 DEF Offer
  <2>3. jobs' \in Seq(Ops) /\ Len(jobs') <= Cardinality(Workers) /\ dropped' \in Nat
    <3>1. CASE Room /\ jobs' = Append(jobs, picked) /\ UNCHANGED dropped
      BY <2>1, <3>1, Counts DEF Room
    <3>2. CASE Drop
      BY <3>2 DEF Drop
    <3> QED BY <1>4, <3>1, <3>2 DEF Offer
  <2>4. TypeOK'
    BY <2>2, <2>3
  <2>5. Closing' /\ Offering' /\ Working' /\ Leaving'
    BY <2>1, <2>2 DEF Closing, Offering, Working, Leaving, AllExited
  <2> QED BY <2>4, <2>5
<1>5. CASE PaceReturns
  <2>1. picked = "none" /\ pacer' = "next" /\ run = "pace" /\ run' = "wait" /\ closed' = TRUE
    BY <1>5 DEF PaceReturns, Closed, Offering
  <2>2. UNCHANGED <<seeded, segment, picked, tick, ticks, jobs, dropped, cancelled, worker, job,
                    ok, count, fails, offered>>
    BY <1>5 DEF PaceReturns
  <2>3. TypeOK'
    BY <2>1, <2>2
  <2>4. Closing' /\ Offering' /\ Working' /\ Leaving'
    BY <2>1, <2>2 DEF Closing, Offering, Working, Leaving, AllExited
  <2> QED BY <2>3, <2>4
<1>6. CASE RunReturns
  <2>1. TypeOK'
    BY <1>6 DEF RunReturns
  <2>2. Closing' /\ Offering' /\ Working' /\ Leaving'
    BY <1>6 DEF RunReturns, Closing, Offering, Working, Leaving, AllExited
  <2> QED BY <2>1, <2>2
<1> QED BY <1>1, <1>2, <1>3, <1>4, <1>5, <1>6 DEF Pacer

\* The steps of a worker.
LEMMA WorkerInv ==
  ASSUME Inv, NEW w \in Workers, Worker(w) \/ FireEnds(w, TRUE)
  PROVE  Inv'
<1> USE DEF Inv, TypeOK, pacerVars, queueVars, workVars
<1>1. CASE Take(w)
  <2> USE <1>1 DEF Take
  <2>1. Head(jobs) \in Ops /\ Tail(jobs) \in Seq(Ops) /\ Len(Tail(jobs)) <= Cardinality(Workers)
    <3>1. Head(jobs) \in Ops /\ Tail(jobs) \in Seq(Ops) /\ Len(Tail(jobs)) = Len(jobs) - 1
      OBVIOUS
    <3> QED BY <3>1, Counts
  <2>2. TypeOK'
    BY <2>1
  <2>3. Head(jobs) # "none" /\ jobs # << >>
    BY <2>1, OpsAssumption
  <2>4. Working'
    BY <2>3 DEF Working
  <2>5. Closing' /\ Offering' /\ Leaving'
    BY DEF Closing, Offering, Leaving, AllExited
  <2> QED BY <2>2, <2>4, <2>5
<1>2. ASSUME NEW success \in BOOLEAN, FireEnds(w, success) PROVE Inv'
  <2>1. TypeOK'
    BY <1>2 DEF FireEnds
  <2>2. Closing' /\ Offering' /\ Working' /\ Leaving'
    BY <1>2 DEF FireEnds, Closing, Offering, Working, Leaving, AllExited
  <2> QED BY <2>1, <2>2
<1>3. CASE Record(w)
  <2> USE <1>3 DEF Record
  <2>1. job[w] \in Ops
    BY DEF Working
  <2>2. TypeOK'
    <3>1. count' \in [Ops -> Nat]
      BY <2>1
    <3>2. fails' \in [Ops -> Nat]
      <4>1. (IF ok[w] THEN fails[job[w]] ELSE fails[job[w]] + 1) \in Nat
        BY <2>1
      <4> QED BY <2>1, <4>1
    <3>3. UNCHANGED <<run, seeded, pacer, segment, picked, tick, ticks, jobs, closed, dropped,
                      cancelled, ok, offered>>
      OBVIOUS
    <3>4. worker' \in [Workers -> {"idle", "fire", "record", "exited"}]
          /\ job' \in [Workers -> Ops \cup {"none"}]
      OBVIOUS
    <3> QED BY <3>1, <3>2, <3>3, <3>4
  <2>3. Closing' /\ Offering' /\ Working' /\ Leaving'
    BY DEF Closing, Offering, Working, Leaving, AllExited
  <2> QED BY <2>2, <2>3
<1>4. CASE WorkerExits(w)
  <2> USE <1>4 DEF WorkerExits
  <2>1. TypeOK'
    OBVIOUS
  <2>2. Closing' /\ Offering' /\ Working' /\ Leaving'
    BY DEF Closing, Offering, Working, Leaving, AllExited
  <2> QED BY <2>1, <2>2
<1> QED BY <1>1, <1>2, <1>3, <1>4 DEF Worker

\* Every step preserves the invariant.
LEMMA StepInv == Inv /\ [Next]_vars => Inv'
<1> SUFFICES ASSUME Inv, [Next]_vars PROVE Inv'
  OBVIOUS
<1>1. CASE TickerFires \/ Cancel
  <2> USE DEF Inv, TypeOK, pacerVars, queueVars, workVars
  <2>0. ticks' \in 0..MaxTicks
    <3>1. ticks \in 0..MaxTicks /\ (ticks' = ticks \/ (ticks < MaxTicks /\ ticks' = ticks + 1))
      BY <1>1 DEF TickerFires, Cancel
    <3> QED BY ONLY <3>1, BoundsAssumption
  <2>1. TypeOK'
    BY <1>1, <2>0 DEF TickerFires, Cancel
  <2>2. Closing' /\ Offering' /\ Working' /\ Leaving'
    BY <1>1 DEF TickerFires, Cancel, Closing, Offering, Working, Leaving, AllExited
  <2> QED BY <2>1, <2>2
<1>2. CASE UNCHANGED vars
  BY <1>2 DEF Inv, TypeOK, Closing, Offering, Working, Leaving, AllExited, vars, pacerVars,
              queueVars, workVars
<1> QED BY <1>1, <1>2, PacerInv, WorkerInv DEF Next, Returned

\* The invariant holds throughout every run of the generator.
LEMMA Invariance == Spec => []Inv
BY InitInv, StepInv, PTL DEF Spec

\* Type correctness of the generator; the channel never holds more than its capacity.
THEOREM TypeCorrect == Spec => []TypeOK
<1>1. Inv => TypeOK
  BY DEF Inv
<1> QED BY <1>1, Invariance, PTL

-----------------------------------------------------------------------------
(* Counting the jobs under way.                                               *)

At(s, op) == {k \in DOMAIN s : s[k] = op}
Holders(f, op) == {w \in Workers : f[w] = op}
One(b) == IF b THEN 1 ELSE 0

\* The places of a queue and the workers can be counted.
LEMMA CountTypes ==
  /\ \A s \in Seq(Ops) : \A op : IsFiniteSet(At(s, op)) /\ Cardinality(At(s, op)) \in Nat
  /\ \A f, op : IsFiniteSet(Holders(f, op)) /\ Cardinality(Holders(f, op)) \in Nat
<1>1. ASSUME NEW s \in Seq(Ops), NEW op
      PROVE  IsFiniteSet(At(s, op)) /\ Cardinality(At(s, op)) \in Nat
  <2>1. IsFiniteSet(1..Len(s)) /\ At(s, op) \in SUBSET (1..Len(s))
    BY FS_Interval DEF At
  <2> QED BY <2>1, FS_Subset, FS_CardinalityType
<1>2. ASSUME NEW f, NEW op
      PROVE  IsFiniteSet(Holders(f, op)) /\ Cardinality(Holders(f, op)) \in Nat
  <2>1. Holders(f, op) \in SUBSET Workers
    BY DEF Holders
  <2> QED BY <2>1, WorkersAssumption, FS_Subset, FS_CardinalityType
<1> QED BY <1>1, <1>2

\* A job at the end of the queue.
LEMMA CountAppend ==
  ASSUME NEW s \in Seq(Ops), NEW x \in Ops, NEW op
  PROVE  Cardinality(At(Append(s, x), op)) = Cardinality(At(s, op)) + One(x = op)
<1> DEFINE n == Len(s) + 1
<1>1. At(Append(s, x), op) = IF x = op THEN At(s, op) \cup {n} ELSE At(s, op)
  BY DEF At
<1>2. n \notin At(s, op)
  BY DEF At
<1>3. IsFiniteSet(At(s, op)) /\ Cardinality(At(s, op)) \in Nat
  BY CountTypes
<1> HIDE DEF n
<1>4. Cardinality(At(s, op) \cup {n}) = Cardinality(At(s, op)) + 1
  BY ONLY <1>2, <1>3, FS_AddElement
<1>5. CASE x = op
  BY <1>1, <1>4, <1>5 DEF One
<1>6. CASE x # op
  BY <1>1, <1>3, <1>6 DEF One
<1> QED BY <1>5, <1>6

\* The job at the head of the queue.
LEMMA CountTail ==
  ASSUME NEW s \in Seq(Ops), s # << >>, NEW op
  PROVE  Cardinality(At(s, op)) = Cardinality(At(Tail(s), op)) + One(Head(s) = op)
<1>1. Tail(s) \in Seq(Ops) /\ Len(Tail(s)) = Len(s) - 1 /\ Len(s) \in Nat \ {0}
      /\ \A k \in 1..Len(Tail(s)) : Tail(s)[k] = s[k + 1]
      /\ Head(s) = s[1] /\ DOMAIN s = 1..Len(s) /\ DOMAIN Tail(s) = 1..Len(Tail(s))
  OBVIOUS
<1> DEFINE A == At(Tail(s), op)
           B == At(s, op) \ {1}
           f == [k \in A |-> k + 1]
<1>2. IsFiniteSet(A) /\ Cardinality(A) \in Nat /\ IsFiniteSet(At(s, op))
      /\ Cardinality(At(s, op)) \in Nat
  BY <1>1, CountTypes
<1>3. \A k \in A : k \in 1..(Len(s) - 1) /\ s[k + 1] = op
  BY <1>1 DEF At
<1>4. f \in [A -> B]
  <2> SUFFICES ASSUME NEW k \in A PROVE k + 1 \in B
    OBVIOUS
  <2>1. k \in 1..(Len(s) - 1) /\ s[k + 1] = op
    BY <1>3
  <2>2. k + 1 \in 1..Len(s) /\ k + 1 # 1
    BY ONLY <1>1, <2>1
  <2> QED BY <1>1, <2>1, <2>2 DEF At
<1>5. \A j, k \in A : f[j] = f[k] => j = k
  <2> SUFFICES ASSUME NEW j \in A, NEW k \in A, j + 1 = k + 1 PROVE j = k
    OBVIOUS
  <2>1. j \in Nat /\ k \in Nat
    BY <1>1, <1>3
  <2> QED BY ONLY <2>1, j + 1 = k + 1
<1>6. \A m \in B : \E k \in A : f[k] = m
  <2> SUFFICES ASSUME NEW m \in B PROVE m - 1 \in A /\ (m - 1) + 1 = m
    OBVIOUS
  <2>1. m \in 2..Len(s) /\ s[m] = op
    BY <1>1 DEF At
  <2>2. m - 1 \in 1..(Len(s) - 1) /\ (m - 1) + 1 = m
    BY ONLY <1>1, <2>1
  <2>3. Tail(s)[m - 1] = op
    BY ONLY <1>1, <2>1, <2>2
  <2> QED BY <1>1, <2>2, <2>3 DEF At
<1>7. ExistsBijection(A, B)
  <2> HIDE DEF f, A, B
  <2>1. f \in Bijection(A, B)
    BY <1>4, <1>5, <1>6 DEF Bijection, Injection, Surjection, IsInjective
  <2> QED BY <2>1 DEF ExistsBijection
<1>8. Cardinality(B) = Cardinality(A)
  <2> HIDE DEF A, B
  <2> QED BY <1>2, <1>7, FS_Bijection
<1>9. 1 \in At(s, op) <=> Head(s) = op
  BY <1>1 DEF At
<1>10. Cardinality(B) = IF Head(s) = op THEN Cardinality(At(s, op)) - 1 ELSE Cardinality(At(s, op))
  BY <1>2, <1>9, FS_RemoveElement
<1> HIDE DEF A, B, f
<1> QED BY <1>2, <1>8, <1>10 DEF One, A

\* One worker takes a job or drops the one it holds.
LEMMA CountHolders ==
  ASSUME NEW f, NEW g, NEW w \in Workers, NEW op, \A v \in Workers : v # w => g[v] = f[v]
  PROVE  Cardinality(Holders(g, op)) + One(f[w] = op) = Cardinality(Holders(f, op)) + One(g[w] = op)
<1>1. Holders(f, op) \ {w} = Holders(g, op) \ {w}
  BY DEF Holders
<1>2. (w \in Holders(f, op) <=> f[w] = op) /\ (w \in Holders(g, op) <=> g[w] = op)
  BY DEF Holders
<1>3. IsFiniteSet(Holders(f, op)) /\ Cardinality(Holders(f, op)) \in Nat
      /\ IsFiniteSet(Holders(g, op)) /\ Cardinality(Holders(g, op)) \in Nat
  BY CountTypes
<1>4. Cardinality(Holders(f, op) \ {w}) = IF f[w] = op THEN Cardinality(Holders(f, op)) - 1
                                                       ELSE Cardinality(Holders(f, op))
  BY <1>2, <1>3, FS_RemoveElement
<1>5. Cardinality(Holders(g, op) \ {w}) = IF g[w] = op THEN Cardinality(Holders(g, op)) - 1
                                                       ELSE Cardinality(Holders(g, op))
  BY <1>2, <1>3, FS_RemoveElement
<1>6. Cardinality(Holders(f, op) \ {w}) = Cardinality(Holders(g, op) \ {w})
  BY ONLY <1>1
<1>7. CASE f[w] = op /\ g[w] = op
  BY ONLY <1>3, <1>4, <1>5, <1>6, <1>7 DEF One
<1>8. CASE f[w] = op /\ g[w] # op
  BY ONLY <1>3, <1>4, <1>5, <1>6, <1>8 DEF One
<1>9. CASE f[w] # op /\ g[w] = op
  BY ONLY <1>3, <1>4, <1>5, <1>6, <1>9 DEF One
<1>10. CASE f[w] # op /\ g[w] # op
  BY ONLY <1>3, <1>4, <1>5, <1>6, <1>10 DEF One
<1> QED BY <1>7, <1>8, <1>9, <1>10

\* The jobs of op under way, in these terms.
LEMMA UnderWayIs ==
  ASSUME TypeOK, NEW op
  PROVE  /\ UnderWay(op) = Cardinality(At(jobs, op)) + Cardinality(Holders(job, op)) + One(picked = op)
         /\ UnderWay(op) \in Nat
<1>1. UnderWay(op) = Cardinality(At(jobs, op)) + Cardinality(Holders(job, op)) + One(picked = op)
  BY DEF UnderWay, At, Holders, One
<1>2. Cardinality(At(jobs, op)) \in Nat /\ Cardinality(Holders(job, op)) \in Nat
      /\ One(picked = op) \in Nat
  BY CountTypes DEF One, TypeOK
<1> QED BY <1>1, <1>2

\* The same after a step.
LEMMA UnderWayIsNext ==
  ASSUME TypeOK', NEW op
  PROVE  /\ UnderWay(op)' = Cardinality(At(jobs', op)) + Cardinality(Holders(job', op))
                            + One(picked' = op)
         /\ UnderWay(op)' \in Nat
<1>1. UnderWay(op)' = Cardinality(At(jobs', op)) + Cardinality(Holders(job', op)) + One(picked' = op)
  BY DEF UnderWay, At, Holders, One
<1>2. Cardinality(At(jobs', op)) \in Nat /\ Cardinality(Holders(job', op)) \in Nat
      /\ One(picked' = op) \in Nat
  BY CountTypes DEF One, TypeOK
<1> QED BY <1>1, <1>2

\* What Run returns is final: no job is on its way when the last worker has gone, so no
\* sample is added to the statistics any more.
THEOREM StatisticsAreFinal == Spec => []ResultIsFinal
<1>1. Inv => ResultIsFinal
  <2> SUFFICES ASSUME Inv, run = "returned", NEW op \in Ops PROVE UnderWay(op) = 0
    BY DEF ResultIsFinal
  <2>1. PICK w \in Workers : worker[w] = "exited"
    BY WorkersAssumption DEF Inv, Closing, AllExited
  <2>2. jobs = << >> /\ picked = "none" /\ \A v \in Workers : job[v] = "none"
    BY <2>1 DEF Inv, Leaving, Closing, Offering, Working, AllExited
  <2>3. At(jobs, op) = {} /\ Holders(job, op) = {} /\ picked # op
    BY <2>2, OpsAssumption DEF At, Holders
  <2>4. Cardinality(At(jobs, op)) = 0 /\ Cardinality(Holders(job, op)) = 0 /\ One(picked = op) = 0
    BY <2>3, FS_EmptySet DEF One
  <2> QED BY <2>4, UnderWayIs DEF Inv
<1> QED BY <1>1, Invariance, PTL

-----------------------------------------------------------------------------
(* No job is lost.                                                            *)

\* The jobs of op that are counted as samples or on their way.
Seen(op) == count[op] + UnderWay(op)
SeenAll == [op \in Ops |-> Seen(op)]

\* What a step may do to the books.
Kept    == offered' = offered /\ dropped' = dropped /\ \A op \in Ops : Seen(op)' = Seen(op)
Taken(x) ==
  /\ offered' = [offered EXCEPT ![x] = @ + 1] /\ dropped' = dropped
  /\ Seen(x)' = Seen(x) + 1 /\ \A op \in Ops \ {x} : Seen(op)' = Seen(op)
Lost(x) ==
  /\ offered' = offered /\ dropped' = dropped + 1
  /\ Seen(x) = Seen(x)' + 1 /\ \A op \in Ops \ {x} : Seen(op)' = Seen(op)

\* Numbers of jobs.
LEMMA SeenType ==
  ASSUME TypeOK, TypeOK', NEW op \in Ops
  PROVE  Seen(op) \in Nat /\ Seen(op)' \in Nat
<1>1. count[op] \in Nat /\ count'[op] \in Nat
  BY DEF TypeOK
<1> QED BY <1>1, UnderWayIs, UnderWayIsNext DEF Seen

\* A tick becomes a job (pace).
LEMMA TakeTickBooks ==
  ASSUME Inv, Inv', TakeTick
  PROVE  \E op \in Ops : Taken(op)
<1>1. PICK x \in Ops : picked' = x /\ offered' = [offered EXCEPT ![x] = @ + 1]
  BY DEF TakeTick
<1>2. picked = "none" /\ UNCHANGED <<jobs, job, count, dropped>>
  BY DEF TakeTick, Inv, Offering, queueVars, workVars
<1>3. ASSUME NEW op \in Ops PROVE Seen(op)' = Seen(op) + One(x = op)
  <2>1. UnderWay(op)' = Cardinality(At(jobs, op)) + Cardinality(Holders(job, op)) + One(x = op)
    BY <1>1, <1>2, UnderWayIsNext DEF Inv
  <2>2. UnderWay(op) = Cardinality(At(jobs, op)) + Cardinality(Holders(job, op)) + 0
    <3>1. picked # op
      BY <1>2, OpsAssumption
    <3> QED BY <3>1, UnderWayIs DEF Inv, One
  <2>3. Cardinality(At(jobs, op)) \in Nat /\ Cardinality(Holders(job, op)) \in Nat
        /\ One(x = op) \in Nat /\ count[op] \in Nat /\ count'[op] = count[op]
    BY <1>2, CountTypes DEF One, Inv, TypeOK
  <2> QED BY <2>1, <2>2, <2>3 DEF Seen
<1>4. ASSUME NEW op \in Ops \ {x} PROVE Seen(op)' = Seen(op)
  <2>1. One(x = op) = 0 /\ Seen(op) \in Nat
    BY <1>4, SeenType DEF One, Inv
  <2> QED BY <1>3, <2>1
<1>5. Seen(x)' = Seen(x) + 1
  BY <1>3 DEF One
<1> QED BY <1>1, <1>2, <1>4, <1>5 DEF Taken

\* The job enters the channel, or is dropped.
LEMMA OfferBooks ==
  ASSUME Inv, Inv', Offer
  PROVE  Kept \/ \E op \in Ops : Lost(op)
<1>1. picked \in Ops /\ picked' = "none" /\ UNCHANGED <<job, count, offered>>
  BY DEF Offer, Inv, TypeOK, Offering, workVars
<1>2. ASSUME NEW op \in Ops
      PROVE  /\ UnderWay(op) = Cardinality(At(jobs, op)) + Cardinality(Holders(job, op)) + One(picked = op)
             /\ UnderWay(op)' = Cardinality(At(jobs', op)) + Cardinality(Holders(job, op)) + 0
             /\ Cardinality(At(jobs, op)) \in Nat /\ Cardinality(Holders(job, op)) \in Nat
             /\ One(picked = op) \in Nat /\ count[op] \in Nat /\ count'[op] = count[op]
  <2>1. picked' # op
    BY <1>1, OpsAssumption
  <2>2. One(picked' = op) = 0
    BY <2>1 DEF One
  <2>3. UnderWay(op)' = Cardinality(At(jobs', op)) + Cardinality(Holders(job, op)) + 0
    BY <1>1, <2>2, UnderWayIsNext DEF Inv
  <2>4. Cardinality(At(jobs, op)) \in Nat /\ Cardinality(Holders(job, op)) \in Nat
        /\ One(picked = op) \in Nat /\ count[op] \in Nat /\ count'[op] = count[op]
    BY <1>1, CountTypes DEF One, Inv, TypeOK
  <2> QED BY <2>3, <2>4, UnderWayIs DEF Inv
<1>3. ASSUME jobs' = Append(jobs, picked), dropped' = dropped PROVE Kept
  <2>1. ASSUME NEW op \in Ops PROVE Seen(op)' = Seen(op)
    <3>1. Cardinality(At(jobs', op)) = Cardinality(At(jobs, op)) + One(picked = op)
      <4>1. jobs \in Seq(Ops) /\ picked \in Ops
        BY <1>1 DEF Inv, TypeOK
      <4> QED BY ONLY <1>3, <4>1, CountAppend
    <3> QED BY <1>2, <3>1 DEF Seen
  <2> QED BY <1>1, <1>3, <2>1 DEF Kept
<1>4. ASSUME jobs' = jobs, dropped' = dropped + 1 PROVE \E x \in Ops : Lost(x)
  <2>1. ASSUME NEW op \in Ops PROVE Seen(op) = Seen(op)' + One(picked = op)
    BY <1>2, <1>4 DEF Seen
  <2>2. PICK x \in Ops : x = picked
    BY <1>1
  <2>3. Seen(x) = Seen(x)' + 1
    <3>1. One(picked = x) = 1
      BY <2>2 DEF One
    <3> QED BY <2>1, <3>1
  <2>4. ASSUME NEW op \in Ops \ {x} PROVE Seen(op)' = Seen(op)
    <3>1. One(picked = op) = 0 /\ Seen(op)' \in Nat
      BY <2>2, <2>4, SeenType DEF One, Inv
    <3> QED BY <2>1, <3>1
  <2> QED BY <1>1, <1>4, <2>3, <2>4 DEF Lost
<1> QED BY <1>1, <1>3, <1>4 DEF Offer, Drop

\* A worker takes the job at the head of the channel.
LEMMA TakeBooks ==
  ASSUME Inv, Inv', NEW w \in Workers, Take(w)
  PROVE  Kept
<1>1. /\ jobs \in Seq(Ops) /\ jobs # << >> /\ Head(jobs) \in Ops /\ jobs' = Tail(jobs)
      /\ job' = [job EXCEPT ![w] = Head(jobs)] /\ job[w] = "none"
      /\ job \in [Workers -> Ops \cup {"none"}]
      /\ UNCHANGED <<picked, count, offered, dropped>>
  BY DEF Take, Inv, TypeOK, Working, pacerVars
<1>2. ASSUME NEW op \in Ops PROVE Seen(op)' = Seen(op)
  <2>1. Cardinality(At(jobs, op)) = Cardinality(At(jobs', op)) + One(Head(jobs) = op)
    BY ONLY <1>1, CountTail
  <2>2. Cardinality(Holders(job', op)) + One(job[w] = op) = Cardinality(Holders(job, op)) + One(Head(jobs) = op)
    <3>1. job'[w] = Head(jobs) /\ \A v \in Workers : v # w => job'[v] = job[v]
      BY <1>1
    <3>2. Cardinality(Holders(job', op)) + One(job[w] = op)
          = Cardinality(Holders(job, op)) + One(job'[w] = op)
      BY <3>1, CountHolders
    <3> QED BY ONLY <3>1, <3>2
  <2>3. One(job[w] = op) = 0
    BY <1>1, OpsAssumption DEF One
  <2>4. /\ UnderWay(op) = Cardinality(At(jobs, op)) + Cardinality(Holders(job, op)) + One(picked = op)
        /\ UnderWay(op)' = Cardinality(At(jobs', op)) + Cardinality(Holders(job', op)) + One(picked = op)
    BY <1>1, UnderWayIs, UnderWayIsNext DEF Inv
  <2>5. /\ Cardinality(At(jobs', op)) \in Nat /\ Cardinality(Holders(job', op)) \in Nat
        /\ Cardinality(Holders(job, op)) \in Nat
        /\ One(picked = op) \in Nat /\ One(Head(jobs) = op) \in Nat
    BY CountTypes DEF One, Inv, TypeOK
  <2>6. UnderWay(op)' = UnderWay(op)
    BY ONLY <2>1, <2>2, <2>3, <2>4, <2>5
  <2> QED BY <1>1, <2>6 DEF Seen
<1> QED BY <1>1, <1>2 DEF Kept

\* A worker records its sample (Stats.Record).
LEMMA RecordBooks ==
  ASSUME Inv, Inv', NEW w \in Workers, Record(w)
  PROVE  Kept
<1>1. /\ job[w] \in Ops /\ job' = [job EXCEPT ![w] = "none"]
      /\ job \in [Workers -> Ops \cup {"none"}]
      /\ count' = [count EXCEPT ![job[w]] = @ + 1] /\ count \in [Ops -> Nat]
      /\ UNCHANGED <<picked, jobs, offered, dropped>>
  BY DEF Record, Inv, TypeOK, Working, pacerVars, queueVars
<1>2. ASSUME NEW op \in Ops PROVE Seen(op)' = Seen(op)
  <2>1. Cardinality(Holders(job', op)) + One(job[w] = op) = Cardinality(Holders(job, op)) + One("none" = op)
    <3>1. job'[w] = "none" /\ \A v \in Workers : v # w => job'[v] = job[v]
      BY <1>1
    <3>2. Cardinality(Holders(job', op)) + One(job[w] = op)
          = Cardinality(Holders(job, op)) + One(job'[w] = op)
      BY <3>1, CountHolders
    <3> QED BY ONLY <3>1, <3>2
  <2>2. One("none" = op) = 0
    BY OpsAssumption DEF One
  <2>3. /\ UnderWay(op) = Cardinality(At(jobs, op)) + Cardinality(Holders(job, op)) + One(picked = op)
        /\ UnderWay(op)' = Cardinality(At(jobs, op)) + Cardinality(Holders(job', op)) + One(picked = op)
    BY <1>1, UnderWayIs, UnderWayIsNext DEF Inv
  <2>4. /\ Cardinality(At(jobs, op)) \in Nat /\ Cardinality(Holders(job', op)) \in Nat
        /\ Cardinality(Holders(job, op)) \in Nat
        /\ One(picked = op) \in Nat /\ One(job[w] = op) \in Nat
    BY CountTypes DEF One, Inv, TypeOK
  <2>5. count'[op] = count[op] + One(job[w] = op) /\ count[op] \in Nat
    BY <1>1 DEF One
  <2>6. count'[op] + UnderWay(op)' = count[op] + UnderWay(op)
    BY ONLY <2>1, <2>2, <2>3, <2>4, <2>5
  <2> QED BY <2>6 DEF Seen
<1> QED BY <1>1, <1>2 DEF Kept

\* All other steps leave the books alone.
LEMMA QuietBooks ==
  ASSUME UNCHANGED <<jobs, job, picked, count, offered, dropped>>
  PROVE  Kept
BY DEF Kept, Seen, UnderWay

\* A step that keeps the books in one of these ways keeps them balanced.
LEMMA BooksBalance ==
  ASSUME Inv, Inv', JobsAccounted, Kept \/ \E x \in Ops : Taken(x) \/ Lost(x)
  PROVE  JobsAccounted'
<1>1. \A op \in Ops : Seen(op) \in Nat /\ Seen(op)' \in Nat /\ offered[op] \in Nat
                    /\ Seen(op) <= offered[op]
  BY SeenType DEF Inv, TypeOK, JobsAccounted, Seen
<1>2. /\ offered \in [Ops -> Nat] /\ offered' \in [Ops -> Nat]
      /\ dropped \in Nat /\ dropped' \in Nat /\ IsFiniteSet(Ops)
  BY OpsAssumption DEF Inv, TypeOK
<1> DEFINE O == SumFunctionOnSet(offered, Ops)
           P == SumFunctionOnSet(offered', Ops)
           X == SumFunctionOnSet(SeenAll, Ops)
           Y == SumFunctionOnSet(SeenAll', Ops)
<1>3. O = dropped + X
  <2>1. DOMAIN offered = Ops /\ DOMAIN SeenAll = Ops
    BY <1>2 DEF SeenAll
  <2>2. SumFunction(offered) = dropped + SumFunction(SeenAll)
    BY DEF JobsAccounted, SeenAll, Seen
  <2> QED BY <2>1, <2>2, SumOnDomain
<1>4. /\ \A op \in Ops : SeenAll[op] = Seen(op) /\ SeenAll'[op] = Seen(op)'
      /\ X \in Nat /\ Y \in Nat /\ O \in Nat /\ P \in Nat
  <2>1. \A op \in Ops : SeenAll[op] = Seen(op) /\ SeenAll'[op] = Seen(op)'
    BY DEF SeenAll
  <2> QED BY <1>1, <1>2, <2>1, SumIsNatural
<1>5. (\A op \in Ops : Seen(op)' <= offered'[op]) /\ P = dropped' + Y
  <2>1. CASE Kept
    <3>1. SeenAll' = SeenAll
      <4>1. SeenAll' = [op \in Ops |-> Seen(op)']
        BY DEF SeenAll
      <4> QED BY <2>1, <4>1 DEF Kept, SeenAll
    <3> QED BY <1>1, <1>3, <2>1, <3>1 DEF Kept
  <2>2. ASSUME NEW x \in Ops, Taken(x)
        PROVE  (\A op \in Ops : Seen(op)' <= offered'[op]) /\ P = dropped' + Y
    <3>1. offered'[x] = offered[x] + 1 /\ \A op \in Ops : op # x => offered'[op] = offered[op]
      BY <1>2, <2>2 DEF Taken
    <3>2. P = O + 1
      BY <1>2, <3>1, SumAddsOne
    <3>3. SeenAll'[x] = SeenAll[x] + 1 /\ \A op \in Ops : op # x => SeenAll'[op] = SeenAll[op]
      BY <1>4, <2>2 DEF Taken
    <3>4. \A op \in Ops : SeenAll[op] \in Nat
      BY <1>1, <1>4
    <3>5. Y = X + 1
      BY <1>2, <3>3, <3>4, SumAddsOne
    <3>6. \A op \in Ops : Seen(op)' <= offered'[op]
      BY <1>1, <2>2, <3>1 DEF Taken
    <3>7. dropped' = dropped
      BY <2>2 DEF Taken
    <3> HIDE DEF O, P, X, Y
    <3> QED BY <1>2, <1>3, <1>4, <3>2, <3>5, <3>6, <3>7
  <2>3. ASSUME NEW x \in Ops, Lost(x)
        PROVE  (\A op \in Ops : Seen(op)' <= offered'[op]) /\ P = dropped' + Y
    <3>1. SeenAll[x] = SeenAll'[x] + 1 /\ \A op \in Ops : op # x => SeenAll[op] = SeenAll'[op]
      BY <1>4, <2>3 DEF Lost
    <3>2. \A op \in Ops : SeenAll'[op] \in Nat
      BY <1>1, <1>4
    <3>3. X = Y + 1
      BY <1>2, <3>1, <3>2, SumAddsOne
    <3>4. \A op \in Ops : Seen(op)' <= offered'[op]
      BY <1>1, <2>3 DEF Lost
    <3>5. dropped' = dropped + 1 /\ P = O
      BY <2>3 DEF Lost
    <3> HIDE DEF O, P, X, Y
    <3> QED BY <1>2, <1>3, <1>4, <3>3, <3>4, <3>5
  <2> QED BY <2>1, <2>2, <2>3
<1>6. SumFunction(offered') = dropped' + SumFunction(SeenAll')
  <2>1. DOMAIN offered' = Ops /\ DOMAIN SeenAll' = Ops
    BY <1>2 DEF SeenAll
  <2> QED BY <1>5, <2>1, SumOnDomain
<1> QED BY <1>5, <1>6 DEF JobsAccounted, SeenAll, Seen

\* Every step keeps the books balanced.
LEMMA StepAccounted ==
  ASSUME Inv, Inv', JobsAccounted, [Next]_vars
  PROVE  JobsAccounted'
<1>1. CASE TakeTick \/ Offer
  BY <1>1, TakeTickBooks, OfferBooks, BooksBalance
<1>2. ASSUME NEW w \in Workers, Take(w) \/ Record(w) PROVE JobsAccounted'
  BY <1>2, TakeBooks, RecordBooks, BooksBalance
<1>3. CASE UNCHANGED <<jobs, job, picked, count, offered, dropped>>
  BY <1>3, QuietBooks, BooksBalance
<1>4. ASSUME NEW w \in Workers, FireEnds(w, TRUE) \/ FireEnds(w, FALSE) \/ WorkerExits(w)
      PROVE  JobsAccounted'
  BY <1>3, <1>4 DEF FireEnds, WorkerExits, pacerVars, queueVars
<1>5. CASE SeedDevice \/ Seeded \/ BeginSegment \/ PaceReturns \/ RunReturns \/ EndSegment
           \/ TickerFires \/ Cancel
  BY <1>3, <1>5 DEF SeedDevice, Seeded, BeginSegment, PaceReturns, RunReturns, EndSegment,
                    TickerFires, Cancel, pacerVars, queueVars, workVars
<1>6. CASE UNCHANGED vars
  BY <1>3, <1>6 DEF vars, pacerVars, queueVars, workVars
<1> QED BY <1>1, <1>2, <1>4, <1>5, <1>6 DEF Next, Pacer, Worker, Returned

\* No job gets lost between the pacer, the channel, the workers and the statistics: every
\* tick the pacer has turned into a job is counted exactly once, as dropped, as a sample
\* or as under way, for any mix of operations and any number of workers, also when the
\* run is cancelled or the service answers nothing.
THEOREM NoJobIsLost == Spec => []JobsAccounted
<1>1. Init => JobsAccounted
  <2> SUFFICES ASSUME Init PROVE JobsAccounted
    OBVIOUS
  <2>1. TypeOK
    BY InitInv DEF Inv
  <2>2. ASSUME NEW op \in Ops PROVE Seen(op) = 0 /\ offered[op] = 0
    <3>1. At(jobs, op) = {} /\ Holders(job, op) = {} /\ picked # op
      BY OpsAssumption DEF Init, At, Holders
    <3>2. Cardinality(At(jobs, op)) = 0 /\ Cardinality(Holders(job, op)) = 0 /\ One(picked = op) = 0
      BY <3>1, FS_EmptySet DEF One
    <3>3. count[op] = 0 /\ offered[op] = 0
      BY DEF Init
    <3> QED BY <2>1, <3>2, <3>3, UnderWayIs DEF Seen
  <2>3. DOMAIN offered = Ops /\ DOMAIN SeenAll = Ops /\ dropped = 0
        /\ \A op \in Ops : SeenAll[op] = 0
    BY <2>2 DEF Init, SeenAll
  <2>4. SumFunction(offered) = 0 /\ SumFunction(SeenAll) = 0
    BY <2>2, <2>3, OpsAssumption, SumOnDomain, SumOfZero
  <2>5. SumFunction(offered) = dropped + SumFunction(SeenAll)
    BY <2>3, <2>4
  <2> QED BY <2>2, <2>5 DEF JobsAccounted, SeenAll, Seen
<1>2. Inv /\ Inv' /\ JobsAccounted /\ [Next]_vars => JobsAccounted'
  BY StepAccounted
<1> QED BY <1>1, <1>2, Invariance, PTL DEF Spec

-----------------------------------------------------------------------------
(* Run gets done.                                                             *)

\* What a worker still has before it once the channel is closed: to leave, to record, to
\* hear of its request.  A job in the channel is a job to take, fire and record.
ToDo == [w \in Workers |-> CASE worker[w] = "exited" -> 0 [] worker[w] = "idle" -> 1
                             [] worker[w] = "record" -> 2 [] OTHER -> 3]
ToDoOfAll == SumFunctionOnSet(ToDo, Workers)
ToReturn == IF run = "wait" THEN 1 ELSE 0
WaitLeft == 3 * Len(jobs) + ToDoOfAll + ToReturn

\* A step of a worker or of Run while it waits for the workers.
Waiting == RunReturns \/ \E w \in Workers : Worker(w) \/ FireEnds(w, TRUE)

\* w has something to take, to wait for the end of, to record, or is free to leave.
WorkerMayStep(w) == worker[w] \in {"fire", "record"} \/ (worker[w] = "idle" /\ (jobs # << >> \/ closed))

\* While Run waits, a worker can go on, or Run can.
WaitMoves == run = "wait" => AllExited \/ \E w \in Workers : WorkerMayStep(w)

\* No step adds to what is left, and those of the workers and of Run take from it.
WaitShrinks == run = "wait" => WaitLeft' <= WaitLeft /\ (Waiting => WaitLeft' < WaitLeft)
WaitGetsShorter == [][WaitShrinks]_vars

\* What is left is a number.
LEMMA ToDoTypes ==
  ASSUME TypeOK, TypeOK'
  PROVE  /\ ToDoOfAll \in Nat /\ ToDoOfAll' \in Nat
         /\ Len(jobs) \in Nat /\ Len(jobs') \in Nat
         /\ \A w \in Workers : ToDo[w] \in Nat /\ ToDo'[w] \in Nat
<1>1. \A w \in Workers : ToDo[w] \in Nat /\ ToDo'[w] \in Nat
  BY DEF ToDo, TypeOK
<1>2. PICK f, g : f = ToDo /\ g = ToDo'
  OBVIOUS
<1>3. SumFunctionOnSet(f, Workers) \in Nat /\ SumFunctionOnSet(g, Workers) \in Nat
  BY <1>1, <1>2, WorkersAssumption, SumIsNatural
<1>4. ToDoOfAll = SumFunctionOnSet(f, Workers) /\ ToDoOfAll' = SumFunctionOnSet(g, Workers)
  BY <1>2 DEF ToDoOfAll
<1>5. jobs \in Seq(Ops) /\ jobs' \in Seq(Ops)
  BY DEF TypeOK
<1>6. Len(jobs) \in Nat /\ Len(jobs') \in Nat
  BY <1>5
<1> QED BY <1>1, <1>3, <1>4, <1>6

\* What one worker does changes the sum by as much.
LEMMA ToDoMoves ==
  ASSUME TypeOK, TypeOK', NEW w \in Workers, \A v \in Workers : v # w => worker'[v] = worker[v]
  PROVE  ToDoOfAll' + ToDo[w] = ToDoOfAll + ToDo'[w]
<1>1. PICK f, g : f = ToDo /\ g = ToDo'
  OBVIOUS
<1>2. \A v \in Workers : f[v] \in Nat /\ g[v] \in Nat
  BY <1>1 DEF ToDo, TypeOK
<1>3. \A v \in Workers : v # w => g[v] = f[v]
  BY <1>1 DEF ToDo
<1>4. SumFunctionOnSet(g, Workers) + f[w] = SumFunctionOnSet(f, Workers) + g[w]
  BY ONLY <1>2, <1>3, WorkersAssumption, SumMoves
<1>5. ToDoOfAll = SumFunctionOnSet(f, Workers) /\ ToDoOfAll' = SumFunctionOnSet(g, Workers)
  BY <1>1 DEF ToDoOfAll
<1> QED BY <1>1, <1>4, <1>5

\* A worker takes a job, hears of it, records it or leaves.
LEMMA WorkerShrinks ==
  ASSUME Inv, Inv', NEW w \in Workers, Worker(w) \/ FireEnds(w, TRUE)
  PROVE  WaitLeft' < WaitLeft
<1>1. TypeOK /\ TypeOK'
  BY DEF Inv
<1>2. run' = run /\ \A v \in Workers : v # w => worker'[v] = worker[v]
  BY <1>1 DEF Worker, Take, FireEnds, Record, WorkerExits, TypeOK
<1>3. ToDoOfAll' + ToDo[w] = ToDoOfAll + ToDo'[w]
  BY <1>1, <1>2, ToDoMoves
<1>4. 3 * Len(jobs') + ToDo'[w] < 3 * Len(jobs) + ToDo[w]
  <2>1. CASE Take(w)
    <3>1. Len(jobs) \in Nat /\ Len(jobs') = Len(jobs) - 1
      BY <1>1, <2>1 DEF Take, TypeOK
    <3>2. ToDo[w] = 1 /\ ToDo'[w] \in 2..3
      BY <1>1, <2>1 DEF Take, TypeOK, ToDo
    <3> QED BY ONLY <3>1, <3>2
  <2>2. CASE FireEnds(w, TRUE) \/ FireEnds(w, FALSE) \/ Record(w) \/ WorkerExits(w)
    <3>1. jobs' = jobs /\ Len(jobs) \in Nat
      BY <1>1, <2>2 DEF FireEnds, Record, WorkerExits, queueVars, TypeOK
    <3>2. ToDo[w] \in Nat /\ ToDo'[w] \in Nat /\ ToDo'[w] < ToDo[w]
      <4>1. \/ worker[w] = "fire" /\ worker'[w] = "record"
            \/ worker[w] = "record" /\ worker'[w] = "idle"
            \/ worker[w] = "idle" /\ worker'[w] = "exited"
        BY <1>1, <2>2 DEF FireEnds, Record, WorkerExits, TypeOK
      <4> QED BY ONLY <4>1 DEF ToDo
    <3> QED BY <3>1, <3>2
  <2> QED BY <2>1, <2>2 DEF Worker
<1>5. ToReturn' = ToReturn /\ ToReturn \in Nat
  BY <1>2 DEF ToReturn
<1>6. /\ Len(jobs) \in Nat /\ Len(jobs') \in Nat /\ ToDo[w] \in Nat /\ ToDo'[w] \in Nat
      /\ ToDoOfAll \in Nat /\ ToDoOfAll' \in Nat
  BY <1>1, ToDoTypes
<1>7. ASSUME NEW l \in Nat, NEW m \in Nat, NEW a \in Nat, NEW b \in Nat, NEW s \in Nat,
             NEW t \in Nat, NEW r \in Nat, t + a = s + b, 3 * m + b < 3 * l + a
      PROVE  3 * m + t + r < 3 * l + s + r
  BY ONLY <1>7
<1>8. 3 * Len(jobs') + ToDoOfAll' + ToReturn < 3 * Len(jobs) + ToDoOfAll + ToReturn
  BY ONLY <1>3, <1>4, <1>5, <1>6, <1>7
<1> QED BY <1>5, <1>8 DEF WaitLeft

\* Every step while Run waits.
LEMMA StepShrinks ==
  ASSUME Inv, Inv', [Next]_vars
  PROVE  WaitShrinks
<1> SUFFICES ASSUME run = "wait"
             PROVE  WaitLeft' <= WaitLeft /\ (Waiting => WaitLeft' < WaitLeft)
  BY DEF WaitShrinks
<1>1. WaitLeft \in Nat /\ WaitLeft' \in Nat
  <2>1. /\ ToDoOfAll \in Nat /\ ToDoOfAll' \in Nat
        /\ Len(jobs) \in Nat /\ Len(jobs') \in Nat
    BY ToDoTypes DEF Inv
  <2>2. ToReturn \in Nat /\ ToReturn' \in Nat
    BY DEF ToReturn
  <2> QED BY <2>1, <2>2 DEF WaitLeft
<1>2. ASSUME NEW w \in Workers, Worker(w) \/ FireEnds(w, TRUE) PROVE WaitLeft' < WaitLeft
  BY <1>2, WorkerShrinks
<1>3. RunReturns => WaitLeft' < WaitLeft
  <2> SUFFICES ASSUME RunReturns PROVE WaitLeft' < WaitLeft
    OBVIOUS
  <2>1. jobs' = jobs /\ ToDoOfAll' = ToDoOfAll
    BY DEF RunReturns, queueVars, workVars, ToDoOfAll, ToDo
  <2>2. ToReturn = 1 /\ ToReturn' = 0
    BY DEF RunReturns, ToReturn
  <2>3. ToDoOfAll \in Nat /\ Len(jobs) \in Nat
    BY ToDoTypes DEF Inv
  <2> QED BY <2>1, <2>2, <2>3 DEF WaitLeft
<1>4. ~Waiting => WaitLeft' = WaitLeft
  <2> SUFFICES ASSUME ~Waiting PROVE WaitLeft' = WaitLeft
    OBVIOUS
  <2>1. pacer = "next"
    BY DEF Inv, Closing
  <2>2. TickerFires \/ Cancel \/ Returned \/ UNCHANGED vars
    BY <2>1 DEF Waiting, Next, Pacer, SeedDevice, Seeded, BeginSegment, TakeTick, Offer,
                PaceReturns, EndSegment
  <2>3. UNCHANGED <<run, jobs, worker>>
    BY <2>2 DEF TickerFires, Cancel, Returned, vars, queueVars, workVars
  <2> QED BY <2>3 DEF WaitLeft, ToDoOfAll, ToDo, ToReturn
<1>5. Waiting => WaitLeft' < WaitLeft
  BY <1>2, <1>3 DEF Waiting
<1>6. \A l, m \in Nat : m < l \/ m = l => m <= l
  OBVIOUS
<1> QED BY ONLY <1>1, <1>4, <1>5, <1>6

\* RunEnds from the moment the channel is closed, but for its fairness: for any number of
\* workers and any answers, while Run waits there is always a step of a worker or of Run;
\* there are never more of them ahead than before, and each takes one off.
THEOREM WaitGetsOn == Spec => []WaitMoves /\ WaitGetsShorter
<1>1. Inv => WaitMoves
  BY DEF Inv, TypeOK, Closing, WaitMoves, WorkerMayStep, AllExited
<1>2. Inv /\ Inv' /\ [Next]_vars => [WaitShrinks]_vars
  BY StepShrinks
<1> QED BY <1>1, <1>2, Invariance, PTL DEF Spec, WaitGetsShorter
=============================================================================
