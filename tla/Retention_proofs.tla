--------------------------- MODULE Retention_proofs ---------------------------
(* What the sorted set of a device retains, for every value of the constants: *)
(* the newest points, in their order (redisStore.Recent), and no more than a  *)
(* bound between two trims.                                                   *)
EXTENDS Ingest_proofs, WellFoundedInduction

-----------------------------------------------------------------------------
(* The order of a sorted set: by score, then by the bytes of the member.     *)

\* Members are totally ordered, oldest to newest (EncodeInto writes ts and seq
\* big-endian so that the bytes agree with the numbers).
LEMMA TotalOrder ==
  /\ \A a \in Member : ~Before(a, a)
  /\ \A a, b \in Member : a = b \/ Before(a, b) \/ Before(b, a)
  /\ \A a, b, c \in Member : Before(a, b) /\ Before(b, c) => Before(a, c)
<1>1. \A a \in Member : a.ts \in Nat /\ a.seq \in Nat /\ a.val \in Nat
  BY StampsAssumption, ValuesAssumption DEF Member
<1>2. ASSUME NEW a \in Member, NEW b \in Member, a.ts = b.ts, a.seq = b.seq, a.val = b.val
      PROVE  a = b
  BY <1>2 DEF Member
<1> HIDE DEF Member
<1> QED BY <1>1, <1>2 DEF Before

\* A finite non-empty set of members has a newest one.
LEMMA HasNewest ==
  ASSUME NEW S \in SUBSET Member, IsFiniteSet(S), S # {}
  PROVE  \E m \in S : Newer(S, m) = {}
<1> DEFINE Bad == {U \in SUBSET S : U # {} /\ \A m \in U : Newer(U, m) # {}}
<1> SUFFICES ASSUME Bad # {} PROVE FALSE
  OBVIOUS
<1>1. IsWellFoundedOn(StrictSubsetOrdering(S), SUBSET S)
  BY FS_StrictSubsetOrderingWellFounded, FS_FiniteSubsetsOfFinite
<1>2. PICK U \in Bad : \A V \in Bad : ~(<<V, U>> \in StrictSubsetOrdering(S))
  <2>1. Bad \subseteq SUBSET S
    OBVIOUS
  <2> HIDE DEF Bad
  <2> QED BY <1>1, <2>1, WFMin
<1>3. PICK x \in U : TRUE
  OBVIOUS
<1> DEFINE V == U \ {x}
<1>4. U \in SUBSET S /\ V \in SUBSET S /\ V # U
  BY <1>3
<1>5. V \notin Bad
  BY <1>2, <1>4 DEF StrictSubsetOrdering
<1>6. CASE V = {}
  <2>1. U = {x}
    BY <1>3, <1>6
  <2>2. x \in Member /\ ~Before(x, x)
    BY <1>3, TotalOrder
  <2> QED BY <2>1, <2>2 DEF Newer
<1>7. CASE V # {}
  <2>1. PICK y \in V : Newer(V, y) = {}
    BY <1>5, <1>7
  <2>2. x \in Member /\ y \in Member /\ x # y
    BY <1>3, <2>1
  <2>3. CASE Before(x, y)
    <3>1. Newer(U, y) = {}
      BY <2>1, <2>2, <2>3, TotalOrder DEF Newer
    <3> QED BY <2>1, <3>1
  <2>4. CASE Before(y, x)
    <3>1. \A z \in U : ~Before(x, z)
      BY <1>4, <2>1, <2>2, <2>4, TotalOrder DEF Newer
    <3>2. Newer(U, x) = {}
      BY <3>1 DEF Newer
    <3> QED BY <1>3, <3>2
  <2> QED BY <2>2, <2>3, <2>4, TotalOrder
<1> QED BY <1>6, <1>7

\* Every member newer than a newer one is newer.
LEMMA NewerSubset ==
  ASSUME NEW S \in SUBSET Member, NEW m \in S, NEW n \in Newer(S, m)
  PROVE  Newer(S, n) \subseteq Newer(S, m)
BY TotalOrder DEF Newer

\* The rank of a member is a number.
LEMMA RankType ==
  ASSUME NEW S, IsFiniteSet(S), NEW m
  PROVE  /\ IsFiniteSet(Newer(S, m))
         /\ Cardinality(Newer(S, m)) \in Nat
         /\ Cardinality(Newer(S, m)) <= Cardinality(S)
<1>1. Newer(S, m) \in SUBSET S
  BY DEF Newer
<1> QED BY <1>1, FS_Subset, FS_CardinalityType

\* A set of at least k members has at least k that are among its newest k.
LEMMA NewestFull ==
  ASSUME NEW S \in SUBSET Member, IsFiniteSet(S), NEW k \in Nat, k <= Cardinality(S)
  PROVE  IsFiniteSet(Newest(S, k)) /\ Cardinality(Newest(S, k)) \in Nat
         /\ k <= Cardinality(Newest(S, k))
<1> DEFINE N == Newest(S, k)
<1>1. N \in SUBSET S /\ IsFiniteSet(N) /\ Cardinality(N) \in Nat
  BY NewestSubset, FS_Subset, FS_CardinalityType
<1>2. ASSUME Cardinality(N) < k PROVE FALSE
  <2>1. S \ N # {}
    <3>1. S # N
      BY <1>1, <1>2, FS_CardinalityType
    <3> QED BY <1>1, <3>1
  <2>2. S \ N \in SUBSET Member /\ IsFiniteSet(S \ N)
    BY FS_Difference
  <2>3. PICK x \in S \ N : Newer(S \ N, x) = {}
    BY <2>1, <2>2, HasNewest
  <2>4. Newer(S, x) \in SUBSET N
    BY <2>3 DEF Newer
  <2>5. Cardinality(Newer(S, x)) <= Cardinality(N) /\ Cardinality(Newer(S, x)) \in Nat
    BY <1>1, <2>4, FS_Subset, RankType
  <2>6. Cardinality(Newer(S, x)) < k
    BY <1>1, <1>2, <2>5
  <2> QED BY <2>3, <2>6 DEF Newest
<1> QED BY <1>1, <1>2

-----------------------------------------------------------------------------
(* What a trim leaves: T is a set of members that kept the newest k of S.    *)

\* T holds members of S only, and all of the newest k.
Keeps(T, S, k) == S \subseteq Member /\ IsFiniteSet(S) /\ T \subseteq S /\ Newest(S, k) \subseteq T

\* A newest member of S keeps its rank in T.
LEMMA RankKept ==
  ASSUME NEW S, NEW T, NEW k \in Nat, Keeps(T, S, k),
         NEW m \in S, Cardinality(Newer(S, m)) < k
  PROVE  m \in T /\ Newer(T, m) = Newer(S, m)
<1> USE DEF Keeps
<1>1. m \in T
  BY DEF Newest
<1>2. ASSUME NEW n \in Newer(S, m) PROVE n \in T
  <2>1. Newer(S, n) \in SUBSET Newer(S, m)
    BY NewerSubset
  <2>2. Cardinality(Newer(S, n)) <= Cardinality(Newer(S, m))
    BY <2>1, RankType, FS_Subset
  <2>3. Cardinality(Newer(S, n)) \in Nat /\ Cardinality(Newer(S, m)) \in Nat
    BY RankType
  <2>4. Cardinality(Newer(S, n)) < k
    BY <2>2, <2>3
  <2> QED BY <2>4 DEF Newest, Newer
<1> QED BY <1>1, <1>2 DEF Newer

\* No other member of T is among the newest k of T.
LEMMA NoneMovesUp ==
  ASSUME NEW S, NEW T, NEW k \in Nat, Keeps(T, S, k),
         NEW m \in T, Cardinality(Newer(T, m)) < k
  PROVE  Cardinality(Newer(S, m)) < k
<1> USE DEF Keeps
<1> DEFINE U == Newer(S, m)
<1>1. U \in SUBSET S /\ U \in SUBSET Member /\ IsFiniteSet(U) /\ Cardinality(U) \in Nat
  BY RankType DEF Newer
<1> SUFFICES ASSUME k <= Cardinality(U) PROVE FALSE
  BY <1>1
<1>2. IsFiniteSet(Newest(U, k)) /\ Cardinality(Newest(U, k)) \in Nat
      /\ k <= Cardinality(Newest(U, k))
  BY <1>1, NewestFull
<1>3. ASSUME NEW n \in U PROVE Newer(U, n) = Newer(S, n)
  BY NewerSubset DEF Newer
<1>4. Newest(U, k) \subseteq Newest(S, k)
  BY <1>1, <1>3 DEF Newest
<1>5. Newest(U, k) \in SUBSET Newer(T, m)
  BY <1>4, NewestSubset DEF Newer
<1>6. IsFiniteSet(T)
  BY FS_Subset
<1>7. Cardinality(Newest(U, k)) <= Cardinality(Newer(T, m))
      /\ Cardinality(Newer(T, m)) \in Nat
  BY <1>5, <1>6, RankType, FS_Subset
<1> HIDE DEF U
<1> QED BY <1>2, <1>7

\* A rank up to k is held by the same members of T and of S.
LEMMA SameRanks ==
  ASSUME NEW S, NEW T, NEW k \in Nat, Keeps(T, S, k), NEW j \in 0..(k-1), NEW m
  PROVE  m \in T /\ Cardinality(Newer(T, m)) = j <=> m \in S /\ Cardinality(Newer(S, m)) = j
<1>1. ASSUME m \in T, Cardinality(Newer(T, m)) = j
      PROVE  m \in S /\ Cardinality(Newer(S, m)) = j
  <2>1. Cardinality(Newer(T, m)) < k
    BY <1>1
  <2>2. m \in S /\ Cardinality(Newer(S, m)) < k
    BY <1>1, <2>1, NoneMovesUp DEF Keeps
  <2>3. Newer(T, m) = Newer(S, m)
    BY <2>2, RankKept
  <2> QED BY <1>1, <2>2, <2>3
<1>2. ASSUME m \in S, Cardinality(Newer(S, m)) = j
      PROVE  m \in T /\ Cardinality(Newer(T, m)) = j
  <2>1. Cardinality(Newer(S, m)) < k
    BY <1>2
  <2> QED BY <1>2, <2>1, RankKept
<1> QED BY <1>1, <1>2

\* T and S have as many members, or both have at least k.
LEMMA SameLength ==
  ASSUME NEW S, NEW T, NEW k \in Nat, Keeps(T, S, k), NEW j \in 0..k
  PROVE  j <= Cardinality(T) <=> j <= Cardinality(S)
<1> USE DEF Keeps
<1>1. /\ IsFiniteSet(T) /\ Cardinality(T) <= Cardinality(S)
      /\ Cardinality(T) \in Nat /\ Cardinality(S) \in Nat
  BY FS_Subset, FS_CardinalityType
<1>2. ASSUME j <= Cardinality(S) PROVE j <= Cardinality(T)
  <2>1. Newest(S, j) \subseteq Newest(S, k)
    <3>1. ASSUME NEW m \in S, Cardinality(Newer(S, m)) < j
          PROVE  Cardinality(Newer(S, m)) < k
      BY <3>1, RankType
    <3> QED BY <3>1 DEF Newest
  <2>2. Newest(S, j) \in SUBSET T
    BY <2>1
  <2>3. j <= Cardinality(Newest(S, j)) /\ Cardinality(Newest(S, j)) \in Nat
    BY <1>2, NewestFull
  <2>4. Cardinality(Newest(S, j)) <= Cardinality(T)
    BY <1>1, <2>2, FS_Subset
  <2> QED BY <1>1, <2>3, <2>4
<1>3. ASSUME j <= Cardinality(T) PROVE j <= Cardinality(S)
  BY <1>1, <1>3
<1> QED BY <1>2, <1>3

\* The n newest of T are those of S, in the same order.
LEMMA SameRecent ==
  ASSUME NEW S, NEW T, NEW k \in Nat, Keeps(T, S, k), NEW n \in 1..k
  PROVE  Recent(T, n) = Recent(S, n)
<1>1. {j \in 1..n : j <= Cardinality(T)} = {j \in 1..n : j <= Cardinality(S)}
  <2>1. \A j \in 1..n : j \in 0..k
    OBVIOUS
  <2> QED BY <2>1, SameLength
<1>2. ASSUME NEW j \in 1..n
      PROVE  (CHOOSE m \in T : Cardinality(Newer(T, m)) = j - 1)
             = (CHOOSE m \in S : Cardinality(Newer(S, m)) = j - 1)
  <2>1. j - 1 \in 0..(k-1)
    OBVIOUS
  <2>2. \A m : m \in T /\ Cardinality(Newer(T, m)) = j - 1
               <=> m \in S /\ Cardinality(Newer(S, m)) = j - 1
    BY <2>1, SameRanks
  <2> QED BY <2>2
<1> QED BY <1>1, <1>2 DEF Recent

\* GET /devices/{id}/anomaly judges the newest points its device ever stored, newest
\* first: whatever trims and late, out-of-order or concurrent writes came before, no
\* older point stands in for a newer one and none is missing, for any number of points
\* up to the cap.
THEOREM RecentIsExact == Spec => []RecentIsNewest
<1>1. TypeInv /\ NewestRetained => RecentIsNewest
  <2> SUFFICES ASSUME TypeInv, NewestRetained, NEW d \in Devices, NEW n \in 1..Cap
               PROVE  Recent(zset[d], n) = Recent(ever[d], n)
    BY DEF RecentIsNewest
  <2>1. Keeps(zset[d], ever[d], Cap)
    BY DEF TypeInv, TypeOK, Finite, NewestRetained, Keeps
  <2> QED BY <2>1, SameRecent, CapAssumption
<1> QED BY <1>1, TypeInvariance, TrimKeepsNewest, PTL

-----------------------------------------------------------------------------
(* How many points a device holds between trims.                             *)

\* The newest k are no more than k: their ranks differ.
LEMMA NewestSize ==
  ASSUME NEW S \in SUBSET Member, IsFiniteSet(S), NEW k \in Nat
  PROVE  /\ IsFiniteSet(Newest(S, k)) /\ Cardinality(Newest(S, k)) \in Nat
         /\ Cardinality(Newest(S, k)) <= k
<1> DEFINE N == Newest(S, k)
           rank == [m \in N |-> Cardinality(Newer(S, m))]
<1>1. N \in SUBSET S /\ IsFiniteSet(N) /\ Cardinality(N) \in Nat
  BY NewestSubset, FS_Subset, FS_CardinalityType
<1>2. rank \in [N -> 0..(k-1)]
  BY RankType DEF Newest
<1>3. ASSUME NEW a \in N, NEW b \in N, Before(a, b) PROVE rank[a] # rank[b]
  <2>1. a \in Member /\ b \in Member /\ b \in Newer(S, a) /\ b \notin Newer(S, b)
    BY <1>1, <1>3, TotalOrder DEF Newer
  <2>2. Newer(S, b) \in SUBSET Newer(S, a)
    BY <1>1, <1>3, <2>1, NewerSubset
  <2>3. Cardinality(Newer(S, a)) # Cardinality(Newer(S, b))
    BY <2>1, <2>2, RankType, FS_Subset
  <2> QED BY <2>3
<1>4. rank \in Injection(N, 0..(k-1))
  <2>1. ASSUME NEW a \in N, NEW b \in N, a # b PROVE rank[a] # rank[b]
    <3>1. Before(a, b) \/ Before(b, a)
      BY <1>1, <2>1, TotalOrder
    <3> HIDE DEF rank
    <3> QED BY <1>3, <3>1
  <2> HIDE DEF rank
  <2> QED BY <1>2, <2>1 DEF Injection, IsInjective
<1>5. IsFiniteSet(0..(k-1)) /\ Cardinality(0..(k-1)) = k
  <2>1. 0 \in Int /\ k - 1 \in Int /\ (IF 0 > k - 1 THEN 0 ELSE (k - 1) - 0 + 1) = k
    OBVIOUS
  <2> QED BY <2>1, FS_Interval
<1> HIDE DEF N, rank
<1>6. Cardinality(N) <= k
  BY <1>4, <1>5, FS_Injection
<1> QED BY <1>1, <1>6 DEF N

K == Cardinality(Requests)

\* One instance serves one device, and nothing but an eviction goes wrong: a trim that
\* is counted reaches Redis and is executed.
OneDevice == \A d, e \in Devices : d = e
TrimsAreExecuted == FaultKinds \subseteq {"evict"}

\* Requests that were counted and whose ZADD Redis has not executed; and those that sit
\* on a trim.
AddPending ==
  {r \in Requests : pc[r] = "connect" \/ (wire[r] # << >> /\ Head(wire[r]) = "zadd")}
TrimPending == {r \in Requests : trim[r] /\ (pc[r] = "connect" \/ wire[r] # << >>)}

\* Nothing is missing at the end of a pipeline, and no batch is too large.
WholePipelines ==
  \A r \in Requests :
    /\ wire[r] # << >> =>
         wire[r] \in IF trim[r] THEN {<<"zadd", "trim">>, <<"trim">>} ELSE {<<"zadd">>}
    /\ size[r] <= MaxBatch

\* Every trim still to come pays for TrimEvery batches, and the writes counted since the
\* last one pay for themselves; K - 1 batches may have been counted before a trim and
\* be added after it.
Debt ==
  \A i \in Instances, d \in Devices :
    Cardinality(zset[d]) + MaxBatch * Cardinality(AddPending)
      <= Cap + MaxBatch * (TrimEvery * Cardinality(TrimPending) + (writes[i] % TrimEvery) + K - 1)

\* While all requests sit on trims, none has counted a write since the last.
AllTrimming ==
  \A i \in Instances : Cardinality(TrimPending) = K => writes[i] % TrimEvery = 0

BoundInv == WholePipelines /\ Debt /\ AllTrimming

\* A remainder is below its divisor, and there is only one.
LEMMA Remainder ==
  ASSUME NEW w \in Nat, NEW T \in Nat \ {0}
  PROVE  w % T \in Nat /\ w % T < T /\ w \div T \in Nat /\ w = T * (w \div T) + (w % T)
OBVIOUS

\* A quotient grows by nothing or by one with its dividend.
LEMMA Quotients ==
  ASSUME NEW T \in Nat \ {0}, NEW q \in Nat, NEW m \in Nat, NEW p \in Nat, NEW n \in Nat,
         m < T, n < T, T * q + m + 1 = T * p + n
  PROVE  n = m + 1 \/ (n = 0 /\ m = T - 1)
<1>1. T * (p - q) = m + 1 - n
  OBVIOUS
<1>2. CASE p - q <= -1
  <2>1. T * (p - q) <= T * (-1)
    BY <1>2
  <2> QED BY <1>1, <2>1
<1>3. CASE p - q >= 2
  <2>1. T * (p - q) >= T * 2
    BY <1>3
  <2> QED BY <1>1, <2>1
<1>4. CASE p - q = 0
  BY <1>1, <1>4
<1>5. CASE p - q = 1
  BY <1>1, <1>5
<1> QED BY <1>2, <1>3, <1>4, <1>5

\* Writes are counted in periods of TrimEvery.
LEMMA Period ==
  ASSUME NEW w \in Nat
  PROVE  /\ w % TrimEvery \in Nat /\ w % TrimEvery < TrimEvery
         /\ Trims(w + 1) => (w % TrimEvery) + 1 = TrimEvery /\ (w + 1) % TrimEvery = 0
         /\ ~Trims(w + 1) => (w + 1) % TrimEvery = (w % TrimEvery) + 1
<1> DEFINE m == w % TrimEvery
           n == (w + 1) % TrimEvery
<1>1. m \in Nat /\ m < TrimEvery /\ n \in Nat /\ n < TrimEvery
  BY TrimAssumption, Remainder
<1>2. n = m + 1 \/ (n = 0 /\ m = TrimEvery - 1)
  <2>1. PICK q \in Nat : w = TrimEvery * q + m
    BY TrimAssumption, Remainder
  <2>2. PICK p \in Nat : w + 1 = TrimEvery * p + n
    <3> DEFINE v == w + 1
    <3>1. v \in Nat
      OBVIOUS
    <3> HIDE DEF v
    <3>2. v \div TrimEvery \in Nat /\ v = TrimEvery * (v \div TrimEvery) + (v % TrimEvery)
      BY <3>1, TrimAssumption, Remainder
    <3>3. \E p \in Nat : v = TrimEvery * p + (v % TrimEvery)
      BY <3>2
    <3> QED BY <3>3 DEF v
  <2>3. TrimEvery * q + m + 1 = TrimEvery * p + n
    BY <2>1, <2>2
  <2> HIDE DEF m, n
  <2> QED BY <1>1, <2>3, TrimAssumption, Quotients
<1>3. Trims(w + 1) <=> n = 0
  BY DEF Trims
<1> HIDE DEF m, n
<1>4. /\ n = 0 => m + 1 = TrimEvery
      /\ n # 0 => n = m + 1
  BY <1>1, <1>2, TrimAssumption
<1> QED BY <1>1, <1>3, <1>4 DEF m, n

\* There is a request.
LEMMA SomeRequest ==
  ASSUME IsFiniteSet(Requests), Requests # {}
  PROVE  K > 0
BY FS_EmptySet, FS_CardinalityType DEF K

\* A write is counted.
LEMMA CountAdds ==
  ASSUME NEW z \in Nat, NEW u \in Nat, NEW p \in Nat, NEW c \in Nat, NEW s \in Nat,
         NEW B \in Nat, NEW T \in Nat, NEW C \in Nat,
         z + B * u <= C + B * (T * p + c + s)
  PROVE  /\ z + B * (u + 1) <= C + B * (T * p + (c + 1) + s)
         /\ c + 1 = T => z + B * (u + 1) <= C + B * (T * (p + 1) + 0 + s)
OBVIOUS

\* A batch is added.
LEMMA AddPays ==
  ASSUME NEW z \in Nat, NEW u \in Nat, NEW b \in Nat, NEW y \in Nat, NEW n \in Nat,
         NEW B \in Nat, z + B * (u + 1) <= n, y <= z + b, b <= B
  PROVE  y + B * u <= n
OBVIOUS

\* A trim is executed.
LEMMA TrimPays ==
  ASSUME NEW z \in Nat, NEW u \in Nat, NEW p \in Nat, NEW c \in Nat, NEW s \in Nat,
         NEW B \in Nat, NEW T \in Nat, NEW C \in Nat, z <= C, u <= s
  PROVE  z + B * u <= C + B * (T * p + c + s)
OBVIOUS

\* What may be owed is a number.
LEMMA DebtType ==
  ASSUME NEW p \in Nat, NEW c \in Nat, NEW k \in Nat, k > 0,
         NEW T \in Nat, NEW B \in Nat, NEW C \in Nat
  PROVE  C + B * (T * p + c + k - 1) \in Nat
<1>1. T * p + c + k - 1 \in Nat
  OBVIOUS
<1> DEFINE e == T * p + c + k - 1
<1> HIDE DEF e
<1>2. e \in Nat => C + B * e \in Nat
  OBVIOUS
<1> QED BY <1>1, <1>2 DEF e

\* What is owed at most.
LEMMA MostDebt ==
  ASSUME NEW p \in Nat, NEW c \in Nat, NEW k \in Nat, NEW T \in Nat, NEW B \in Nat,
         NEW z \in Nat, NEW u \in Nat, NEW C \in Nat,
         k > 0, p <= k, c < T, p = k => c = 0, z + B * u <= C + B * (T * p + c + k - 1)
  PROVE  z <= C + (k * T + k - 1) * B
OBVIOUS

\* A fresh process owes nothing.
LEMMA InitBoundInv ==
  ASSUME IsFiniteSet(Requests), Requests # {}, Init
  PROVE  BoundInv
<1>1. AddPending = {} /\ TrimPending = {} /\ Cardinality(AddPending) = 0
      /\ Cardinality(TrimPending) = 0
  <2>1. AddPending = {} /\ TrimPending = {}
    BY DEF Init, AddPending, TrimPending
  <2> QED BY <2>1, FS_EmptySet
<1>2. K \in Nat /\ K > 0
  BY FS_CardinalityType, FS_EmptySet DEF K
<1>3. \A d \in Devices : Cardinality(zset[d]) = 0
  BY FS_EmptySet DEF Init
<1>4. 0 % TrimEvery = 0
  BY TrimAssumption
<1>5. Debt
  <2> SUFFICES ASSUME NEW i \in Instances, NEW d \in Devices
               PROVE  Cardinality(zset[d]) + MaxBatch * Cardinality(AddPending)
                        <= Cap + MaxBatch * (TrimEvery * Cardinality(TrimPending)
                                             + (writes[i] % TrimEvery) + K - 1)
    BY DEF Debt
  <2>1. writes[i] = 0
    BY DEF Init
  <2>2. MaxBatch * (K - 1) \in Nat
    BY <1>2, BatchAssumption
  <2> QED BY <1>1, <1>2, <1>3, <1>4, <2>1, <2>2, CapAssumption, TrimAssumption, BatchAssumption
<1>6. AllTrimming
  BY <1>4 DEF Init, AllTrimming
<1>7. WholePipelines
  BY BatchAssumption DEF Init, WholePipelines
<1> QED BY <1>5, <1>6, <1>7 DEF BoundInv

\* Finitely many requests are pending, and at most all of them sit on a trim.
LEMMA PendingFinite ==
  ASSUME IsFiniteSet(Requests)
  PROVE  /\ IsFiniteSet(AddPending) /\ Cardinality(AddPending) \in Nat
         /\ IsFiniteSet(TrimPending) /\ Cardinality(TrimPending) \in Nat
         /\ K \in Nat /\ Cardinality(TrimPending) <= K
<1>1. AddPending \in SUBSET Requests /\ TrimPending \in SUBSET Requests
  BY DEF AddPending, TrimPending
<1> QED BY <1>1, FS_Subset, FS_CardinalityType DEF K

\* A step that counts nothing and executes nothing leaves every debt as it is.
LEMMA DebtKept ==
  ASSUME Debt, AllTrimming, AddPending' = AddPending, TrimPending' = TrimPending,
         writes' = writes, zset' = zset
  PROVE  Debt' /\ AllTrimming'
BY DEF Debt, AllTrimming, K

\* The handler's steps before and after the two commands.
LEMMA QuietBoundInv ==
  ASSUME TypeInv, BoundInv, NEW r \in Requests,
         Receive(r) \/ EncodeMember(r) \/ Send(r) \/ Accept(r) \/ Reject(r) \/ Finish(r)
  PROVE  BoundInv'
<1> USE DEF TypeInv, TypeOK, instanceVars, storeVars, callVars, batchVars, connVars
<1>1. CASE Receive(r)
  <2>1. PICK batch \in Batch : size' = [size EXCEPT ![r] = Len(batch)]
    BY <1>1 DEF Receive
  <2>2. Len(batch) <= MaxBatch
    BY BatchAssumption DEF Batch
  <2>3. WholePipelines'
    BY <1>1, <2>1, <2>2 DEF Receive, BoundInv, WholePipelines
  <2>4. AddPending' = AddPending /\ TrimPending' = TrimPending
    BY <1>1 DEF Receive, AddPending, TrimPending
  <2> QED BY <1>1, <2>3, <2>4, DebtKept DEF Receive, BoundInv
<1>2. CASE EncodeMember(r)
  <2>1. UNCHANGED <<pc, wire, trim, size, writes, zset>>
    BY <1>2 DEF EncodeMember
  <2>2. AddPending' = AddPending /\ TrimPending' = TrimPending /\ WholePipelines'
    BY <2>1 DEF AddPending, TrimPending, BoundInv, WholePipelines
  <2> QED BY <2>1, <2>2, DebtKept DEF BoundInv
<1>3. CASE Send(r)
  <2>1. wire'[r] \in IF trim[r] THEN {<<"zadd", "trim">>} ELSE {<<"zadd">>}
    BY <1>3 DEF Send, Commands
  <2>2. wire'[r] # << >> /\ Head(wire'[r]) = "zadd"
    BY <2>1, PipelineHeads, PipelineDistinct
  <2>3. /\ pc[r] = "connect" /\ pc'[r] = "sent" /\ trim' = trim /\ size' = size
        /\ \A q \in Requests \ {r} : pc'[q] = pc[q] /\ wire'[q] = wire[q]
        /\ writes' = writes /\ zset' = zset
    BY <1>3 DEF Send
  <2>4. AddPending' = AddPending
    BY <2>2, <2>3 DEF AddPending
  <2>5. TrimPending' = TrimPending
    BY <2>2, <2>3 DEF TrimPending
  <2>6. WholePipelines'
    BY <2>1, <2>3 DEF BoundInv, WholePipelines
  <2> QED BY <2>3, <2>4, <2>5, <2>6, DebtKept DEF BoundInv
<1>4. CASE Accept(r) \/ Reject(r)
  <2>1. /\ pc[r] = "sent" /\ pc'[r] \in {"accepted", "rejected"}
        /\ \A q \in Requests \ {r} : pc'[q] = pc[q]
        /\ UNCHANGED <<wire, trim, size, writes, zset>>
    BY <1>4 DEF Accept, Reject
  <2>2. \A q \in Requests : pc'[q] = "connect" <=> pc[q] = "connect"
    BY <2>1
  <2>3. AddPending' = AddPending /\ TrimPending' = TrimPending /\ WholePipelines'
    BY <2>1, <2>2 DEF AddPending, TrimPending, BoundInv, WholePipelines
  <2> QED BY <2>1, <2>3, DebtKept DEF BoundInv
<1>5. CASE Finish(r)
  <2>1. /\ wire[r] = << >> /\ pc[r] # "connect" /\ pc'[r] = "idle" /\ size'[r] = 0
        /\ \A q \in Requests \ {r} : pc'[q] = pc[q] /\ trim'[q] = trim[q] /\ size'[q] = size[q]
        /\ UNCHANGED <<wire, writes, zset>>
    BY <1>5 DEF Finish
  <2>2. AddPending' = AddPending /\ TrimPending' = TrimPending
    BY <2>1 DEF AddPending, TrimPending
  <2>3. WholePipelines'
    <3>1. wire'[r] = << >> /\ size'[r] <= MaxBatch
      BY <2>1, BatchAssumption
    <3>2. WholePipelines
      BY DEF BoundInv
    <3> QED BY ONLY <2>1, <3>1, <3>2 DEF WholePipelines
  <2> QED BY <2>1, <2>2, <2>3, DebtKept DEF BoundInv
<1> QED BY <1>1, <1>2, <1>3, <1>4, <1>5

\* A write is counted: it may add a batch, and its trim, if it has one, pays for a period.
LEMMA CountBoundInv ==
  ASSUME OneInstance, IsFiniteSet(Requests), Requests # {}, TypeInv, BoundInv,
         NEW r \in Requests, CountWrite(r)
  PROVE  BoundInv'
<1> USE DEF TypeInv, TypeOK, instanceVars, storeVars, callVars, batchVars, connVars
<1>1. /\ pc[r] = "encode" /\ pc'[r] = "connect" /\ wire[r] = << >>
      /\ \A q \in Requests \ {r} : pc'[q] = pc[q] /\ trim'[q] = trim[q]
      /\ trim'[r] = Trims(writes[inst[r]] + 1)
      /\ UNCHANGED <<wire, size, zset>>
  BY DEF CountWrite, WireShape, Trims
<1>2. inst[r] \in Instances
  BY <1>1 DEF Placed
<1>3. AddPending' = AddPending \cup {r} /\ r \notin AddPending
  BY <1>1 DEF AddPending
<1>4. /\ TrimPending' = IF Trims(writes[inst[r]] + 1) THEN TrimPending \cup {r} ELSE TrimPending
      /\ r \notin TrimPending
  BY <1>1 DEF TrimPending
<1>5. /\ Cardinality(AddPending') = Cardinality(AddPending) + 1
      /\ Cardinality(TrimPending') = IF Trims(writes[inst[r]] + 1) THEN Cardinality(TrimPending) + 1
                                     ELSE Cardinality(TrimPending)
  BY <1>3, <1>4, PendingFinite, FS_AddElement
<1>6. Cardinality(TrimPending) < K
  <2>1. TrimPending \in SUBSET Requests /\ TrimPending # Requests
    BY <1>4 DEF TrimPending
  <2>2. Cardinality(TrimPending) # K
    BY <2>1, FS_Subset DEF K
  <2> QED BY <2>2, PendingFinite
<1>7. ASSUME NEW i \in Instances
      PROVE  /\ i = inst[r] /\ writes[i] \in Nat /\ writes'[i] = writes[i] + 1
             /\ writes[i] % TrimEvery \in Nat
             /\ Trims(writes[i] + 1) =>
                  (writes[i] % TrimEvery) + 1 = TrimEvery /\ writes'[i] % TrimEvery = 0
             /\ ~Trims(writes[i] + 1) => writes'[i] % TrimEvery = (writes[i] % TrimEvery) + 1
  <2>1. i = inst[r] /\ writes[i] \in Nat
    BY <1>2 DEF OneInstance
  <2>2. writes'[i] = writes[i] + 1
    BY <2>1 DEF CountWrite
  <2> QED BY <2>1, <2>2, Period
<1>8. Debt'
  <2> SUFFICES ASSUME NEW i \in Instances, NEW d \in Devices
               PROVE  Cardinality(zset'[d]) + MaxBatch * Cardinality(AddPending')
                        <= Cap + MaxBatch * (TrimEvery * Cardinality(TrimPending')
                                             + (writes'[i] % TrimEvery) + K - 1)
    BY DEF Debt, K
  <2> DEFINE z == Cardinality(zset[d])
             u == Cardinality(AddPending)
             p == Cardinality(TrimPending)
             c == writes[i] % TrimEvery
             s == K - 1
  <2>1. z \in Nat /\ u \in Nat /\ p \in Nat /\ c \in Nat /\ s \in Nat
    <3>1. IsFiniteSet(zset[d])
      BY FS_Subset DEF Finite
    <3>2. z \in Nat /\ u \in Nat /\ p \in Nat /\ c \in Nat /\ K \in Nat
      BY <1>7, <3>1, PendingFinite, FS_CardinalityType
    <3>3. p < K
      BY <1>6
    <3> HIDE DEF z, u, p, c
    <3> QED BY <3>2, <3>3
  <2>2. z + MaxBatch * u <= Cap + MaxBatch * (TrimEvery * p + c + s)
    <3>1. z + MaxBatch * u <= Cap + MaxBatch * (TrimEvery * p + c + K - 1)
      BY DEF BoundInv, Debt
    <3>2. K \in Nat
      BY PendingFinite
    <3> HIDE DEF z, u, p, c
    <3> QED BY <2>1, <3>1, <3>2, CapAssumption, TrimAssumption, BatchAssumption
  <2> HIDE DEF z, u, p, c, s
  <2>3. /\ z + MaxBatch * (u + 1) <= Cap + MaxBatch * (TrimEvery * p + (c + 1) + s)
        /\ c + 1 = TrimEvery =>
             z + MaxBatch * (u + 1) <= Cap + MaxBatch * (TrimEvery * (p + 1) + 0 + s)
    BY <2>1, <2>2, CountAdds, CapAssumption, TrimAssumption, BatchAssumption
  <2>4. zset'[d] = zset[d]
    BY <1>1
  <2>5. CASE Trims(writes[i] + 1)
    <3>1. /\ c + 1 = TrimEvery /\ writes'[i] % TrimEvery = 0
          /\ Cardinality(TrimPending') = p + 1 /\ Cardinality(AddPending') = u + 1
          /\ Cardinality(zset'[d]) = z
      BY <1>5, <1>7, <2>4, <2>5 DEF z, u, p, c
    <3>2. z + MaxBatch * (u + 1) <= Cap + MaxBatch * (TrimEvery * (p + 1) + 0 + K - 1)
      <4>1. K \in Nat
        BY PendingFinite
      <4>2. TrimEvery * (p + 1) + 0 + K - 1 = TrimEvery * (p + 1) + 0 + s
        BY <2>1, <4>1, TrimAssumption DEF s
      <4> QED BY <2>3, <3>1, <4>2
    <3> QED BY <3>1, <3>2
  <2>6. CASE ~Trims(writes[i] + 1)
    <3>1. /\ writes'[i] % TrimEvery = c + 1
          /\ Cardinality(TrimPending') = p /\ Cardinality(AddPending') = u + 1
          /\ Cardinality(zset'[d]) = z
      BY <1>5, <1>7, <2>4, <2>6 DEF z, u, p, c
    <3>2. z + MaxBatch * (u + 1) <= Cap + MaxBatch * (TrimEvery * p + (c + 1) + K - 1)
      <4>1. K \in Nat
        BY PendingFinite
      <4>2. TrimEvery * p + (c + 1) + K - 1 = TrimEvery * p + (c + 1) + s
        BY <2>1, <4>1, TrimAssumption DEF s
      <4> QED BY <2>3, <4>2
    <3> QED BY <3>1, <3>2
  <2> QED BY <2>5, <2>6
<1>9. AllTrimming'
  <2> SUFFICES ASSUME NEW i \in Instances, Cardinality(TrimPending') = K
               PROVE  writes'[i] % TrimEvery = 0
    BY DEF AllTrimming, K
  <2>1. Trims(writes[inst[r]] + 1)
    BY <1>5, <1>6, PendingFinite
  <2> QED BY <1>7, <2>1
<1>10. WholePipelines'
  BY <1>1 DEF BoundInv, WholePipelines
<1> QED BY <1>8, <1>9, <1>10 DEF BoundInv

\* Redis executes one of the two commands.
LEMMA ExecuteBoundInv ==
  ASSUME OneDevice, IsFiniteSet(Requests), Requests # {}, TypeInv, CountInv, BoundInv,
         NEW r \in Requests, RedisAdd(r) \/ RedisTrim(r)
  PROVE  BoundInv'
<1> USE DEF TypeInv, TypeOK, instanceVars, storeVars, callVars, batchVars, connVars
<1>1. /\ wire[r] # << >> /\ wire'[r] = Tail(wire[r]) /\ pc' = pc /\ trim' = trim /\ size' = size
      /\ writes' = writes /\ \A q \in Requests \ {r} : wire'[q] = wire[q]
  BY DEF RedisAdd, RedisTrim
<1>2. pc[r] # "connect" /\ pc[r] # "idle" /\ dev[r] \in Devices
  BY <1>1 DEF WireShape, Placed
<1>3. wire[r] \in IF trim[r] THEN {<<"zadd", "trim">>, <<"trim">>} ELSE {<<"zadd">>}
  BY <1>1 DEF BoundInv, WholePipelines
<1>4. /\ IsFiniteSet(Requests) /\ Cardinality(AddPending) \in Nat
      /\ Cardinality(TrimPending) \in Nat /\ K \in Nat
  BY PendingFinite
<1>5. CASE RedisAdd(r)
  <2>1. Head(wire[r]) = "zadd" /\ wire[r] = IF trim[r] THEN <<"zadd", "trim">> ELSE <<"zadd">>
    BY <1>3, <1>5, PipelineHeads DEF RedisAdd
  <2>2. wire'[r] = IF trim[r] THEN <<"trim">> ELSE << >>
    BY <1>1, <2>1, PipelineTails
  <2>3. r \in AddPending /\ AddPending' = AddPending \ {r}
    BY <1>1, <1>2, <2>1, <2>2, PipelineHeads DEF AddPending
  <2>4. TrimPending' = TrimPending
    <3>1. <<"trim">> # << >>
      OBVIOUS
    <3>2. trim[r] => wire'[r] # << >>
      BY <2>2, <3>1
    <3> QED BY <1>1, <1>2, <3>2 DEF TrimPending
  <2>5. Cardinality(AddPending') = Cardinality(AddPending) - 1
    BY <2>3, PendingFinite, FS_RemoveElement
  <2>6. /\ IsFiniteSet(members[r]) /\ Cardinality(members[r]) \in Nat
        /\ Cardinality(members[r]) <= MaxBatch
    <3>1. IsFiniteSet(members[r]) /\ Cardinality(members[r]) \in Nat
      BY FS_CardinalityType DEF Finite
    <3>2. Cardinality(members[r]) + Len(todo[r]) = size[r] /\ Len(todo[r]) \in Nat
      <4>1. todo[r] \in Seq(Point)
        OBVIOUS
      <4> QED BY ONLY CountInv, <4>1, r \in Requests DEF CountInv
    <3>3. size[r] <= MaxBatch /\ size[r] \in Nat
      BY DEF BoundInv, WholePipelines
    <3> QED BY ONLY <3>1, <3>2, <3>3, BatchAssumption
  <2>7. ASSUME NEW d \in Devices
        PROVE  /\ Cardinality(zset[d]) \in Nat /\ Cardinality(zset'[d]) \in Nat
               /\ Cardinality(zset'[d]) <= Cardinality(zset[d]) + Cardinality(members[r])
    <3>1. IsFiniteSet(zset[d])
      BY FS_Subset DEF Finite
    <3>2. zset'[d] = zset[d] \/ zset'[d] = zset[d] \cup members[r]
      BY <1>2, <1>5 DEF RedisAdd
    <3>3. /\ IsFiniteSet(zset[d] \cup members[r])
          /\ Cardinality(zset[d] \cup members[r])
               = Cardinality(zset[d]) + Cardinality(members[r]) - Cardinality(zset[d] \cap members[r])
      BY <2>6, <3>1, FS_Union
    <3>4. zset[d] \cap members[r] \in SUBSET zset[d]
      OBVIOUS
    <3>5. Cardinality(zset[d] \cap members[r]) \in Nat /\ Cardinality(zset[d]) \in Nat
          /\ Cardinality(zset[d] \cup members[r]) \in Nat
      BY <3>1, <3>3, <3>4, FS_Subset, FS_CardinalityType
    <3>6. \A x, y, z, u \in Nat : x = y + z - u => x <= y + z
      OBVIOUS
    <3>7. \A y, z \in Nat : y <= y + z
      OBVIOUS
    <3>8. Cardinality(zset[d] \cup members[r]) <= Cardinality(zset[d]) + Cardinality(members[r])
      BY <2>6, <3>3, <3>5, <3>6
    <3> QED BY <2>6, <3>2, <3>5, <3>7, <3>8
  <2>8. Debt'
    <3> SUFFICES ASSUME NEW i \in Instances, NEW d \in Devices
                 PROVE  Cardinality(zset'[d]) + MaxBatch * Cardinality(AddPending')
                          <= Cap + MaxBatch * (TrimEvery * Cardinality(TrimPending)
                                               + (writes[i] % TrimEvery) + K - 1)
      BY <1>1, <2>4 DEF Debt, K
    <3> DEFINE z == Cardinality(zset[d])
               y == Cardinality(zset'[d])
               u == Cardinality(AddPending')
               b == Cardinality(members[r])
               e == TrimEvery * Cardinality(TrimPending) + (writes[i] % TrimEvery) + K - 1
               n == Cap + MaxBatch * e
    <3>1. z \in Nat /\ y \in Nat /\ b \in Nat /\ b <= MaxBatch /\ y <= z + b
      BY <2>6, <2>7
    <3>2. u \in Nat /\ u + 1 = Cardinality(AddPending)
      <4>1. Cardinality(AddPending) # 0
        BY <2>3, PendingFinite, FS_EmptySet
      <4>2. \A k \in Nat : k # 0 => k - 1 \in Nat /\ k - 1 + 1 = k
        OBVIOUS
      <4> QED BY <1>4, <2>5, <4>1, <4>2
    <3>3. z + MaxBatch * (u + 1) <= n
      <4>1. z + MaxBatch * Cardinality(AddPending) <= n
        BY DEF BoundInv, Debt
      <4> QED BY <3>2, <4>1
    <3>4. n \in Nat
      <4>1. writes[i] % TrimEvery \in Nat
        BY Period
      <4>2. K > 0
        BY ONLY IsFiniteSet(Requests), Requests # {}, SomeRequest
      <4> QED BY <1>4, <4>1, <4>2, DebtType, CapAssumption, TrimAssumption, BatchAssumption
    <3> HIDE DEF z, y, u, b, n
    <3>5. y + MaxBatch * u <= n
      BY <3>1, <3>2, <3>3, <3>4, AddPays, BatchAssumption
    <3> QED BY <3>5 DEF y, u, n
  <2>9. AllTrimming'
    BY <1>1, <2>4 DEF BoundInv, AllTrimming, K
  <2>10. WholePipelines'
    BY <1>1, <2>2 DEF BoundInv, WholePipelines
  <2> QED BY <2>8, <2>9, <2>10 DEF BoundInv
<1>6. CASE RedisTrim(r)
  <2>1. Head(wire[r]) = "trim" /\ wire[r] = <<"trim">> /\ trim[r]
    BY <1>3, <1>6, PipelineHeads DEF RedisTrim
  <2>2. wire'[r] = << >>
    BY <1>1, <2>1, PipelineTails
  <2>3. r \notin AddPending /\ AddPending' = AddPending
    BY <1>1, <1>2, <2>1, <2>2 DEF AddPending
  <2>4. r \in TrimPending /\ TrimPending' = TrimPending \ {r}
    BY <1>1, <1>2, <2>1, <2>2 DEF TrimPending
  <2>5. Cardinality(TrimPending') = Cardinality(TrimPending) - 1
        /\ Cardinality(TrimPending') \in Nat /\ Cardinality(TrimPending') # K
    <3>1. Cardinality(TrimPending') = Cardinality(TrimPending) - 1
      BY <2>4, PendingFinite, FS_RemoveElement
    <3>2. Cardinality(TrimPending) # 0
      BY <2>4, PendingFinite, FS_EmptySet
    <3>3. Cardinality(TrimPending) <= K
      BY PendingFinite
    <3> QED BY ONLY <1>4, <3>1, <3>2, <3>3
  <2>6. Cardinality(AddPending) <= K - 1
    <3>1. AddPending \in SUBSET Requests /\ AddPending # Requests
      BY <2>3 DEF AddPending
    <3>2. Cardinality(AddPending) <= K /\ Cardinality(AddPending) # K
      BY <3>1, FS_Subset DEF K
    <3> QED BY <1>4, <3>2
  <2>7. ASSUME NEW d \in Devices
        PROVE  Cardinality(zset'[d]) \in Nat /\ Cardinality(zset'[d]) <= Cap
    <3>1. d = dev[r]
      BY <1>2 DEF OneDevice
    <3>2. zset'[d] = Newest(zset[d], Cap)
      BY <1>6, <3>1 DEF RedisTrim, Trimmed
    <3>3. zset[d] \in SUBSET Member /\ IsFiniteSet(zset[d])
      BY FS_Subset DEF Finite
    <3> QED BY <3>2, <3>3, NewestSize, CapAssumption
  <2>8. Debt'
    <3> SUFFICES ASSUME NEW i \in Instances, NEW d \in Devices
                 PROVE  Cardinality(zset'[d]) + MaxBatch * Cardinality(AddPending)
                          <= Cap + MaxBatch * (TrimEvery * Cardinality(TrimPending')
                                               + (writes[i] % TrimEvery) + K - 1)
      BY <1>1, <2>3 DEF Debt, K
    <3> DEFINE z == Cardinality(zset'[d])
               u == Cardinality(AddPending)
               p == Cardinality(TrimPending')
               c == writes[i] % TrimEvery
               s == K - 1
    <3>1. z \in Nat /\ z <= Cap /\ u \in Nat /\ u <= s /\ p \in Nat /\ c \in Nat
      BY <1>4, <2>5, <2>6, <2>7, Period
    <3>2. s \in Nat
      <4>1. K > 0
        BY ONLY IsFiniteSet(Requests), Requests # {}, SomeRequest
      <4> QED BY <1>4, <4>1
    <3>3. TrimEvery * p + c + K - 1 = TrimEvery * p + c + s
      <4> HIDE DEF p, c
      <4> QED BY <1>4, <3>1, TrimAssumption
    <3> HIDE DEF z, u, p, c, s
    <3>4. z + MaxBatch * u <= Cap + MaxBatch * (TrimEvery * p + c + s)
      BY <3>1, <3>2, TrimPays, CapAssumption, TrimAssumption, BatchAssumption
    <3>5. z + MaxBatch * u <= Cap + MaxBatch * (TrimEvery * p + c + K - 1)
      BY <3>3, <3>4
    <3> QED BY <3>5 DEF z, u, p, c
  <2>9. AllTrimming'
    BY <2>5 DEF AllTrimming, K
  <2>10. WholePipelines'
    BY <1>1, <2>2 DEF BoundInv, WholePipelines
  <2> QED BY <2>8, <2>9, <2>10 DEF BoundInv
<1> QED BY <1>5, <1>6

\* An eviction empties a device and touches no request.
LEMMA EvictBoundInv ==
  ASSUME IsFiniteSet(Requests), Requests # {}, TypeInv, BoundInv, NEW e \in Devices, RedisEvicts(e)
  PROVE  BoundInv'
<1> USE DEF TypeInv, TypeOK, instanceVars, storeVars, callVars, batchVars, connVars
<1>1. /\ UNCHANGED <<pc, wire, trim, size, writes>> /\ zset' = [zset EXCEPT ![e] = {}]
  BY DEF RedisEvicts
<1>2. AddPending' = AddPending /\ TrimPending' = TrimPending /\ WholePipelines'
  BY <1>1 DEF AddPending, TrimPending, BoundInv, WholePipelines
<1>3. ASSUME NEW d \in Devices
      PROVE  /\ Cardinality(zset[d]) \in Nat /\ Cardinality(zset'[d]) \in Nat
             /\ Cardinality(zset'[d]) <= Cardinality(zset[d])
  <2>1. IsFiniteSet(zset[d])
    BY FS_Subset DEF Finite
  <2>2. zset'[d] \in SUBSET zset[d]
    BY <1>1
  <2> QED BY <2>1, <2>2, FS_Subset, FS_CardinalityType
<1>4. Debt'
  <2> SUFFICES ASSUME NEW i \in Instances, NEW d \in Devices
               PROVE  Cardinality(zset'[d]) + MaxBatch * Cardinality(AddPending)
                        <= Cap + MaxBatch * (TrimEvery * Cardinality(TrimPending)
                                             + (writes[i] % TrimEvery) + K - 1)
    BY <1>1, <1>2 DEF Debt, K
  <2> DEFINE z == Cardinality(zset[d])
             y == Cardinality(zset'[d])
             m == MaxBatch * Cardinality(AddPending)
             n == Cap + MaxBatch * (TrimEvery * Cardinality(TrimPending)
                                    + (writes[i] % TrimEvery) + K - 1)
  <2>1. z + m <= n
    BY DEF BoundInv, Debt
  <2>2. z \in Nat /\ y \in Nat /\ y <= z /\ m \in Nat /\ n \in Nat
    <3>1. m \in Nat
      BY PendingFinite, BatchAssumption
    <3>2. n \in Nat
      <4>1. writes[i] % TrimEvery \in Nat /\ Cardinality(TrimPending) \in Nat /\ K \in Nat
        BY PendingFinite, Period
      <4>2. K > 0
        BY ONLY IsFiniteSet(Requests), Requests # {}, SomeRequest
      <4> QED BY <4>1, <4>2, DebtType, CapAssumption, TrimAssumption, BatchAssumption
    <3> QED BY <1>3, <3>1, <3>2
  <2> HIDE DEF z, y, m, n
  <2>3. y + m <= n
    BY <2>1, <2>2
  <2> QED BY <2>3 DEF y, m, n
<1> QED BY <1>1, <1>2, <1>4 DEF BoundInv, AllTrimming, K

\* Every step keeps the debts covered.
LEMMA StepBoundInv ==
  ASSUME OneInstance, OneDevice, TrimsAreExecuted, IsFiniteSet(Requests), Requests # {},
         TypeInv, CountInv, BoundInv, [Next]_vars
  PROVE  BoundInv'
<1>1. ASSUME NEW r \in Requests, Receive(r) \/ Server(r) PROVE BoundInv'
  BY <1>1, QuietBoundInv, CountBoundInv, ExecuteBoundInv DEF Server
<1>2. /\ \A r \in Requests : ~RequestFault(r)
      /\ \A i \in Instances : ~InstanceRestarts(i)
      /\ ~RedisRestarts
  BY DEF TrimsAreExecuted, RequestFault, DialFails, ConnBreaks, RedisRefuses, InstanceRestarts,
         RedisRestarts, Fault
<1>3. ASSUME NEW d \in Devices, RedisEvicts(d) PROVE BoundInv'
  BY <1>3, EvictBoundInv
<1>4. CASE UNCHANGED vars
  <2>1. UNCHANGED <<pc, wire, trim, size, writes, zset>>
    BY <1>4 DEF vars, instanceVars, storeVars, callVars, batchVars, connVars
  <2>2. AddPending' = AddPending /\ TrimPending' = TrimPending /\ WholePipelines'
    BY <2>1 DEF AddPending, TrimPending, BoundInv, WholePipelines
  <2> QED BY <2>1, <2>2, DebtKept DEF BoundInv
<1> QED BY <1>1, <1>2, <1>3, <1>4 DEF Next, Quiescent

\* The bound follows from the debts.
LEMMA DebtBounds ==
  ASSUME IsFiniteSet(Requests), Requests # {}, TypeInv, BoundInv, NEW i \in Instances
  PROVE  OverlapBound
<1> SUFFICES ASSUME NEW d \in Devices
             PROVE  Cardinality(zset[d]) <= Cap + (K * TrimEvery + K - 1) * MaxBatch
  BY DEF OverlapBound, K
<1> DEFINE z == Cardinality(zset[d])
           u == Cardinality(AddPending)
           p == Cardinality(TrimPending)
           c == writes[i] % TrimEvery
<1>1. z \in Nat /\ u \in Nat /\ p \in Nat /\ p <= K /\ K \in Nat /\ K > 0
  <2>1. IsFiniteSet(zset[d])
    BY FS_Subset DEF TypeInv, Finite
  <2>2. K > 0
    BY ONLY IsFiniteSet(Requests), Requests # {}, SomeRequest
  <2> QED BY <2>1, <2>2, PendingFinite, FS_CardinalityType
<1>2. c \in Nat /\ c < TrimEvery
  BY Period DEF TypeInv, TypeOK
<1>3. p = K => c = 0
  BY DEF BoundInv, AllTrimming
<1>4. z + MaxBatch * u <= Cap + MaxBatch * (TrimEvery * p + c + K - 1)
  BY DEF BoundInv, Debt
<1> HIDE DEF z, u, p, c
<1>5. z <= Cap + (K * TrimEvery + K - 1) * MaxBatch
  BY <1>1, <1>2, <1>3, <1>4, MostDebt, CapAssumption, TrimAssumption, BatchAssumption
<1> QED BY <1>5 DEF z

\* However many requests overlap, one instance that serves one device lets it grow beyond
\* its cap by no more than TrimEvery batches for each of them, and one more for each but
\* one: Append trims with the write that reaches the period, not with the add that does.
\* The hypotheses are needed: with a second device, or with a trim that is lost with its
\* connection, there is no bound, and another instance counts for itself.
THEOREM DeviceIsBounded ==
  ASSUME OneInstance, OneDevice, TrimsAreExecuted, IsFiniteSet(Requests), Requests # {}
  PROVE  Spec => []OverlapBound
<1>1. Init => SeqInv /\ CountInv /\ BoundInv
  BY InitSeqCount, InitBoundInv
<1>2. TypeInv /\ SeqInv /\ CountInv /\ BoundInv /\ [Next]_vars
        => SeqInv' /\ CountInv' /\ BoundInv'
  BY StepSeqInv, StepCountInv, StepBoundInv
<1>3. TypeInv /\ BoundInv => OverlapBound
  BY DebtBounds DEF OneInstance
<1> QED BY <1>1, <1>2, <1>3, TypeInvariance, PTL DEF Spec
=============================================================================
