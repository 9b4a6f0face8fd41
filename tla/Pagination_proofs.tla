-------------------------- MODULE Pagination_proofs --------------------------
(***************************************************************************)
(* What a walk over the pages guarantees, proved for every set of          *)
(* timestamps, page size, cap and length of a behaviour.                   *)
(*                                                                         *)
(* A page is cut by rank, so most of the work is about ranks: they number  *)
(* the members of a set from 0 without gaps, by a pigeonhole argument.     *)
(* The walk then rests on one idea: what has a rank of skip or more in the *)
(* window of the cursor is what the pages to come will hold.               *)
(***************************************************************************)
EXTENDS Pagination, FiniteSetTheorems, TLAPS

Members == [ts: Nat, seq: Nat]

\* What a page is cut from.
Sortable(S) == S \subseteq Members /\ IsFiniteSet(S)

-----------------------------------------------------------------------------
(* The order of a sorted set.                                              *)

\* Rounding to a double keeps the order of two integers, if not their difference.
LEMMA ScoreMonotone ==
  ASSUME NEW a \in Nat, NEW b \in Nat, a <= b
  PROVE  Score(a) \in Int /\ Score(b) \in Int /\ Score(a) <= Score(b)
<1>1. Exact \in Nat
  BY ExactAssumption
<1> QED BY <1>1 DEF Score

\* Hence members are ordered by ts and seq, rounded or not.
LEMMA BeforeIs ==
  ASSUME NEW m \in Members, NEW n \in Members
  PROVE  Before(m, n) <=> m.ts < n.ts \/ (m.ts = n.ts /\ m.seq < n.seq)
<1>1. m.ts \in Nat /\ n.ts \in Nat
  BY DEF Members
<1>2. m.ts <= n.ts => Score(m.ts) \in Int /\ Score(n.ts) \in Int /\ Score(m.ts) <= Score(n.ts)
  BY <1>1, ScoreMonotone
<1>3. n.ts <= m.ts => Score(m.ts) \in Int /\ Score(n.ts) \in Int /\ Score(n.ts) <= Score(m.ts)
  BY <1>1, ScoreMonotone
<1> QED BY <1>1, <1>2, <1>3 DEF Before

\* The order is total.
LEMMA TotalOrder ==
  /\ \A a \in Members : ~Before(a, a)
  /\ \A a, b \in Members : a = b \/ Before(a, b) \/ Before(b, a)
  /\ \A a, b, c \in Members : Before(a, b) /\ Before(b, c) => Before(a, c)
<1>1. \A a \in Members : a.ts \in Nat /\ a.seq \in Nat
  BY DEF Members
<1>2. ASSUME NEW a \in Members, NEW b \in Members, a.ts = b.ts, a.seq = b.seq
      PROVE  a = b
  BY <1>2 DEF Members
<1>3. \A a, b \in Members : Before(a, b) <=> a.ts < b.ts \/ (a.ts = b.ts /\ a.seq < b.seq)
  BY BeforeIs
<1> QED BY ONLY <1>1, <1>2, <1>3

-----------------------------------------------------------------------------
(* Ranks.                                                                  *)

Earlier(S, m) == {n \in S : Before(n, m)}

\* A rank is a number from 0 up, below the size of the set for a member.
LEMMA RankType ==
  ASSUME NEW S, Sortable(S), NEW m \in Members
  PROVE  /\ IsFiniteSet(Earlier(S, m)) /\ Rank(S, m) = Cardinality(Earlier(S, m))
         /\ Rank(S, m) \in Nat /\ Cardinality(S) \in Nat
         /\ Rank(S, m) <= Cardinality(S)
         /\ m \in S => Rank(S, m) < Cardinality(S)
<1>1. Earlier(S, m) \in SUBSET S /\ Rank(S, m) = Cardinality(Earlier(S, m))
  BY DEF Earlier, Rank
<1>2. /\ IsFiniteSet(Earlier(S, m)) /\ Rank(S, m) \in Nat /\ Cardinality(S) \in Nat
      /\ Rank(S, m) <= Cardinality(S)
  BY <1>1, FS_Subset, FS_CardinalityType DEF Sortable
<1>3. ASSUME m \in S PROVE Rank(S, m) # Cardinality(S)
  <2>1. m \notin Earlier(S, m)
    BY TotalOrder DEF Earlier, Sortable
  <2> QED BY <1>1, <1>3, <2>1, FS_Subset DEF Sortable
<1> QED BY <1>1, <1>2, <1>3

\* Ranks agree with the order.
LEMMA RankOrders ==
  ASSUME NEW S, Sortable(S), NEW m \in S, NEW n \in S
  PROVE  /\ Before(m, n) <=> Rank(S, m) < Rank(S, n)
         /\ Rank(S, m) = Rank(S, n) => m = n
<1>1. ASSUME NEW a \in S, NEW b \in S, Before(a, b)
      PROVE  Rank(S, a) < Rank(S, b)
  <2>1. Earlier(S, a) \in SUBSET Earlier(S, b)
    BY <1>1, TotalOrder DEF Earlier, Sortable
  <2>2. a \in Earlier(S, b) /\ a \notin Earlier(S, a)
    BY <1>1, TotalOrder DEF Earlier, Sortable
  <2>3. /\ IsFiniteSet(Earlier(S, b)) /\ Rank(S, a) = Cardinality(Earlier(S, a))
        /\ Rank(S, b) = Cardinality(Earlier(S, b))
        /\ Rank(S, a) \in Nat /\ Rank(S, b) \in Nat
    BY RankType DEF Sortable
  <2> QED BY <2>1, <2>2, <2>3, FS_Subset
<1>2. m = n \/ Before(m, n) \/ Before(n, m)
  BY TotalOrder DEF Sortable
<1>3. Rank(S, m) \in Nat /\ Rank(S, n) \in Nat
  BY RankType DEF Sortable
<1>4. Before(m, n) => Rank(S, m) < Rank(S, n)
  BY <1>1
<1>5. Before(n, m) => Rank(S, n) < Rank(S, m)
  BY <1>1
<1> QED BY <1>2, <1>3, <1>4, <1>5

\* Every number below the size of the set is a rank: no two members share one.
LEMMA RankOnto ==
  ASSUME NEW S, Sortable(S), NEW k \in Nat, k < Cardinality(S)
  PROVE  \E m \in S : Rank(S, m) = k
<1> DEFINE N == Cardinality(S)
           I == 0..(N - 1)
           f == [m \in S |-> Rank(S, m)]
<1>1. N \in Nat
  BY FS_CardinalityType DEF Sortable
<1>2. IsFiniteSet(I) /\ Cardinality(I) = N
  <2>1. 0 \in Int /\ N - 1 \in Int
    BY <1>1
  <2>2. IsFiniteSet(I) /\ Cardinality(I) = IF 0 > N - 1 THEN 0 ELSE N - 1 - 0 + 1
    BY <2>1, FS_Interval
  <2> HIDE DEF I, N
  <2> QED BY ONLY <1>1, <2>2
<1>3. f \in Injection(S, I)
  <2>1. \A m \in S : Rank(S, m) \in I
    BY <1>1, RankType DEF Sortable
  <2>2. \A m, n \in S : Rank(S, m) = Rank(S, n) => m = n
    BY RankOrders
  <2> QED BY <2>1, <2>2 DEF Injection, IsInjective
<1>4. f \in Surjection(S, I)
  <2> HIDE DEF f, I
  <2> QED BY <1>2, <1>3, FS_Injection
<1>5. k \in I
  BY <1>1
<1> QED BY <1>4, <1>5 DEF Surjection

\* A slice has as many members as ranks.
LEMMA SliceSize ==
  ASSUME NEW S, Sortable(S), NEW lo \in Nat, NEW hi \in Nat, lo <= hi, hi <= Cardinality(S)
  PROVE  IsFiniteSet(Slice(S, lo, hi)) /\ Cardinality(Slice(S, lo, hi)) = hi - lo
<1> DEFINE T == Slice(S, lo, hi)
           I == lo..(hi - 1)
           f == [m \in T |-> Rank(S, m)]
<1>1. Cardinality(S) \in Nat /\ IsFiniteSet(T)
  BY FS_CardinalityType, FS_Subset DEF Sortable, Slice
<1>2. \A m \in T : m \in S /\ Rank(S, m) \in I
  <2> SUFFICES ASSUME NEW m \in S, lo <= Rank(S, m), Rank(S, m) < hi
               PROVE  Rank(S, m) \in I
    BY DEF Slice
  <2> QED BY RankType DEF Sortable
<1>3. \A m, n \in T : Rank(S, m) = Rank(S, n) => m = n
  BY <1>2, RankOrders
<1>4. ASSUME NEW k \in I PROVE \E m \in T : Rank(S, m) = k
  <2>1. k \in Nat /\ k < Cardinality(S)
    BY <1>1
  <2>2. PICK m \in S : Rank(S, m) = k
    BY <2>1, RankOnto
  <2> QED BY <2>2 DEF Slice
<1>5. f \in Bijection(T, I)
  <2> HIDE DEF T, I
  <2> QED BY <1>2, <1>3, <1>4 DEF Bijection, Injection, Surjection, IsInjective
<1>6. Cardinality(T) = Cardinality(I)
  <2> HIDE DEF T, I, f
  <2> QED BY <1>1, <1>5, FS_Bijection DEF ExistsBijection
<1>7. Cardinality(I) = hi - lo
  <2>1. Cardinality(I) = IF lo > hi - 1 THEN 0 ELSE hi - 1 - lo + 1
    BY FS_Interval
  <2> HIDE DEF I
  <2> QED BY ONLY <2>1, lo \in Nat, hi \in Nat, lo <= hi
<1> QED BY <1>1, <1>6, <1>7

\* In a larger set the rank of a member is as high or higher.
LEMMA RankGrows ==
  ASSUME NEW S, Sortable(S), NEW T \in SUBSET S, NEW m \in Members
  PROVE  Rank(T, m) <= Rank(S, m)
<1>1. Earlier(T, m) \in SUBSET Earlier(S, m)
  BY DEF Earlier
<1> QED BY <1>1, RankType, FS_Subset DEF Rank, Earlier

\* The rank of a member within a slice.
LEMMA RankInSlice ==
  ASSUME NEW S, Sortable(S), NEW lo \in Nat, NEW hi \in Nat, NEW m \in Slice(S, lo, hi)
  PROVE  Rank(Slice(S, lo, hi), m) = Rank(S, m) - lo
<1>1. m \in S /\ lo <= Rank(S, m) /\ Rank(S, m) < hi
  BY DEF Slice
<1>2. Rank(S, m) \in Nat /\ Rank(S, m) <= Cardinality(S)
  BY <1>1, RankType DEF Sortable
<1>3. {n \in Slice(S, lo, hi) : Before(n, m)} = Slice(S, lo, Rank(S, m))
  <2>1. ASSUME NEW n \in S
        PROVE  lo <= Rank(S, n) /\ Rank(S, n) < hi /\ Before(n, m)
               <=> lo <= Rank(S, n) /\ Rank(S, n) < Rank(S, m)
    BY <1>1, <1>2, RankType, RankOrders DEF Sortable
  <2> QED BY <2>1 DEF Slice
<1> QED BY <1>1, <1>2, <1>3, SliceSize DEF Rank

-----------------------------------------------------------------------------
(* One page.                                                               *)

\* BuildPage: the page is the first limit of the fetched points; one more was asked for
\* to know whether more remain.
LEMMA PageIs ==
  ASSUME NEW S, Sortable(S), NEW c, c.skip \in Nat, NEW limit \in Nat \ {0}
  PROVE  /\ Page(Fetched(S, c, limit), limit) = Slice(S, c.skip, c.skip + limit)
         /\ Exhausted(Fetched(S, c, limit), limit) <=> Cardinality(S) <= c.skip + limit
<1> DEFINE lo == c.skip
           F == Slice(S, lo, lo + limit + 1)
<1>1. lo \in Nat /\ lo + limit + 1 \in Nat /\ Cardinality(S) \in Nat
  BY FS_CardinalityType DEF Sortable
<1>2. Page(F, limit) = Slice(S, lo, lo + limit)
  <2>1. ASSUME NEW m \in F PROVE m \in S /\ Rank(S, m) \in Nat /\ Rank(F, m) = Rank(S, m) - lo
    BY <1>1, <2>1, RankInSlice, RankType DEF Slice, Sortable
  <2>2. ASSUME NEW m PROVE m \in Page(F, limit) <=> m \in Slice(S, lo, lo + limit)
    <3>1. m \in Slice(S, lo, lo + limit) <=> m \in F /\ Rank(S, m) < lo + limit
      BY <1>1, RankType DEF Slice, Sortable
    <3>2. m \in Page(F, limit) <=> m \in F /\ 0 <= Rank(F, m) /\ Rank(F, m) < limit
      BY DEF Page, Slice
    <3>3. m \in F => lo <= Rank(S, m)
      BY DEF Slice
    <3> HIDE DEF F
    <3> QED BY <1>1, <2>1, <3>1, <3>2, <3>3
  <2> QED BY <2>2
<1>3. CASE Cardinality(S) <= lo + limit
  <2>1. ASSUME NEW m \in S PROVE Rank(S, m) < lo + limit
    BY <1>1, <1>3, RankType DEF Sortable
  <2>2. F = Slice(S, lo, Cardinality(S))
    <3>1. \A m \in S : Rank(S, m) \in Nat /\ Rank(S, m) < Cardinality(S)
      BY RankType DEF Sortable
    <3> QED BY <1>1, <1>3, <3>1 DEF Slice
  <2>3. CASE lo <= Cardinality(S)
    <3>1. Cardinality(F) = Cardinality(S) - lo
      BY <1>1, <2>2, <2>3, SliceSize
    <3> QED BY <1>1, <1>2, <1>3, <3>1 DEF Exhausted, Fetched
  <2>4. CASE lo > Cardinality(S)
    <3>1. \A m \in S : Rank(S, m) \in Nat /\ Rank(S, m) < Cardinality(S)
      BY RankType DEF Sortable
    <3>2. F = {}
      BY <1>1, <2>4, <3>1 DEF Slice
    <3>3. Cardinality(F) = 0
      BY <3>2, FS_EmptySet
    <3> QED BY <1>1, <1>2, <1>3, <3>3 DEF Exhausted, Fetched
  <2> QED BY <1>1, <2>3, <2>4
<1>4. CASE Cardinality(S) > lo + limit
  <2>1. Cardinality(F) = limit + 1
    BY <1>1, <1>4, SliceSize
  <2> QED BY <1>1, <1>2, <1>4, <2>1 DEF Exhausted, Fetched
<1> QED BY <1>1, <1>3, <1>4

\* The last point of a full page is the one of the highest rank.
LEMMA LastIs ==
  ASSUME NEW S, Sortable(S), NEW lo \in Nat, NEW limit \in Nat \ {0},
         lo + limit <= Cardinality(S)
  PROVE  LET P == Slice(S, lo, lo + limit)
         IN  /\ Last(P) \in P /\ Rank(S, Last(P)) = lo + limit - 1
             /\ \A n \in P : n = Last(P) \/ Before(n, Last(P))
<1> DEFINE P == Slice(S, lo, lo + limit)
<1>1. PICK m \in S : Rank(S, m) = lo + limit - 1
  <2>1. lo + limit - 1 \in Nat /\ lo + limit - 1 < Cardinality(S)
    BY FS_CardinalityType DEF Sortable
  <2> QED BY <2>1, RankOnto
<1>2. m \in P
  BY <1>1 DEF Slice
<1>3. \A n \in P : n = m \/ Before(n, m)
  <2> SUFFICES ASSUME NEW n \in S, Rank(S, n) < lo + limit PROVE n = m \/ Before(n, m)
    BY DEF Slice
  <2>1. Rank(S, n) \in Nat
    BY RankType DEF Sortable
  <2> QED BY <1>1, <2>1, RankOrders
<1>4. \A l \in P : (\A n \in P : n = l \/ Before(n, l)) => l = m
  <2> SUFFICES ASSUME NEW l \in P, m = l \/ Before(m, l) PROVE l = m
    BY <1>2
  <2>1. l \in S /\ l \in Members /\ m \in Members
    BY DEF Slice, Sortable
  <2> QED BY <1>3, <2>1, TotalOrder
<1>5. Last(P) = m
  <2> HIDE DEF P
  <2> QED BY <1>2, <1>3, <1>4 DEF Last
<1> QED BY <1>1, <1>2, <1>3, <1>5

\* The points of a page that share the ts of its last one.
AtLast(P) == {m \in P : m.ts = Last(P).ts}

\* The cursor that follows a full page points behind its last point; the page has as many
\* points of that ts as the cursor adds to the skip.
LEMMA CursorIs ==
  ASSUME NEW S, Sortable(S), NEW c, c.skip \in Nat, NEW limit \in Nat \ {0},
         c.skip + limit <= Cardinality(S)
  PROVE  LET P == Slice(S, c.skip, c.skip + limit)
             R == AtLast(P)
         IN  /\ NextCursor(P, c) = [ts   |-> Last(P).ts,
                                    skip |-> Cardinality(R)
                                             + IF Last(P).ts = c.ts THEN c.skip ELSE 0]
             /\ IsFiniteSet(R) /\ Cardinality(R) \in 1..limit /\ R \subseteq S
             /\ R = P => Cardinality(R) = limit
<1> DEFINE P == Slice(S, c.skip, c.skip + limit)
           R == AtLast(P)
<1>1. IsFiniteSet(P) /\ Cardinality(P) = limit
  BY SliceSize
<1>2. Last(P) \in R
  BY LastIs DEF AtLast
<1>3. R \in SUBSET P /\ IsFiniteSet(R) /\ Cardinality(R) \in Nat /\ Cardinality(R) <= limit
  <2>1. R \in SUBSET P
    BY DEF AtLast
  <2> HIDE DEF R, P
  <2> QED BY <1>1, <2>1, FS_Subset, FS_CardinalityType
<1>4. Cardinality(R) # 0
  <2> HIDE DEF R, P
  <2> QED BY <1>2, <1>3, FS_EmptySet
<1>5. R \subseteq S
  BY DEF Slice, AtLast
<1>6. NextCursor(P, c) = [ts   |-> Last(P).ts,
                          skip |-> Cardinality(R) + IF Last(P).ts = c.ts THEN c.skip ELSE 0]
  BY DEF NextCursor, AtLast
<1>7. Cardinality(R) \in 1..limit
  <2> HIDE DEF R, P
  <2> QED BY <1>3, <1>4
<1> QED BY <1>1, <1>3, <1>5, <1>6, <1>7

-----------------------------------------------------------------------------
(* The window a page is cut from.                                          *)

WindowAt(store, S, from, to) ==
  IF store = "mem" THEN ByStamp(S, from, to) ELSE ByScore(S, from, to)

AheadIn(W, skip) == {m \in W : Rank(W, m) >= skip}

\* What lies ahead of the cursor.
Ahead == AheadIn(Window, cur.skip)

\* Whatever has a ts in the window is in it; rounding may let in more.
LEMMA WindowHolds ==
  ASSUME NEW store, NEW S \in SUBSET Members, NEW from \in Nat, NEW to \in Nat
  PROVE  /\ WindowAt(store, S, from, to) \subseteq S
         /\ \A m \in S : from <= m.ts /\ m.ts <= to => m \in WindowAt(store, S, from, to)
<1>1. \A m \in S : m.ts \in Nat
  BY DEF Members
<1>2. \A m \in S : from <= m.ts /\ m.ts <= to
                   => Score(from) <= Score(m.ts) /\ Score(m.ts) <= Score(to)
  BY <1>1, ScoreMonotone
<1> QED BY <1>2 DEF WindowAt, ByStamp, ByScore

\* Within the window, what is not before a point of it is in the window that starts there.
LEMMA WindowFromPoint ==
  ASSUME NEW store, NEW S \in SUBSET Members, NEW from \in Nat, NEW to \in Nat,
         NEW x \in WindowAt(store, S, from, to),
         NEW n \in WindowAt(store, S, from, to), x.ts <= n.ts
  PROVE  n \in WindowAt(store, S, x.ts, to)
<1>1. x \in S /\ n \in S /\ x.ts \in Nat /\ n.ts \in Nat
  BY WindowHolds DEF Members
<1>2. Score(x.ts) <= Score(n.ts)
  BY <1>1, ScoreMonotone
<1> QED BY <1>1, <1>2 DEF WindowAt, ByStamp, ByScore

\* Where every integer is a score, the window is the same in both stores.
LEMMA WindowIsExact ==
  ASSUME NEW store, NEW S \in SUBSET Members, NEW from \in 0..Exact, NEW to \in 0..Exact,
         \A m \in S : m.ts <= Exact
  PROVE  WindowAt(store, S, from, to) = ByStamp(S, from, to)
BY DEF WindowAt, ByStamp, ByScore, Score

-----------------------------------------------------------------------------
(* The walk.                                                               *)

\* What is stored and numbered is within what was written.
Counted ==
  /\ seq <= written
  /\ IsFiniteSet(zset) /\ Cardinality(zset) <= written
  /\ \A m \in zset \cup returned : m.seq <= seq
  /\ pc = "idle" => returned = {} /\ repeated = {} /\ stable = {}

\* A point that stays in the window and is not trimmed has been returned or lies ahead.
StableIsAhead ==
  "trim" \notin disturbed =>
    \A m \in stable :
      /\ InWindow(m)
      /\ pc = "fetch" => m \in returned \cup Ahead
      /\ pc = "done" => m \in returned

Inv == TypeOK /\ Counted /\ StableIsAhead

\* The types of what a page is made of.
PageTypes ==
  /\ zset \subseteq Members /\ returned \subseteq Members /\ Sortable(zset)
  /\ pc # "idle" => /\ Sortable(Window) /\ Window \subseteq zset
                    /\ Window = WindowAt(backend, zset, cur.ts, query.to)
                    /\ cur.ts \in Nat /\ cur.skip \in Nat
                    /\ query.from \in Nat /\ query.to \in Nat
                    /\ query.limit \in Nat \ {0}
                    /\ Cardinality(Window) \in Nat /\ Cardinality(Window) <= written

\* What the assumptions say of the constants.
LEMMA ConstantTypes == Stamps \subseteq Nat /\ Limits \subseteq Nat \ {0} /\ MaxAppends \in Nat
BY StampsAssumption, ExactAssumption, LimitsAssumption, AppendsAssumption

\* The types a page is computed from.
LEMMA Types == TypeOK /\ Counted => PageTypes
<1> SUFFICES ASSUME TypeOK, Counted PROVE PageTypes
  OBVIOUS
<1>1. /\ \A x \in Stamps : x \in Nat
      /\ \A x \in Limits : x \in Nat \ {0}
      /\ MaxAppends \in Nat /\ \A x \in 0..MaxAppends : x \in Nat
  BY ConstantTypes
<1>2. /\ zset \subseteq Members /\ returned \subseteq Members /\ Sortable(zset)
  <2>1. [ts: Stamps, seq: 1..MaxAppends] \subseteq Members
    BY <1>1 DEF Members
  <2> QED BY <2>1 DEF TypeOK, Counted, Sortable
<1>3. ASSUME pc # "idle"
      PROVE  /\ cur.ts \in Nat /\ cur.skip \in Nat /\ query.from \in Nat /\ query.to \in Nat
             /\ query.limit \in Nat \ {0}
  <2>1. query.from \in Stamps /\ query.to \in Stamps /\ query.limit \in Limits
    BY <1>3 DEF TypeOK
  <2>2. cur.ts \in Stamps /\ cur.skip \in 0..MaxAppends
    BY <1>3 DEF TypeOK
  <2> QED BY <1>1, <2>1, <2>2
<1>4. ASSUME pc # "idle"
      PROVE  /\ Window = WindowAt(backend, zset, cur.ts, query.to)
             /\ Window \in SUBSET zset
  <2>1. Window = WindowAt(backend, zset, cur.ts, query.to)
    BY DEF Window, WindowAt
  <2> QED BY <1>2, <1>3, <1>4, <2>1, WindowHolds
<1>5. ASSUME pc # "idle"
      PROVE  /\ Sortable(Window)
             /\ Cardinality(Window) \in Nat /\ Cardinality(Window) <= written
  <2>1. /\ IsFiniteSet(Window) /\ Cardinality(Window) \in Nat
        /\ Cardinality(Window) <= Cardinality(zset) /\ Cardinality(zset) \in Nat
    BY <1>2, <1>4, <1>5, FS_Subset, FS_CardinalityType DEF Sortable
  <2>2. written \in Nat /\ Cardinality(zset) <= written
    BY <1>1 DEF TypeOK, Counted
  <2> QED BY <1>2, <1>4, <1>5, <2>1, <2>2 DEF Sortable
<1> QED BY <1>2, <1>3, <1>4, <1>5 DEF PageTypes

\* The same after a step.
LEMMA TypesAfter == TypeOK' /\ Counted' => PageTypes'
BY Types, PTL

\* What FetchPage does, in terms of ranks.
LEMMA FetchIs ==
  ASSUME TypeOK, Counted, FetchPage
  PROVE  LET P == Slice(Window, cur.skip, cur.skip + query.limit)
         IN  /\ pc = "fetch"
             /\ returned' = returned \cup P
             /\ repeated' = repeated \cup (returned \cap P)
             /\ \/ /\ pc' = "done" /\ cur' = cur
                   /\ Cardinality(Window) <= cur.skip + query.limit
                \/ /\ pc' = "fetch" /\ cur' = NextCursor(P, cur)
                   /\ cur.skip + query.limit < Cardinality(Window)
             /\ UNCHANGED <<backend, zset, seq, written, query, stable, disturbed>>
<1> DEFINE F == Fetched(Window, cur, query.limit)
           P == Slice(Window, cur.skip, cur.skip + query.limit)
<1>1. pc = "fetch"
  BY DEF FetchPage
<1>2. /\ Sortable(Window) /\ cur.skip \in Nat /\ query.limit \in Nat \ {0}
      /\ Cardinality(Window) \in Nat
  BY <1>1, Types DEF PageTypes
<1>3. /\ Page(F, query.limit) = P
      /\ Exhausted(F, query.limit) <=> Cardinality(Window) <= cur.skip + query.limit
  BY <1>2, PageIs
<1>4. /\ returned' = returned \cup Page(F, query.limit)
      /\ repeated' = repeated \cup (returned \cap Page(F, query.limit))
      /\ \/ Exhausted(F, query.limit) /\ pc' = "done" /\ UNCHANGED cur
         \/ /\ ~Exhausted(F, query.limit)
            /\ cur' = NextCursor(Page(F, query.limit), cur)
            /\ UNCHANGED pc
      /\ UNCHANGED <<backend, zset, seq, written, query, stable, disturbed>>
  BY DEF FetchPage
<1> HIDE DEF F, P
<1> QED BY <1>1, <1>2, <1>3, <1>4 DEF P

\* A walk that has not begun has nothing to skip.
LEMMA InitInv == Init => Inv
<1> SUFFICES ASSUME Init PROVE Inv
  OBVIOUS
<1> USE DEF Init
<1>1. TypeOK
  BY AppendsAssumption DEF TypeOK
<1>2. Counted
  BY FS_EmptySet DEF Counted
<1>3. StableIsAhead
  BY DEF StableIsAhead
<1> QED BY <1>1, <1>2, <1>3 DEF Inv

\* A trim leaves a part.
LEMMA TrimLeavesPart ==
  ASSUME NEW S
  PROVE  Trimmed(S) \subseteq S
BY DEF Trimmed, Slice

\* A write, whatever its number: it adds at most one point, and ranks only grow unless
\* something was trimmed.
LEMMA StoreKeeps ==
  ASSUME Inv, NEW m \in [ts: Stamps, seq: 1..MaxAppends], NEW kinds \in SUBSET {"late", "trim"},
         Store(m, kinds), seq' \in 0..MaxAppends, seq <= seq', m.seq <= seq', seq' <= written'
  PROVE  Inv'
<1>1. TypeOK /\ Counted /\ StableIsAhead
  BY DEF Inv
<1>2. /\ pc # "done" /\ written < MaxAppends /\ written' = written + 1
      /\ stable' = stable \cap zset'
      /\ Disturb(kinds \cup IF zset \subseteq zset' THEN {} ELSE {"trim"})
      /\ UNCHANGED <<backend, clientVars>>
  BY DEF Store
<1>3. zset' \subseteq zset \cup {m}
  BY TrimLeavesPart DEF Store, Stored
<1>4. /\ written \in Nat /\ MaxAppends \in Nat /\ seq \in Nat
  BY <1>1, AppendsAssumption DEF TypeOK
<1>5. TypeOK'
  <2>1. zset' \subseteq [ts: Stamps, seq: 1..MaxAppends]
    BY <1>1, <1>3 DEF TypeOK
  <2>2. disturbed' \subseteq {"late", "trim"}
    BY <1>1, <1>2 DEF Disturb, TypeOK
  <2>3. written' \in 0..MaxAppends
    BY <1>2, <1>4
  <2> QED BY <1>1, <1>2, <2>1, <2>2, <2>3 DEF TypeOK, clientVars
<1>6. Counted'
  <2>1. /\ IsFiniteSet(zset \cup {m}) /\ Cardinality(zset \cup {m}) \in Nat
        /\ Cardinality(zset \cup {m}) <= written + 1
    <3>1. IsFiniteSet(zset) /\ Cardinality(zset) \in Nat /\ Cardinality(zset) <= written
      BY <1>1, FS_CardinalityType DEF Counted
    <3>2. /\ IsFiniteSet(zset \cup {m})
          /\ Cardinality(zset \cup {m})
               = IF m \in zset THEN Cardinality(zset) ELSE Cardinality(zset) + 1
      BY <3>1, FS_AddElement
    <3> QED BY <1>4, <3>1, <3>2
  <2>2. IsFiniteSet(zset') /\ Cardinality(zset') <= Cardinality(zset \cup {m})
        /\ Cardinality(zset') \in Nat
    BY <1>3, <2>1, FS_Subset, FS_CardinalityType
  <2>3. Cardinality(zset') <= written'
    BY ONLY <1>2, <1>4, <2>1, <2>2
  <2>4. \A n \in zset' \cup returned : n.seq <= seq'
    <3> SUFFICES ASSUME NEW n \in zset \cup returned PROVE n.seq <= seq'
      BY <1>3
    <3>1. n.seq \in Nat /\ n.seq <= seq
      BY <1>1, <1>4 DEF TypeOK, Counted
    <3> QED BY <1>4, <3>1
  <2>5. (pc = "idle" => returned = {} /\ repeated = {} /\ stable = {})'
    BY <1>1, <1>2 DEF Counted, clientVars
  <2> QED BY <1>2, <2>2, <2>3, <2>4, <2>5 DEF Counted, clientVars
<1>7. StableIsAhead'
  <2> SUFFICES ASSUME "trim" \notin disturbed', NEW n \in stable'
               PROVE  InWindow(n)' /\ (pc = "fetch" => n \in returned \cup Ahead)'
    BY <1>2 DEF StableIsAhead, clientVars
  <2>1. n \in stable /\ n \in zset'
    BY <1>2
  <2>2. pc = "fetch"
    BY <1>1, <1>2, <2>1 DEF Counted, TypeOK
  <2>3. "trim" \notin disturbed /\ zset \subseteq zset'
    BY <1>2, <2>2 DEF Disturb
  <2>4. InWindow(n) /\ n \in returned \cup Ahead
    BY <1>1, <2>1, <2>2, <2>3 DEF StableIsAhead
  <2>5. InWindow(n)'
    BY <1>2, <2>4 DEF InWindow, clientVars
  <2>6. CASE n \in returned
    BY <1>2, <2>5, <2>6 DEF clientVars
  <2>7. CASE n \in Ahead
    <3>1. pc' = "fetch" /\ cur' = cur /\ query' = query /\ backend' = backend
      BY <1>2, <2>2 DEF clientVars
    <3>2. Sortable(Window') /\ Sortable(Window) /\ cur.skip \in Nat
      BY <1>1, <1>5, <1>6, <2>2, <3>1, Types, TypesAfter DEF PageTypes
    <3>3. Window \in SUBSET Window'
      BY <2>3, <3>1 DEF Window, ByStamp, ByScore
    <3>4. n \in Window /\ Rank(Window, n) >= cur.skip
      BY <2>7 DEF Ahead, AheadIn
    <3>5. n \in Window' /\ n \in Members
      BY <3>2, <3>3, <3>4 DEF Sortable
    <3>6. Rank(Window, n) <= Rank(Window', n) /\ Rank(Window, n) \in Nat /\ Rank(Window', n) \in Nat
      BY <3>2, <3>3, <3>5, RankGrows, RankType
    <3>7. Rank(Window', n) >= cur'.skip
      BY <3>1, <3>2, <3>4, <3>6
    <3>8. n \in Ahead'
      BY <3>5, <3>7 DEF Ahead, AheadIn
    <3> QED BY <2>5, <3>8
  <2> QED BY <2>4, <2>6, <2>7
<1> QED BY <1>5, <1>6, <1>7 DEF Inv

\* A point is appended, with a higher sequence number than any.
LEMMA AppendKeeps == ASSUME Inv, NEW ts \in Stamps, Append(ts) PROVE Inv'
<1>1. seq \in Nat /\ written \in Nat /\ seq <= written /\ MaxAppends \in Nat
  BY AppendsAssumption DEF Inv, TypeOK, Counted
<1>2. /\ Store([ts |-> ts, seq |-> seq + 1], {}) /\ seq' = seq + 1
      /\ written < MaxAppends /\ written' = written + 1
  BY DEF Append, Store
<1>3. [ts |-> ts, seq |-> seq + 1] \in [ts: Stamps, seq: 1..MaxAppends]
  BY <1>1, <1>2
<1>4. /\ {} \in SUBSET {"late", "trim"} /\ seq' \in 0..MaxAppends /\ seq <= seq'
      /\ [ts |-> ts, seq |-> seq + 1].seq <= seq' /\ seq' <= written'
  BY <1>1, <1>2
<1> QED BY <1>2, <1>3, <1>4, StoreKeeps

\* A late point is appended.
LEMMA AppendLateKeeps == ASSUME Inv, NEW ts \in Stamps, AppendLate(ts) PROVE Inv'
<1>1. seq \in Nat /\ written \in Nat /\ seq <= written /\ MaxAppends \in Nat
      /\ seq \in 0..MaxAppends
  BY AppendsAssumption DEF Inv, TypeOK, Counted
<1>2. PICK s \in 1..seq : Store([ts |-> ts, seq |-> s], {"late"})
  BY DEF AppendLate
<1>3. seq' = seq /\ written' = written + 1
  BY <1>2 DEF AppendLate, Store
<1>4. [ts |-> ts, seq |-> s] \in [ts: Stamps, seq: 1..MaxAppends]
  BY <1>1
<1>5. /\ {"late"} \in SUBSET {"late", "trim"} /\ seq' \in 0..MaxAppends /\ seq <= seq'
      /\ [ts |-> ts, seq |-> s].seq <= seq' /\ seq' <= written'
  BY <1>1, <1>3
<1> QED BY <1>2, <1>4, <1>5, StoreKeeps

\* The oldest points go.
LEMMA TrimKeeps == ASSUME Inv, Trim PROVE Inv'
<1>1. TypeOK /\ Counted /\ StableIsAhead
  BY DEF Inv
<1>2. /\ zset' \subseteq zset /\ stable' = stable \cap zset' /\ Disturb({"trim"})
      /\ pc # "done" /\ UNCHANGED <<backend, seq, written, clientVars>>
  BY TrimLeavesPart DEF Trim
<1>3. TypeOK'
  BY <1>1, <1>2 DEF TypeOK, Disturb, clientVars
<1>4. Counted'
  <2>1. /\ IsFiniteSet(zset') /\ Cardinality(zset') <= Cardinality(zset)
        /\ Cardinality(zset) \in Nat /\ Cardinality(zset') \in Nat
    BY <1>1, <1>2, FS_Subset, FS_CardinalityType DEF Counted
  <2>2. written \in Nat /\ Cardinality(zset) <= written
    BY <1>1 DEF TypeOK, Counted
  <2>3. Cardinality(zset') <= written
    BY ONLY <2>1, <2>2
  <2> QED BY <1>1, <1>2, <2>1, <2>3 DEF Counted, clientVars
<1>5. StableIsAhead'
  BY <1>1, <1>2 DEF StableIsAhead, Disturb, Counted, TypeOK, clientVars
<1> QED BY <1>3, <1>4, <1>5 DEF Inv

\* A client begins to walk.
LEMMA BeginKeeps == ASSUME Inv, Begin PROVE Inv'
<1>1. TypeOK /\ Counted /\ StableIsAhead
  BY DEF Inv
<1>2. PICK from \in Stamps, to \in Stamps, limit \in Limits :
        /\ query' = [from |-> from, to |-> to, limit |-> limit]
        /\ cur' = [ts |-> from, skip |-> 0]
        /\ stable' = {m \in zset : from <= m.ts /\ m.ts <= to}
  BY DEF Begin
<1>3. pc = "idle" /\ pc' = "fetch" /\ UNCHANGED <<backend, zset, seq, written, returned, repeated, disturbed>>
  BY DEF Begin
<1>4. TypeOK'
  BY <1>1, <1>2, <1>3, AppendsAssumption DEF TypeOK
<1>5. Counted'
  BY <1>1, <1>3 DEF Counted
<1>6. StableIsAhead'
  <2> SUFFICES ASSUME NEW m \in stable' PROVE InWindow(m)' /\ m \in Ahead'
    BY <1>3 DEF StableIsAhead
  <2>1. m \in zset /\ from <= m.ts /\ m.ts <= to
    BY <1>2
  <2>2. InWindow(m)'
    BY <1>2, <2>1 DEF InWindow
  <2>3. m \in Window'
    <3>1. zset' \in SUBSET Members /\ cur'.ts \in Nat /\ query'.to \in Nat
          /\ Window' = WindowAt(backend', zset', cur'.ts, query'.to)
      BY <1>3, <1>4, <1>5, TypesAfter DEF PageTypes
    <3>2. m \in zset' /\ cur'.ts <= m.ts /\ m.ts <= query'.to
      BY <1>2, <1>3, <2>1
    <3> QED BY <3>1, <3>2, WindowHolds
  <2>4. Sortable(Window') /\ m \in Members
    BY <1>1, <1>3, <1>4, <1>5, <2>1, Types, TypesAfter DEF PageTypes
  <2>5. Rank(Window', m) \in Nat /\ cur'.skip = 0
    BY <1>2, <2>4, RankType
  <2>6. m \in Ahead'
    BY <2>3, <2>5 DEF Ahead, AheadIn
  <2> QED BY <2>2, <2>6
<1> QED BY <1>4, <1>5, <1>6 DEF Inv

\* A page takes what is ahead up to its limit; the new cursor leaves ahead what is behind
\* its last point.
LEMMA FetchKeeps == ASSUME Inv, FetchPage PROVE Inv'
<1> DEFINE W == Window
           P == Slice(W, cur.skip, cur.skip + query.limit)
           L == Last(P)
           R == AtLast(P)
<1>1. TypeOK /\ Counted /\ StableIsAhead
  BY DEF Inv
<1>2. /\ pc = "fetch"
      /\ returned' = returned \cup P
      /\ repeated' = repeated \cup (returned \cap P)
      /\ \/ pc' = "done" /\ cur' = cur /\ Cardinality(W) <= cur.skip + query.limit
         \/ pc' = "fetch" /\ cur' = NextCursor(P, cur) /\ cur.skip + query.limit < Cardinality(W)
      /\ UNCHANGED <<backend, zset, seq, written, query, stable, disturbed>>
  BY <1>1, FetchIs
<1>3. /\ Sortable(W) /\ W \subseteq zset /\ zset \subseteq Members
      /\ W = WindowAt(backend, zset, cur.ts, query.to)
      /\ cur.ts \in Nat /\ cur.skip \in Nat /\ query.to \in Nat
      /\ query.limit \in Nat \ {0}
      /\ Cardinality(W) \in Nat /\ Cardinality(W) <= written
  BY <1>1, <1>2, Types DEF PageTypes
<1>4. P \subseteq W
  BY DEF Slice
<1>5. ASSUME pc' = "fetch"
      PROVE  /\ L \in P /\ L \in W /\ Rank(W, L) = cur.skip + query.limit - 1
             /\ cur' = [ts |-> L.ts, skip |-> Cardinality(R) + IF L.ts = cur.ts THEN cur.skip ELSE 0]
             /\ IsFiniteSet(R) /\ Cardinality(R) \in 1..query.limit
             /\ cur.skip + query.limit < Cardinality(W)
  <2>1. cur' = NextCursor(P, cur) /\ cur.skip + query.limit < Cardinality(W)
    BY <1>2, <1>5
  <2>2. cur.skip + query.limit <= Cardinality(W)
    BY <1>3, <2>1
  <2>3. L \in P /\ Rank(W, L) = cur.skip + query.limit - 1
    BY <1>3, <2>2, LastIs
  <2>4. /\ NextCursor(P, cur)
             = [ts |-> L.ts, skip |-> Cardinality(R) + IF L.ts = cur.ts THEN cur.skip ELSE 0]
        /\ IsFiniteSet(R) /\ Cardinality(R) \in 1..query.limit
    <3>1. Sortable(W) /\ cur.skip \in Nat /\ query.limit \in Nat \ {0}
      BY <1>3
    <3> HIDE DEF W
    <3> QED BY ONLY <2>2, <3>1, CursorIs
  <2> HIDE DEF P, L, R, W
  <2> QED BY <1>4, <2>1, <2>3, <2>4
<1>6. TypeOK'
  <2>1. returned' \subseteq [ts: Stamps, seq: 1..MaxAppends] /\ repeated' \subseteq returned'
    BY <1>1, <1>2, <1>3, <1>4 DEF TypeOK
  <2>2. ASSUME pc' = "fetch" PROVE cur' \in [ts: Stamps, skip: 0..MaxAppends]
    <3>1. L.ts \in Stamps
      BY <1>1, <1>3, <1>5, <2>2 DEF TypeOK
    <3>2. Cardinality(R) + (IF L.ts = cur.ts THEN cur.skip ELSE 0) \in 0..MaxAppends
      <4>1. written \in Nat /\ MaxAppends \in Nat /\ written <= MaxAppends
        BY <1>1, AppendsAssumption DEF TypeOK
      <4>2. Cardinality(R) \in 1..query.limit /\ cur.skip + query.limit < Cardinality(W)
        BY <1>5, <2>2
      <4> HIDE DEF W, R, L
      <4> QED BY <1>3, <4>1, <4>2
    <3> QED BY <1>5, <2>2, <3>1, <3>2
  <2>3. pc' = "done" => cur' \in [ts: Stamps, skip: 0..MaxAppends]
    BY <1>1, <1>2 DEF TypeOK
  <2> QED BY <1>1, <1>2, <2>1, <2>2, <2>3 DEF TypeOK
<1>7. Counted'
  BY <1>1, <1>2, <1>3, <1>4 DEF Counted
<1>8. StableIsAhead'
  <2> SUFFICES ASSUME "trim" \notin disturbed', NEW m \in stable'
               PROVE  /\ InWindow(m)'
                      /\ (pc = "fetch" => m \in returned \cup Ahead)'
                      /\ (pc = "done" => m \in returned)'
    BY DEF StableIsAhead
  <2>1. InWindow(m) /\ m \in returned \cup Ahead /\ m \in zset /\ m \in Members
    BY <1>1, <1>2, <1>3 DEF StableIsAhead, TypeOK
  <2>2. InWindow(m)'
    BY <1>2, <2>1 DEF InWindow
  <2>3. CASE m \in returned'
    BY <1>2, <2>2, <2>3
  <2>4. CASE m \notin returned'
    <3>1. m \in W /\ Rank(W, m) >= cur.skip /\ m \notin P
      BY <1>2, <2>1, <2>4 DEF Ahead, AheadIn
    <3>2. Rank(W, m) \in Nat /\ Rank(W, m) < Cardinality(W)
      BY <1>3, <2>1, <3>1, RankType
    <3>3. Rank(W, m) >= cur.skip + query.limit
      BY <1>3, <3>1, <3>2 DEF Slice
    <3>4. pc' = "fetch"
      BY <1>2, <1>3, <3>2, <3>3
    <3>5. Before(L, m)
      <4>1. Rank(W, L) < Rank(W, m)
        BY <1>3, <1>5, <3>2, <3>3, <3>4
      <4> HIDE DEF W, L
      <4> QED BY <1>3, <1>5, <3>1, <3>4, <4>1, RankOrders
    <3>6. L \in Members /\ L.ts \in Nat /\ m.ts \in Nat /\ L.ts <= m.ts /\ m.ts <= query.to
      <4>1. L \in Members
        BY <1>3, <1>5, <3>4
      <4>2. L.ts \in Nat /\ m.ts \in Nat
        BY <2>1, <4>1 DEF Members
      <4>3. L.ts <= m.ts
        BY <2>1, <3>5, <4>1, <4>2, BeforeIs
      <4> QED BY <2>1, <4>1, <4>2, <4>3 DEF InWindow
    <3>7. Window' = WindowAt(backend, zset, L.ts, query.to)
      BY <1>2, <1>5, <3>4 DEF Window, WindowAt
    <3>8. m \in Window'
      <4> HIDE DEF L
      <4> QED BY <1>3, <2>1, <3>6, <3>7, WindowHolds
    <3>9. Rank(Window', m) >= cur'.skip
      <4>1. CASE L.ts = cur.ts
        <5>1. Window' = W
          BY <1>3, <3>7, <4>1
        <5>2. cur'.skip = Cardinality(R) + cur.skip /\ Cardinality(R) \in 1..query.limit
          BY <1>5, <3>4, <4>1
        <5> HIDE DEF W, R
        <5> QED BY <1>3, <3>2, <3>3, <5>1, <5>2
      <4>2. CASE L.ts # cur.ts
        <5>1. cur'.skip = Cardinality(R) /\ Cardinality(R) \in Nat
          BY <1>5, <3>4, <4>2
        <5>2. R \in SUBSET Earlier(Window', m)
          <6> SUFFICES ASSUME NEW n \in P, n.ts = L.ts
                       PROVE  n \in Window' /\ Before(n, m)
            BY DEF Earlier, AtLast
          <6>1. n \in W /\ n \in Members
            BY <1>3, <1>4
          <6>2. n \in Window'
            <7>1. n.ts \in Nat /\ L.ts <= n.ts
              BY <6>1 DEF Members
            <7>2. L \in WindowAt(backend, zset, cur.ts, query.to)
                  /\ n \in WindowAt(backend, zset, cur.ts, query.to)
              BY <1>3, <1>5, <3>4, <6>1
            <7> HIDE DEF L, W
            <7> QED BY <1>3, <3>7, <7>1, <7>2, WindowFromPoint
          <6>3. n = L \/ Before(n, L)
            <7>1. cur.skip + query.limit <= Cardinality(W)
              BY <1>3, <1>5, <3>4
            <7> QED BY <1>3, <7>1, LastIs
          <6>4. Before(n, m)
            BY <2>1, <3>5, <3>6, <6>1, <6>3, TotalOrder
          <6> QED BY <6>2, <6>4
        <5>3. Sortable(Window')
          BY <1>6, <1>7, <3>4, TypesAfter DEF PageTypes
        <5>4. /\ IsFiniteSet(Earlier(Window', m)) /\ Rank(Window', m) \in Nat
              /\ Rank(Window', m) = Cardinality(Earlier(Window', m))
          BY <2>1, <5>3, RankType
        <5>5. Cardinality(R) <= Rank(Window', m)
          <6> HIDE DEF R
          <6> QED BY <5>2, <5>4, FS_Subset
        <5> QED BY <5>1, <5>4, <5>5
      <4> QED BY <4>1, <4>2
    <3>10. m \in Ahead'
      BY <3>8, <3>9 DEF Ahead, AheadIn
    <3> QED BY <2>2, <3>4, <3>10
  <2> QED BY <2>3, <2>4
<1> QED BY <1>6, <1>7, <1>8 DEF Inv

\* Nothing happens.
LEMMA StutterKeeps == ASSUME Inv, UNCHANGED vars PROVE Inv'
BY DEF Inv, TypeOK, Counted, StableIsAhead, InWindow, Ahead, AheadIn, Window, vars, clientVars

\* Every step keeps the invariant.
LEMMA NextKeeps == Inv /\ [Next]_vars => Inv'
<1> SUFFICES ASSUME Inv, [Next]_vars PROVE Inv'
  OBVIOUS
<1>1. ASSUME NEW ts \in Stamps, Append(ts) PROVE Inv'
  BY <1>1, AppendKeeps
<1>2. ASSUME NEW ts \in Stamps, AppendLate(ts) PROVE Inv'
  BY <1>2, AppendLateKeeps
<1>3. CASE Trim
  BY <1>3, TrimKeeps
<1>4. CASE Begin
  BY <1>4, BeginKeeps
<1>5. CASE FetchPage
  BY <1>5, FetchKeeps
<1>6. CASE Quiescent \/ UNCHANGED vars
  BY <1>6, StutterKeeps DEF Quiescent
<1> QED BY <1>1, <1>2, <1>3, <1>4, <1>5, <1>6 DEF Next

\* The invariant holds throughout.
LEMMA Invariance == Spec => []Inv
BY InitInv, NextKeeps, PTL DEF Spec

\* The state keeps its types; in particular the skip of a cursor never exceeds the number
\* of points ever written, so it fits what the cursor encodes.
THEOREM TypeCorrect == Spec => []TypeOK
<1>1. Inv => TypeOK
  BY DEF Inv
<1> QED BY <1>1, Invariance, PTL

\* A walk skips no point that stays stored in its window, unless a trim runs during it:
\* not when points arrive between two pages, in whatever order, before or after the
\* cursor, and not when scores are rounded.
THEOREM NothingIsSkipped == Spec => []NoPointSkipped
<1>1. Inv => NoPointSkipped
  BY DEF Inv, StableIsAhead, NoPointSkipped
<1> QED BY <1>1, Invariance, PTL

-----------------------------------------------------------------------------
(* The order of the pages, as long as timestamps are scores: up to 2^53.   *)

ScoresAreExact == \A ts \in Stamps : ts <= Exact

\* What was returned is not after the cursor and, undisturbed, before everything ahead.
ReturnedIsBehind ==
  pc = "fetch" =>
    /\ query.from <= cur.ts
    /\ \A m \in returned : m.ts <= cur.ts
    /\ disturbed = {} => \A m \in returned, n \in Ahead : Before(m, n)

\* Undisturbed, what is not ahead in the window has the ts of the cursor.
SkipIsOfCursor ==
  pc = "fetch" /\ disturbed = {} =>
    /\ cur.skip <= Cardinality(Window)
    /\ \A n \in Window \ Ahead : n.ts = cur.ts

Ordered == ReturnedIsBehind /\ SkipIsOfCursor /\ WindowRespected /\ NoPointTwice

\* Both stores cut the window by timestamp.
LEMMA WindowByStamp ==
  ASSUME ScoresAreExact
  PROVE  /\ Inv /\ pc # "idle" => Window = ByStamp(zset, cur.ts, query.to)
         /\ Inv' /\ pc' # "idle" => Window' = ByStamp(zset', cur'.ts, query'.to)
<1>1. \A ts \in Stamps : ts \in 0..Exact
  BY ConstantTypes, ExactAssumption DEF ScoresAreExact
<1>2. ASSUME Inv, pc # "idle" PROVE Window = ByStamp(zset, cur.ts, query.to)
  <2>1. TypeOK /\ zset \in SUBSET Members /\ Window = WindowAt(backend, zset, cur.ts, query.to)
    BY <1>2, Types DEF Inv, PageTypes
  <2>2. cur.ts \in 0..Exact /\ query.to \in 0..Exact /\ \A m \in zset : m.ts <= Exact
    BY <1>1, <1>2, <2>1 DEF TypeOK
  <2> QED BY <2>1, <2>2, WindowIsExact
<1>3. ASSUME Inv', pc' # "idle" PROVE Window' = ByStamp(zset', cur'.ts, query'.to)
  <2>1. /\ TypeOK' /\ zset' \in SUBSET Members
        /\ Window' = WindowAt(backend', zset', cur'.ts, query'.to)
    BY <1>3, TypesAfter DEF Inv, PageTypes
  <2>2. cur'.ts \in 0..Exact /\ query'.to \in 0..Exact /\ \A m \in zset' : m.ts <= Exact
    BY <1>1, <1>3, <2>1 DEF TypeOK
  <2> QED BY <2>1, <2>2, WindowIsExact
<1> QED BY <1>2, <1>3

\* Nothing is behind a cursor yet.
LEMMA InitOrdered == Init => Ordered
BY DEF Init, Ordered, ReturnedIsBehind, SkipIsOfCursor, WindowRespected, NoPointTwice

\* A write.  Undisturbed, its number is the highest: it comes after everything of its ts.
LEMMA StoreKeepsOrder ==
  ASSUME ScoresAreExact, Inv, Inv', Ordered,
         NEW m \in [ts: Stamps, seq: 1..MaxAppends], NEW kinds, Store(m, kinds),
         kinds = {} => seq < m.seq
  PROVE  Ordered'
<1>1. /\ TypeOK /\ Counted /\ TypeOK' /\ Counted'
      /\ ReturnedIsBehind /\ SkipIsOfCursor /\ WindowRespected /\ NoPointTwice
  BY DEF Inv, Ordered
<1>2. /\ pc # "done"
      /\ Disturb(kinds \cup IF zset \subseteq zset' THEN {} ELSE {"trim"})
      /\ backend' = backend /\ pc' = pc /\ query' = query /\ cur' = cur
      /\ returned' = returned /\ repeated' = repeated
  BY DEF Store, clientVars
<1>3. zset' \subseteq zset \cup {m} /\ m \in Members
  <2>1. zset' \subseteq zset \cup {m}
    BY TrimLeavesPart DEF Store, Stored
  <2>2. m.ts \in Stamps /\ m.seq \in Nat /\ m = [ts |-> m.ts, seq |-> m.seq]
    BY AppendsAssumption
  <2>3. m.ts \in Nat
    BY <2>2, ConstantTypes
  <2> QED BY <2>1, <2>2, <2>3 DEF Members
<1>4. ASSUME pc = "fetch", disturbed' = {}
      PROVE  /\ disturbed = {} /\ zset \subseteq zset' /\ seq < m.seq
             /\ Sortable(Window) /\ Sortable(Window') /\ Window \in SUBSET Window'
             /\ Window = ByStamp(zset, cur.ts, query.to)
             /\ Window' = ByStamp(zset', cur.ts, query.to)
             /\ zset \subseteq Members /\ zset' \subseteq Members /\ returned \subseteq Members
             /\ cur.ts \in Nat /\ cur.skip \in Nat
             /\ \A n \in zset \cup returned : n.seq <= seq
  <2>1. disturbed = {} /\ zset \subseteq zset' /\ kinds = {}
    BY <1>2, <1>4 DEF Disturb
  <2>2. /\ Window = ByStamp(zset, cur.ts, query.to)
        /\ Window' = ByStamp(zset', cur.ts, query.to)
    BY <1>2, <1>4, WindowByStamp
  <2>3. /\ Sortable(Window) /\ Sortable(Window')
        /\ zset \subseteq Members /\ zset' \subseteq Members /\ returned \subseteq Members
        /\ cur.ts \in Nat /\ cur.skip \in Nat
    BY <1>1, <1>2, <1>4, Types, TypesAfter DEF PageTypes
  <2>4. Window \in SUBSET Window'
    BY <2>1, <2>2 DEF ByStamp
  <2>5. \A n \in zset \cup returned : n.seq <= seq
    BY <1>1 DEF Counted
  <2> QED BY <2>1, <2>2, <2>3, <2>4, <2>5
<1>5. ReturnedIsBehind'
  <2> SUFFICES ASSUME pc = "fetch", disturbed' = {}, NEW r \in returned, NEW n \in Ahead'
               PROVE  Before(r, n)
    BY <1>1, <1>2 DEF ReturnedIsBehind
  <2>1. n \in Window' /\ Rank(Window', n) >= cur.skip
    BY <1>2 DEF Ahead, AheadIn
  <2>2. /\ n \in zset' /\ n \in Members /\ r \in Members /\ r.ts <= cur.ts /\ cur.ts <= n.ts
    BY <1>1, <1>4, <2>1 DEF ByStamp, ReturnedIsBehind
  <2>3. /\ r.ts \in Nat /\ r.seq \in Nat /\ n.ts \in Nat /\ n.seq \in Nat
        /\ m.ts \in Nat /\ m.seq \in Nat /\ cur.ts \in Nat /\ seq \in Nat
    BY <1>1, <1>3, <1>4, <2>2 DEF Members, TypeOK
  <2>4. CASE r.ts < n.ts
    BY <2>2, <2>4, BeforeIs
  <2>5. CASE r.ts = n.ts /\ n = m
    <3>1. r.seq < n.seq
      BY <1>4, <2>3, <2>5
    <3> QED BY <2>2, <2>5, <3>1, BeforeIs
  <2>6. CASE r.ts = n.ts /\ n # m
    <3>1. n \in zset /\ n.ts = cur.ts /\ n.seq <= seq
      BY <1>3, <1>4, <2>2, <2>3, <2>6
    <3>2. n \in Window
      BY <1>4, <2>1, <3>1 DEF ByStamp
    <3>3. Earlier(Window', n) \in SUBSET Earlier(Window, n)
      <4> SUFFICES ASSUME NEW k \in Window', Before(k, n) PROVE k \in Window
        BY DEF Earlier
      <4>1. k \in zset' /\ k \in Members /\ cur.ts <= k.ts
        BY <1>4 DEF ByStamp
      <4>2. k.ts < n.ts \/ (k.ts = n.ts /\ k.seq < n.seq)
        BY <2>2, <4>1, BeforeIs
      <4>3. k # m
        BY <1>4, <2>3, <3>1, <4>1, <4>2
      <4> QED BY <1>3, <1>4, <4>1, <4>3 DEF ByStamp
    <3>4. Rank(Window', n) <= Rank(Window, n) /\ Rank(Window', n) \in Nat /\ Rank(Window, n) \in Nat
      BY <1>4, <2>2, <3>3, RankType, FS_Subset
    <3>5. n \in Ahead
      BY <1>4, <2>1, <3>2, <3>4 DEF Ahead, AheadIn
    <3> QED BY <1>1, <1>4, <3>5 DEF ReturnedIsBehind
  <2> QED BY <2>2, <2>3, <2>4, <2>5, <2>6
<1>6. SkipIsOfCursor'
  <2> SUFFICES ASSUME pc = "fetch", disturbed' = {}
               PROVE  /\ cur.skip <= Cardinality(Window')
                      /\ \A n \in Window' : Rank(Window', n) < cur.skip => n.ts = cur.ts
    <3>1. pc = "fetch" /\ disturbed' = {} =>
            \A n \in Window' : Rank(Window', n) \in Nat /\ cur.skip \in Nat
      BY <1>4, RankType DEF Sortable
    <3> QED BY <1>2, <3>1 DEF SkipIsOfCursor, Ahead, AheadIn
  <2>1. /\ cur.skip <= Cardinality(Window)
        /\ \A n \in Window : Rank(Window, n) < cur.skip => n.ts = cur.ts
    <3>1. \A n \in Window : Rank(Window, n) \in Nat /\ cur.skip \in Nat
      BY <1>4, RankType DEF Sortable
    <3> QED BY <1>1, <1>4, <3>1 DEF SkipIsOfCursor, Ahead, AheadIn
  <2>2. cur.skip <= Cardinality(Window')
    <3>1. /\ Cardinality(Window) <= Cardinality(Window')
          /\ Cardinality(Window) \in Nat /\ Cardinality(Window') \in Nat
      BY <1>4, FS_Subset, FS_CardinalityType DEF Sortable
    <3> QED BY <1>4, <2>1, <3>1
  <2>3. ASSUME NEW n \in Window', Rank(Window', n) < cur.skip
        PROVE  n.ts = cur.ts
    <3>1. n \in zset' /\ n \in Members
      BY <1>4 DEF ByStamp
    <3>2. CASE n \in Window
      <4>1. Rank(Window, n) <= Rank(Window', n) /\ Rank(Window, n) \in Nat /\ Rank(Window', n) \in Nat
        BY <1>4, <3>1, RankGrows, RankType
      <4> QED BY <1>4, <2>1, <2>3, <3>2, <4>1
    <3>3. CASE n \notin Window
      <4>1. n = m
        BY <1>3, <1>4, <3>1, <3>3 DEF ByStamp
      <4> DEFINE B == Slice(Window, 0, cur.skip)
      <4>2. IsFiniteSet(B) /\ Cardinality(B) = cur.skip
        BY <1>4, <2>1, SliceSize
      <4>3. B \in SUBSET Earlier(Window', m)
        <5> SUFFICES ASSUME NEW k \in Window, Rank(Window, k) < cur.skip
                     PROVE  k \in Window' /\ Before(k, m)
          BY DEF Slice, Earlier
        <5>1. k \in zset /\ k \in Members /\ k.ts = cur.ts /\ k.seq <= seq
          BY <1>4, <2>1 DEF ByStamp
        <5>2. cur.ts <= m.ts
          BY <1>4, <2>3, <4>1 DEF ByStamp
        <5>3. k.seq < m.seq
          BY <1>1, <1>3, <1>4, <5>1 DEF Members, TypeOK
        <5>4. k.ts \in Nat /\ m.ts \in Nat
          BY <1>3, <5>1 DEF Members
        <5>5. Before(k, m)
          BY <1>3, <5>1, <5>2, <5>3, <5>4, BeforeIs
        <5> QED BY <1>4, <5>5
      <4>4. /\ Rank(Window', m) = Cardinality(Earlier(Window', m))
            /\ Rank(Window', m) \in Nat /\ IsFiniteSet(Earlier(Window', m))
        BY <1>3, <1>4, RankType
      <4>5. cur.skip <= Rank(Window', m)
        <5> HIDE DEF B
        <5> QED BY <4>2, <4>3, <4>4, FS_Subset
      <4> QED BY <1>4, <2>3, <4>1, <4>4, <4>5
    <3> QED BY <3>2, <3>3
  <2> QED BY <2>2, <2>3
<1>7. WindowRespected' /\ NoPointTwice'
  <2>1. WindowRespected'
    BY <1>1, <1>2 DEF WindowRespected, InWindow
  <2>2. NoPointTwice'
    BY <1>1, <1>2, <1>4 DEF NoPointTwice, Counted, TypeOK
  <2> QED BY <2>1, <2>2
<1> QED BY <1>5, <1>6, <1>7 DEF Ordered

\* A point is appended, with a sequence number above any other.
LEMMA AppendKeepsOrder ==
  ASSUME ScoresAreExact, Inv, Inv', Ordered, NEW ts \in Stamps, Append(ts)
  PROVE  Ordered'
<1>1. seq \in Nat /\ MaxAppends \in Nat /\ written < MaxAppends /\ seq <= written /\ written \in Nat
  BY AppendsAssumption DEF Inv, TypeOK, Counted, Append, Store
<1>2. [ts |-> ts, seq |-> seq + 1] \in [ts: Stamps, seq: 1..MaxAppends]
      /\ seq < [ts |-> ts, seq |-> seq + 1].seq
  BY <1>1
<1>3. Store([ts |-> ts, seq |-> seq + 1], {})
  BY DEF Append
<1> QED BY <1>2, <1>3, StoreKeepsOrder

\* A point is appended late, below the highest sequence number.
LEMMA AppendLateKeepsOrder ==
  ASSUME ScoresAreExact, Inv, Inv', Ordered, NEW ts \in Stamps, AppendLate(ts)
  PROVE  Ordered'
<1>1. PICK s \in 1..seq : Store([ts |-> ts, seq |-> s], {"late"})
  BY DEF AppendLate
<1>2. seq \in 0..MaxAppends /\ MaxAppends \in Nat
  BY AppendsAssumption DEF Inv, TypeOK
<1>3. [ts |-> ts, seq |-> s] \in [ts: Stamps, seq: 1..MaxAppends] /\ {"late"} # {}
  BY <1>2
<1> QED BY <1>1, <1>3, StoreKeepsOrder

\* The oldest points go, whatever the cursor has skipped.
LEMMA TrimKeepsOrder == ASSUME Inv, Ordered, Trim PROVE Ordered'
<1>1. /\ Disturb({"trim"}) /\ pc' = pc /\ query' = query /\ cur' = cur
      /\ returned' = returned /\ repeated' = repeated /\ pc # "done"
  BY DEF Trim, clientVars
<1>2. pc = "fetch" => disturbed' # {}
  BY <1>1 DEF Disturb
<1>3. ReturnedIsBehind' /\ SkipIsOfCursor'
  BY <1>1, <1>2 DEF Ordered, ReturnedIsBehind, SkipIsOfCursor
<1>4. WindowRespected'
  BY <1>1 DEF Ordered, WindowRespected, InWindow
<1>5. NoPointTwice'
  BY <1>1, <1>2 DEF Inv, TypeOK, Counted, NoPointTwice
<1> QED BY <1>3, <1>4, <1>5 DEF Ordered

\* The first page has no cursor.
LEMMA BeginKeepsOrder == ASSUME Inv, Inv', Ordered, Begin PROVE Ordered'
<1>1. /\ pc = "idle" /\ pc' = "fetch" /\ returned' = {} /\ repeated' = {}
      /\ query'.from = cur'.ts /\ cur'.skip = 0
  BY DEF Begin, Inv, Counted
<1>2. Sortable(Window') /\ query'.from \in Nat
  BY <1>1, TypesAfter DEF Inv, PageTypes
<1>3. \A n \in Window' : Rank(Window', n) \in Nat /\ Cardinality(Window') \in Nat
  BY <1>2, RankType DEF Sortable
<1>4. Cardinality(Window') \in Nat
  BY <1>2, FS_CardinalityType DEF Sortable
<1>5. ReturnedIsBehind' /\ SkipIsOfCursor'
  BY <1>1, <1>2, <1>3, <1>4 DEF ReturnedIsBehind, SkipIsOfCursor, Ahead, AheadIn
<1>6. WindowRespected' /\ NoPointTwice'
  BY <1>1 DEF WindowRespected, NoPointTwice
<1> QED BY <1>5, <1>6 DEF Ordered

\* What a fetch finds, where scores are exact: its page P, and the cursor behind it.
LEMMA FetchFinds ==
  ASSUME ScoresAreExact, Inv, Ordered, FetchPage
  PROVE  LET P == Slice(Window, cur.skip, cur.skip + query.limit)
         IN  /\ P \subseteq Ahead
             /\ \A n \in P : /\ n \in Members /\ query.from <= n.ts /\ n.ts <= query.to
                             /\ cur.ts <= n.ts
             /\ \A r \in returned : /\ r \in Members /\ r.ts <= cur.ts
                                    /\ disturbed = {} => \A n \in P : Before(r, n)
<1> DEFINE P == Slice(Window, cur.skip, cur.skip + query.limit)
<1>1. /\ pc = "fetch" /\ TypeOK /\ Counted /\ ReturnedIsBehind
  BY DEF FetchPage, Inv, Ordered
<1>2. /\ Sortable(Window) /\ cur.skip \in Nat /\ cur.ts \in Nat /\ query.from \in Nat
      /\ returned \subseteq Members
  BY <1>1, Types DEF PageTypes
<1>3. Window = ByStamp(zset, cur.ts, query.to)
  BY <1>1, WindowByStamp
<1>4. P \subseteq Ahead /\ P \subseteq Window
  <2> SUFFICES ASSUME NEW n \in Window, cur.skip <= Rank(Window, n) PROVE Rank(Window, n) >= cur.skip
    BY DEF Slice, Ahead, AheadIn
  <2>1. Rank(Window, n) \in Nat
    BY <1>2, RankType DEF Sortable
  <2> QED BY <1>2, <2>1
<1>5. ASSUME NEW n \in Window
      PROVE  n \in Members /\ query.from <= n.ts /\ n.ts <= query.to /\ cur.ts <= n.ts
  <2>1. n \in Members /\ n.ts <= query.to /\ cur.ts <= n.ts
    BY <1>2, <1>3 DEF ByStamp, Sortable
  <2>2. n.ts \in Nat /\ query.from <= cur.ts
    BY <1>1, <2>1 DEF Members, ReturnedIsBehind
  <2> QED BY <1>2, <2>1, <2>2
<1> HIDE DEF P
<1> QED BY <1>1, <1>2, <1>4, <1>5 DEF ReturnedIsBehind, P

\* A page.  The cases of its cursor: another ts, whose points begin the new window, or the
\* same one, whose skip grows by the page.
LEMMA FetchKeepsOrder ==
  ASSUME ScoresAreExact, Inv, Inv', Ordered, FetchPage
  PROVE  Ordered'
<1> DEFINE W == Window
           P == Slice(W, cur.skip, cur.skip + query.limit)
           L == Last(P)
           R == AtLast(P)
<1>1. /\ TypeOK /\ Counted /\ ReturnedIsBehind /\ SkipIsOfCursor /\ WindowRespected /\ NoPointTwice
  BY DEF Inv, Ordered
<1>2. /\ pc = "fetch"
      /\ returned' = returned \cup P
      /\ repeated' = repeated \cup (returned \cap P)
      /\ \/ pc' = "done" /\ cur' = cur /\ Cardinality(W) <= cur.skip + query.limit
         \/ pc' = "fetch" /\ cur' = NextCursor(P, cur) /\ cur.skip + query.limit < Cardinality(W)
      /\ UNCHANGED <<backend, zset, seq, written, query, stable, disturbed>>
  BY <1>1, FetchIs
<1>3. /\ Sortable(W) /\ cur.ts \in Nat /\ cur.skip \in Nat /\ query.limit \in Nat \ {0}
      /\ Cardinality(W) \in Nat /\ zset \subseteq Members
      /\ W = ByStamp(zset, cur.ts, query.to)
  BY <1>1, <1>2, Types, WindowByStamp DEF PageTypes
<1>4. /\ P \subseteq Ahead
      /\ \A n \in P : /\ n \in Members /\ query.from <= n.ts /\ n.ts <= query.to
                      /\ cur.ts <= n.ts
      /\ \A r \in returned : /\ r \in Members /\ r.ts <= cur.ts
                             /\ disturbed = {} => \A n \in P : Before(r, n)
  BY FetchFinds
<1>5. WindowRespected'
  BY <1>1, <1>2, <1>4 DEF WindowRespected, InWindow
<1>6. NoPointTwice'
  BY <1>1, <1>2, <1>4, TotalOrder DEF NoPointTwice
<1>7. ASSUME pc' = "fetch"
      PROVE  ReturnedIsBehind' /\ SkipIsOfCursor'
  <2>1. cur' = NextCursor(P, cur) /\ cur.skip + query.limit < Cardinality(W)
        /\ cur.skip + query.limit <= Cardinality(W)
    BY <1>2, <1>3, <1>7
  <2>2. /\ L \in P /\ Rank(W, L) = cur.skip + query.limit - 1
        /\ \A n \in P : n = L \/ Before(n, L)
    BY <1>3, <2>1, LastIs
  <2>3. /\ cur' = [ts |-> L.ts, skip |-> Cardinality(R) + IF L.ts = cur.ts THEN cur.skip ELSE 0]
        /\ IsFiniteSet(R) /\ Cardinality(R) \in 1..query.limit
        /\ R = P => Cardinality(R) = query.limit
    BY <1>3, <2>1, CursorIs
  <2>4. L \in W /\ L \in Members /\ L.ts \in Nat /\ cur.ts <= L.ts
    BY <1>4, <2>2 DEF Slice, Members
  <2>5. \A n \in P : n.ts <= L.ts /\ n \in Members /\ n \in W
    <3> SUFFICES ASSUME NEW n \in P PROVE n.ts <= L.ts /\ n \in W
      BY <1>4
    <3>1. n \in Members /\ n.ts \in Nat /\ n \in W
      BY <1>4 DEF Members, Slice
    <3>2. n = L \/ Before(n, L)
      BY <2>2
    <3> HIDE DEF L, P
    <3> QED BY <2>4, <3>1, <3>2, BeforeIs
  <2>6. Window' = ByStamp(zset, L.ts, query.to)
    BY <1>2, <1>7, <2>3, WindowByStamp
  <2>7. /\ Sortable(Window') /\ Window' \in SUBSET W
        /\ \A n \in W : L.ts <= n.ts => n \in Window'
        /\ \A n \in Window' : n \in Members /\ n \in W /\ L.ts <= n.ts /\ n.ts \in Nat
    <3>1. Sortable(Window')
      BY <1>7, TypesAfter DEF Inv, PageTypes
    <3>2. ASSUME NEW n \in Window' PROVE n \in Members /\ n \in W /\ L.ts <= n.ts /\ n.ts \in Nat
      <4>1. n \in zset /\ n \in Members /\ L.ts <= n.ts /\ n.ts <= query.to
        BY <2>6, <3>1 DEF ByStamp, Sortable
      <4>2. n.ts \in Nat
        BY <4>1 DEF Members
      <4>3. cur.ts <= n.ts
        BY <1>3, <2>4, <4>1, <4>2
      <4> QED BY <1>3, <4>1, <4>2, <4>3 DEF ByStamp
    <3>3. \A n \in W : L.ts <= n.ts => n \in Window'
      BY <1>3, <2>6 DEF ByStamp
    <3> QED BY <3>1, <3>2, <3>3
  <2>8. \A r \in returned' : r \in Members /\ r.ts <= L.ts
    <3> SUFFICES ASSUME NEW r \in returned PROVE r \in Members /\ r.ts <= L.ts
      BY <1>2, <2>5
    <3>1. r \in Members /\ r.ts \in Nat /\ r.ts <= cur.ts
      BY <1>4 DEF Members
    <3> QED BY <1>3, <2>4, <3>1
  \* Undisturbed, the new cursor leaves ahead exactly what is behind the last point.
  <2>9. ASSUME disturbed = {}
        PROVE  /\ cur'.skip <= Cardinality(Window')
               /\ \A n \in Window' : Rank(Window', n) >= cur'.skip => Before(L, n)
               /\ \A n \in Window' : Rank(Window', n) < cur'.skip => n.ts = L.ts
    <3>1. CASE L.ts = cur.ts
      <4>1. Window' = W
        BY <1>3, <2>6, <3>1
      <4>2. R = P
        <5> SUFFICES ASSUME NEW n \in P PROVE n.ts = L.ts
          BY DEF AtLast
        <5>1. n.ts \in Nat /\ cur.ts <= n.ts /\ n.ts <= L.ts
          BY <1>4, <2>5 DEF Members
        <5> QED BY <1>3, <2>4, <3>1, <5>1
      <4>3. cur'.skip = cur.skip + query.limit
        <5>1. Cardinality(R) = query.limit /\ cur'.skip = Cardinality(R) + cur.skip
          BY <2>3, <3>1, <4>2
        <5> HIDE DEF R
        <5> QED BY <1>3, <5>1
      <4>4. ASSUME NEW n \in Window'
            PROVE  /\ Rank(Window', n) \in Nat
                   /\ Rank(Window', n) >= cur'.skip => Before(L, n)
                   /\ Rank(Window', n) < cur'.skip => n.ts = L.ts
        <5>1. n \in W /\ n \in Members /\ Rank(W, n) \in Nat /\ n.ts \in Nat /\ L.ts <= n.ts
          BY <1>3, <2>7, <4>1, RankType
        <5>2. Before(L, n) <=> Rank(W, L) < Rank(W, n)
          <6> HIDE DEF L, W
          <6> QED BY <1>3, <2>4, <5>1, RankOrders
        <5>3. (Before(n, L) <=> Rank(W, n) < Rank(W, L)) /\ (Rank(W, n) = Rank(W, L) => n = L)
          <6> HIDE DEF L, W
          <6> QED BY <1>3, <2>4, <5>1, RankOrders
        <5>4. Before(n, L) => n.ts <= L.ts
          <6> HIDE DEF L
          <6> QED BY <2>4, <5>1, BeforeIs
        <5> HIDE DEF L, W
        <5> QED BY <1>3, <2>2, <2>4, <4>1, <4>3, <5>1, <5>2, <5>3, <5>4
      <4> QED BY <2>1, <4>1, <4>3, <4>4
    <3>2. CASE L.ts # cur.ts
      <4>1. cur'.skip = Cardinality(R) /\ Cardinality(R) \in Nat
        BY <2>3, <3>2
      <4>2. \A n \in W : Rank(W, n) < cur.skip => n.ts = cur.ts
        <5>1. \A n \in W : Rank(W, n) \in Nat
          BY <1>3, RankType DEF Sortable
        <5> QED BY <1>1, <1>2, <1>3, <2>9, <5>1 DEF SkipIsOfCursor, Ahead, AheadIn
      <4>3. R \in SUBSET Window'
        BY <2>5, <2>7, <2>4 DEF AtLast
      <4>4. cur'.skip <= Cardinality(Window')
        <5> HIDE DEF R
        <5> QED BY <2>7, <4>1, <4>3, FS_Subset DEF Sortable
      <4>5. ASSUME NEW n \in Window', ~Before(L, n)
            PROVE  Rank(Window', n) < cur'.skip
        <5>1. n \in Members /\ n \in W /\ (n = L \/ Before(n, L))
          BY <2>4, <2>7, <4>5, TotalOrder
        <5>2. Earlier(Window', n) \in SUBSET (R \ {L})
          <6> SUFFICES ASSUME NEW k \in Window', Before(k, n) PROVE k \in P /\ k.ts = L.ts /\ k # L
            BY DEF Earlier, AtLast
          <6>1. k \in Members /\ k \in W /\ L.ts <= k.ts /\ k.ts \in Nat
            BY <2>7
          <6>2. Before(k, L)
            BY <2>4, <5>1, <6>1, TotalOrder
          <6>3. k.ts = L.ts
            <7>1. k.ts <= L.ts
              BY <2>4, <6>1, <6>2, BeforeIs
            <7> QED BY <2>4, <6>1, <7>1
          <6>4. Rank(W, k) < Rank(W, L) /\ Rank(W, k) \in Nat
            <7> HIDE DEF L, W
            <7> QED BY <1>3, <2>4, <6>1, <6>2, RankOrders, RankType
          <6>5. cur.skip <= Rank(W, k)
            BY <1>3, <3>2, <4>2, <6>1, <6>3, <6>4
          <6>6. k \in P
            BY <1>3, <2>2, <6>1, <6>4, <6>5 DEF Slice
          <6>7. k # L
            BY <2>4, <6>2, TotalOrder
          <6> QED BY <6>3, <6>6, <6>7
        <5>3. L \in R
          BY <2>2 DEF AtLast
        <5>4. IsFiniteSet(R \ {L}) /\ Cardinality(R \ {L}) = Cardinality(R) - 1
          <6> HIDE DEF R, L
          <6> QED BY <2>3, <5>3, FS_RemoveElement
        <5>5. /\ Rank(Window', n) = Cardinality(Earlier(Window', n)) /\ Rank(Window', n) \in Nat
          BY <2>7, <5>1, RankType
        <5>6. Cardinality(Earlier(Window', n)) <= Cardinality(R \ {L})
          <6> HIDE DEF R, L
          <6> QED BY <5>2, <5>4, FS_Subset
        <5> HIDE DEF R, L
        <5> QED BY <4>1, <5>4, <5>5, <5>6
      <4>6. ASSUME NEW n \in Window', Rank(Window', n) < cur'.skip
            PROVE  n.ts = L.ts
        <5> SUFFICES ASSUME n.ts # L.ts PROVE FALSE
          OBVIOUS
        <5>1. n \in Members /\ L.ts < n.ts
          BY <2>4, <2>7
        <5>2. R \in SUBSET Earlier(Window', n)
          <6> SUFFICES ASSUME NEW k \in R PROVE Before(k, n)
            BY <4>3 DEF Earlier
          <6>1. k \in Members /\ k.ts = L.ts
            BY <2>5 DEF AtLast
          <6> QED BY <5>1, <6>1, BeforeIs
        <5>3. /\ Rank(Window', n) = Cardinality(Earlier(Window', n)) /\ Rank(Window', n) \in Nat
              /\ IsFiniteSet(Earlier(Window', n))
          BY <2>7, <5>1, RankType
        <5>4. Cardinality(R) <= Rank(Window', n)
          <6> HIDE DEF R
          <6> QED BY <5>2, <5>3, FS_Subset
        <5> HIDE DEF R
        <5> QED BY <4>1, <4>6, <5>3, <5>4
      <4>7. \A n \in Window' : Rank(Window', n) \in Nat
        BY <2>7, RankType
      <4> QED BY <4>1, <4>4, <4>5, <4>6, <4>7
    <3> QED BY <3>1, <3>2
  <2>10. ReturnedIsBehind'
    <3>1. query'.from <= cur'.ts
      BY <1>2, <1>4, <2>2, <2>3
    <3>2. \A r \in returned' : r.ts <= cur'.ts
      BY <2>3, <2>8
    <3>3. ASSUME disturbed' = {}, NEW r \in returned', NEW n \in Ahead'
          PROVE  Before(r, n)
      <4>1. disturbed = {} /\ n \in Window' /\ Rank(Window', n) >= cur'.skip
        BY <1>2, <3>3 DEF Ahead, AheadIn
      <4>2. Before(L, n) /\ n \in Members
        BY <2>7, <2>9, <4>1
      <4>3. r \in Members /\ (r = L \/ Before(r, L))
        BY <1>2, <1>4, <2>2, <2>8, <4>1
      <4> QED BY <2>4, <4>2, <4>3, TotalOrder
    <3> QED BY <3>1, <3>2, <3>3 DEF ReturnedIsBehind
  <2>11. SkipIsOfCursor'
    <3> SUFFICES ASSUME disturbed = {}, NEW n \in Window', n \notin Ahead'
                 PROVE  n.ts = cur'.ts
      BY <1>2, <2>9 DEF SkipIsOfCursor
    <3>1. Rank(Window', n) \in Nat /\ cur'.skip \in Nat
      BY <1>7, <2>7, RankType, TypesAfter DEF Inv, PageTypes
    <3>2. Rank(Window', n) < cur'.skip
      BY <3>1 DEF Ahead, AheadIn
    <3> QED BY <2>3, <2>9, <3>2
  <2> QED BY <2>10, <2>11
<1>8. pc' # "fetch" => ReturnedIsBehind' /\ SkipIsOfCursor'
  BY DEF ReturnedIsBehind, SkipIsOfCursor
<1> QED BY <1>5, <1>6, <1>7, <1>8 DEF Ordered

\* Nothing happens.
LEMMA StutterKeepsOrder == ASSUME Ordered, UNCHANGED vars PROVE Ordered'
BY DEF Ordered, ReturnedIsBehind, SkipIsOfCursor, WindowRespected, NoPointTwice, InWindow,
       Ahead, AheadIn, Window, vars, clientVars

\* Every step keeps the order.
LEMMA NextKeepsOrder ==
  ASSUME ScoresAreExact
  PROVE  Inv /\ Inv' /\ Ordered /\ [Next]_vars => Ordered'
<1> SUFFICES ASSUME Inv, Inv', Ordered, [Next]_vars PROVE Ordered'
  OBVIOUS
<1>1. ASSUME NEW ts \in Stamps, Append(ts) PROVE Ordered'
  BY <1>1, AppendKeepsOrder
<1>2. ASSUME NEW ts \in Stamps, AppendLate(ts) PROVE Ordered'
  BY <1>2, AppendLateKeepsOrder
<1>3. CASE Trim
  BY <1>3, TrimKeepsOrder
<1>4. CASE Begin
  BY <1>4, BeginKeepsOrder
<1>5. CASE FetchPage
  BY <1>5, FetchKeepsOrder
<1>6. CASE Quiescent \/ UNCHANGED vars
  BY <1>6, StutterKeepsOrder DEF Quiescent
<1> QED BY <1>1, <1>2, <1>3, <1>4, <1>5, <1>6 DEF Next

\* The order holds throughout.
LEMMA OrderInvariance ==
  ASSUME ScoresAreExact
  PROVE  Spec => [](Inv /\ Ordered)
<1>1. Inv /\ Inv' /\ Ordered /\ [Next]_vars => Ordered'
  BY NextKeepsOrder
<1> QED BY InitInv, NextKeeps, InitOrdered, <1>1, PTL DEF Spec

\* A page holds points of the window only, whichever store it comes from.
THEOREM OnlyTheWindow ==
  ASSUME ScoresAreExact
  PROVE  Spec => []WindowRespected
<1>1. Inv /\ Ordered => WindowRespected
  BY DEF Ordered
<1> QED BY <1>1, OrderInvariance, PTL

\* No point is on two pages of a walk during which points arrive in sequence order and no
\* trim runs, whatever they do to the window behind or ahead of the cursor.
THEOREM NothingTwice ==
  ASSUME ScoresAreExact
  PROVE  Spec => []NoPointTwice
<1>1. Inv /\ Ordered => NoPointTwice
  BY DEF Ordered
<1> QED BY <1>1, OrderInvariance, PTL

\* Only a fetch returns points, and it returns none from before the cursor.
LEMMA StepAscends ==
  ASSUME ScoresAreExact
  PROVE  Inv /\ Ordered /\ [Next]_vars
           => \A m \in returned, n \in returned' \ returned :
                m.ts <= n.ts /\ (disturbed = {} => Before(m, n))
<1> SUFFICES ASSUME Inv, Ordered, [Next]_vars, NEW m \in returned, NEW n \in returned' \ returned
             PROVE  m.ts <= n.ts /\ (disturbed = {} => Before(m, n))
  OBVIOUS
<1>1. FetchPage
  BY DEF Next, Append, AppendLate, Store, Trim, Begin, Quiescent, vars, clientVars
<1> DEFINE P == Slice(Window, cur.skip, cur.skip + query.limit)
<1>2. n \in P
  BY <1>1, FetchIs DEF Inv
<1>3. /\ n \in Members /\ cur.ts <= n.ts /\ m \in Members /\ m.ts <= cur.ts
      /\ disturbed = {} => Before(m, n)
  BY <1>1, <1>2, FetchFinds
<1>4. cur.ts \in Nat
  BY <1>1, Types DEF FetchPage, Inv, PageTypes
<1> QED BY <1>3, <1>4 DEF Members

\* The pages never go back in time under any writes and trims between them, and follow the
\* order of the set as long as the writes do and no trim runs.
THEOREM PagesFollow ==
  ASSUME ScoresAreExact
  PROVE  Spec => PagesAscend
<1>1. Inv /\ Ordered /\ [Next]_vars
        => [\A m \in returned, n \in returned' \ returned :
              m.ts <= n.ts /\ (disturbed = {} => Before(m, n))]_vars
  BY StepAscends
<1>2. Spec => [](Inv /\ Ordered)
  BY OrderInvariance
<1> QED BY <1>1, <1>2, PTL DEF Spec, PagesAscend

-----------------------------------------------------------------------------
(* The walk gets on.                                                       *)

\* A page that is not the last moves the cursor on, to a later ts of the window or, at the
\* same one, past more of its points: no request is ever sent twice in a walk.
PageMovesOn ==
  FetchPage /\ pc' = "fetch" =>
    /\ cur'.ts <= query.to
    /\ cur.ts < cur'.ts \/ (cur.ts = cur'.ts /\ cur.skip < cur'.skip)

CursorAdvances == [][PageMovesOn]_vars

\* The cursor behind a page is at its last point, which is not before the cursor of the page;
\* at the same ts the page adds what it has of that ts, at least that point.
LEMMA StepMovesOn ==
  ASSUME ScoresAreExact
  PROVE  Inv /\ Ordered => PageMovesOn
<1> SUFFICES ASSUME Inv, Ordered, FetchPage, pc' = "fetch"
             PROVE  /\ cur'.ts <= query.to
                    /\ cur.ts < cur'.ts \/ (cur.ts = cur'.ts /\ cur.skip < cur'.skip)
  BY DEF PageMovesOn
<1> DEFINE P == Slice(Window, cur.skip, cur.skip + query.limit)
           L == Last(P)
           R == AtLast(P)
<1>1. /\ Sortable(Window) /\ cur.ts \in Nat /\ cur.skip \in Nat /\ query.limit \in Nat \ {0}
      /\ Cardinality(Window) \in Nat
  BY Types DEF FetchPage, Inv, PageTypes
<1>2. cur' = NextCursor(P, cur) /\ cur.skip + query.limit < Cardinality(Window)
  BY FetchIs DEF Inv
<1>3. cur.skip + query.limit <= Cardinality(Window)
  BY <1>1, <1>2
<1>4. /\ cur' = [ts |-> L.ts, skip |-> Cardinality(R) + IF L.ts = cur.ts THEN cur.skip ELSE 0]
      /\ Cardinality(R) \in 1..query.limit
  BY <1>1, <1>2, <1>3, CursorIs
<1>5. L \in P
  BY <1>1, <1>3, LastIs
<1>6. L \in Members /\ L.ts <= query.to /\ cur.ts <= L.ts
  BY <1>5, FetchFinds
<1> HIDE DEF L, R
<1>7. L.ts \in Nat
  BY <1>6 DEF Members
<1>8. cur'.ts = L.ts /\ (L.ts = cur.ts => cur'.skip = Cardinality(R) + cur.skip)
  BY <1>4
<1> QED BY ONLY <1>1, <1>4, <1>6, <1>7, <1>8

\* The safety half of WalkEnds: under any writes and trims the cursors of a walk, each ahead of
\* the one before, have a timestamp of the window and a skip that is at most the number of points
\* written (TypeCorrect), so that only writes without end could make a walk endless.
THEOREM WalkGetsOn ==
  ASSUME ScoresAreExact
  PROVE  Spec => CursorAdvances
<1>1. Inv /\ Ordered /\ [Next]_vars => [PageMovesOn]_vars
  BY StepMovesOn
<1>2. Spec => [](Inv /\ Ordered)
  BY OrderInvariance
<1> QED BY <1>1, <1>2, PTL DEF Spec, CursorAdvances
=============================================================================
