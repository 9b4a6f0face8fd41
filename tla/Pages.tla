-------------------------------- MODULE Pages --------------------------------
(***************************************************************************)
(* How a time window of a sorted set is cut into pages: the ZRANGEBYSCORE  *)
(* that redisStore.Range sends, BuildPage and the cursor it emits.         *)
(*                                                                         *)
(* A set of members stands for the sequence Redis returns: members are     *)
(* totally ordered by Before, and a page is the members of certain ranks.  *)
(***************************************************************************)
EXTENDS Integers, FiniteSets

CONSTANT Exact   \* integers up to Exact are exact scores (2^53: a score is a double)

ASSUME ExactAssumption == Exact \in Nat \ {0} /\ Exact % 4 = 0

\* The double nearest to ts, for ts up to 2 * Exact: above Exact only even numbers
\* are doubles, and a tie goes to the even significand.
Score(ts) ==
  IF ts <= Exact \/ ts % 2 = 0 THEN ts
  ELSE IF (ts - 1) % 4 = 0 THEN ts - 1 ELSE ts + 1

\* Members are ordered by score and, within a score, by bytes: ts, then seq.
Before(m, n) ==
  \/ Score(m.ts) < Score(n.ts)
  \/ Score(m.ts) = Score(n.ts) /\ m.ts < n.ts
  \/ m.ts = n.ts /\ m.seq < n.seq

\* Redis counts ranks from the lowest score.  Mutant: from the highest (ZREVRANGE).
RankFromNewest(S, m) == Cardinality({n \in S : Before(m, n)})
Rank(S, m) == Cardinality({n \in S : Before(n, m)})

\* The members of S with ranks lo .. hi-1.
Slice(S, lo, hi) == {m \in S : lo <= Rank(S, m) /\ Rank(S, m) < hi}

\* ZRANGEBYSCORE key lo hi: Redis reads both bounds as doubles too.  Mutant: +inf.
ByScoreUnbounded(S, lo, hi) == {m \in S : Score(lo) <= Score(m.ts)}
ByScore(S, lo, hi) == {m \in S : Score(lo) <= Score(m.ts) /\ Score(m.ts) <= Score(hi)}

\* The window of the in-memory store: exact timestamps.
ByStamp(S, lo, hi) == {m \in S : lo <= m.ts /\ m.ts <= hi}

\* ... LIMIT cur.skip limit+1, and the loop over the window of the in-memory store.
Fetched(window, cur, limit) == Slice(window, cur.skip, cur.skip + limit + 1)

\* BuildPage: at most limit of the fetched points are the page.
Page(fetched, limit) == Slice(fetched, 0, limit)

Exhausted(fetched, limit) == Cardinality(fetched) <= limit

Last(page) == CHOOSE m \in page : \A n \in page : n = m \/ Before(n, m)

\* Mutants of NextCursor: an exclusive bound; the skip of this page alone; the skip
\* carried over to another ts.
CursorAfter(page, cur) == [ts |-> Last(page).ts + 1, skip |-> 0]
CursorOfPage(page, cur) ==
  [ts |-> Last(page).ts, skip |-> Cardinality({m \in page : m.ts = Last(page).ts})]
CursorCarried(page, cur) ==
  [ts |-> Last(page).ts,
   skip |-> Cardinality({m \in page : m.ts = Last(page).ts}) + cur.skip]

\* The next cursor: the last ts of the page and how many points of that ts have
\* been returned, on this page or, when it did not get past the cursor's ts, before.
NextCursor(page, cur) ==
  LET ts  == Last(page).ts
      run == Cardinality({m \in page : m.ts = ts})
  IN [ts |-> ts, skip |-> run + IF ts = cur.ts THEN cur.skip ELSE 0]
=============================================================================
