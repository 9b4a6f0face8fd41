----------------------------- MODULE Pagination -----------------------------
(***************************************************************************)
(* A client that walks the pages of GET /devices/{id}/telemetry while the  *)
(* device is written and trimmed.  Each page is one ZRANGEBYSCORE, or one  *)
(* critical section of the in-memory store, so the set changes between     *)
(* pages and never within one; all that connects two pages is the cursor   *)
(* (ts, skip) the client sends back.                                       *)
(***************************************************************************)
EXTENDS Pages

CONSTANTS
  Backends,      \* the stores it may run on
  Stamps,        \* timestamps of points, and bounds of windows
  Limits,        \* page sizes clients ask for (1 to 500)
  Cap,           \* points a trim leaves
  Disturbances,  \* what may happen besides writes in sequence order
  MaxAppends     \* bound: points written in a behaviour

ASSUME BackendsAssumption == Backends \subseteq {"redis", "mem"}
ASSUME StampsAssumption == Stamps \subseteq 1..2 * Exact
ASSUME LimitsAssumption == Limits \subseteq Nat \ {0}
ASSUME CapAssumption == Cap \in Nat \ {0}
ASSUME AppendsAssumption == MaxAppends \in Nat
ASSUME DisturbancesAssumption == Disturbances \subseteq {"late", "trim"}

VARIABLES
  backend,   \* the store
  zset,      \* the device's sorted set
  seq,       \* the sequence number last written by this instance
  written,   \* points written so far
  pc,        \* the client: "idle", "fetch" or "done"
  query,     \* its window and page size
  cur,       \* the cursor it sends; (from, 0) stands for none
  returned,  \* history: the members returned to it
  repeated,  \* history: the members returned to it more than once
  stable,    \* history: members stored all along since the walk began
  disturbed  \* history: what else happened since the walk began

clientVars  == <<pc, query, cur, returned, repeated>>
vars == <<backend, zset, seq, written, clientVars, stable, disturbed>>

InWindow(m) == query.from <= m.ts /\ m.ts <= query.to

Init ==
  /\ backend \in Backends
  /\ zset = {}
  /\ seq = 0
  /\ written = 0
  /\ pc = "idle"
  /\ query = [from |-> 0, to |-> 0, limit |-> 0]
  /\ cur = [ts |-> 0, skip |-> 0]
  /\ returned = {}
  /\ repeated = {}
  /\ stable = {}
  /\ disturbed = {}

-----------------------------------------------------------------------------
(* The writers.                                                            *)

Disturb(kinds) == disturbed' = IF pc = "fetch" THEN disturbed \cup kinds ELSE disturbed

\* The newest Cap members stay.
Trimmed(S) == Slice(S, Cardinality(S) - Cap, Cardinality(S))

\* ZADD; or the Append of the in-memory store, which trims what it leaves.
Stored(m) == IF backend = "mem" THEN Trimmed(zset \cup {m}) ELSE zset \cup {m}

\* (The behaviours end with the walk: nobody asks what is stored afterwards.)
Store(m, kinds) ==
  /\ pc # "done" /\ written < MaxAppends
  /\ zset' = Stored(m)
  /\ written' = written + 1
  /\ stable' = stable \cap zset'
  /\ Disturb(kinds \cup IF zset \subseteq zset' THEN {} ELSE {"trim"})
  /\ UNCHANGED <<backend, clientVars>>

\* Writes in sequence order: one instance, one write at a time.  The in-memory store
\* knows no others: it numbers a point under its lock.
Append(ts) ==
  /\ Store([ts |-> ts, seq |-> seq + 1], {})
  /\ seq' = seq + 1

\* A write whose sequence number is not the highest: another instance's counter
\* is behind, or the ZADD of an earlier number was overtaken.
AppendLate(ts) ==
  /\ "late" \in Disturbances /\ backend = "redis"
  /\ \E s \in 1..seq : Store([ts |-> ts, seq |-> s], {"late"})
  /\ UNCHANGED seq

\* ZREMRANGEBYRANK, sent with some other request's write.
Trim ==
  /\ "trim" \in Disturbances /\ backend = "redis"
  /\ pc # "done" /\ Cardinality(zset) > Cap
  /\ zset' = Trimmed(zset)
  /\ stable' = stable \cap zset'
  /\ Disturb({"trim"})
  /\ UNCHANGED <<backend, seq, written, clientVars>>

-----------------------------------------------------------------------------
(* The reader.                                                             *)

\* query: the first request of a walk, without a cursor.
Begin ==
  /\ pc = "idle"
  /\ pc' = "fetch"
  /\ \E from, to \in Stamps, limit \in Limits :
       /\ from <= to
       /\ query' = [from |-> from, to |-> to, limit |-> limit]
       /\ cur' = [ts |-> from, skip |-> 0]
       /\ stable' = {m \in zset : from <= m.ts /\ m.ts <= to}
  /\ UNCHANGED <<backend, zset, seq, written, returned, repeated, disturbed>>

Window ==
  IF backend = "mem" THEN ByStamp(zset, cur.ts, query.to) ELSE ByScore(zset, cur.ts, query.to)

\* Range: one page, and the cursor of the next one if there is more.
FetchPage ==
  /\ pc = "fetch"
  /\ \E fetched \in {Fetched(Window, cur, query.limit)} :
     \E page \in {Page(fetched, query.limit)} :
       /\ returned' = returned \cup page
       /\ repeated' = repeated \cup (returned \cap page)
       /\ \/ /\ Exhausted(fetched, query.limit)
             /\ pc' = "done"
             /\ UNCHANGED cur
          \/ /\ ~Exhausted(fetched, query.limit)
             /\ cur' = NextCursor(page, cur)
             /\ UNCHANGED pc
  /\ UNCHANGED <<backend, zset, seq, written, query, stable, disturbed>>

Quiescent == pc = "done" /\ UNCHANGED vars

Next ==
  \/ \E ts \in Stamps : Append(ts) \/ AppendLate(ts)
  \/ Trim
  \/ Begin
  \/ FetchPage
  \/ Quiescent

Spec == Init /\ [][Next]_vars

\* A client that began to walk asks for the next page.
FairSpec == Spec /\ WF_vars(FetchPage)

-----------------------------------------------------------------------------
TypeOK ==
  /\ backend \in Backends
  /\ zset \subseteq [ts: Stamps, seq: 1..MaxAppends]
  /\ seq \in 0..MaxAppends /\ written \in 0..MaxAppends
  /\ pc \in {"idle", "fetch", "done"}
  /\ pc # "idle" => query \in [from: Stamps, to: Stamps, limit: Limits]
  /\ pc # "idle" => cur \in [ts: Stamps, skip: 0..MaxAppends]
  /\ returned \subseteq [ts: Stamps, seq: 1..MaxAppends]
  /\ repeated \subseteq returned
  /\ stable \subseteq zset
  /\ disturbed \subseteq {"late", "trim"}

\* Without a trim during the walk, a point that is in the window and stored from the
\* first page to the last is on one of the pages.
NoPointSkipped ==
  pc = "done" /\ "trim" \notin disturbed => stable \subseteq returned

\* As long as points arrive in sequence order and no trim runs, no point is on two
\* pages.
NoPointTwice == disturbed = {} => repeated = {}

\* The pages never go back in time, whatever is written or trimmed between them
\* (store.go: ascending ts order); as long as points arrive in sequence order and no trim
\* runs, every new point is behind all that were returned.  A trim can break the order
\* of points of one ts: the cursor may then skip points of a ts it was not made for.
PagesAscend ==
  [][\A m \in returned, n \in returned' \ returned :
       m.ts <= n.ts /\ (disturbed = {} => Before(m, n))]_vars

\* Only points of the window are returned (store.go: from <= ts <= to).
WindowRespected == \A m \in returned : InWindow(m)

\* A walk comes to an end once the writes do.
WalkEnds == (pc = "fetch") ~> (pc = "done")
=============================================================================
