---------------------------- MODULE Ingest_proofs ----------------------------
(* Theorems about the write path, for every value of the constants.          *)
EXTENDS Ingest, FiniteSetTheorems, SequenceTheorems, TLAPS

USE StampsAssumption, ValuesAssumption, CapAssumption, TrimAssumption, BoundsAssumption

\* A request that has not ended has an instance and a device.
Placed ==
  \A r \in Requests : pc[r] # "idle" => inst[r] \in Instances /\ dev[r] \in Devices

\* What is on the wire is what is left of the pipeline: a request sends nothing
\* before "sent" and "trim" follows the reply to "zadd".
WireShape ==
  \A r \in Requests :
    /\ pc[r] \in {"idle", "encode", "connect"} => wire[r] = << >> /\ replies[r] = << >>
    /\ \/ wire[r] = << >>
       \/ wire[r] \in {<<"zadd">>, <<"zadd", "trim">>} /\ replies[r] = << >>
       \/ wire[r] = <<"trim">> /\ Len(replies[r]) = 1

\* What Redis holds has been added, and only finitely much has been added.
Finite ==
  /\ \A d \in Devices : zset[d] \subseteq ever[d] /\ IsFiniteSet(ever[d])
  /\ \A r \in Requests : IsFiniteSet(members[r])

TypeInv == TypeOK /\ Placed /\ WireShape /\ Finite

-----------------------------------------------------------------------------
(* Pipelines, the only sequences of commands there are.                      *)

\* Every pipeline and every rest of one is a sequence of commands (roundtrip).
LEMMA PipelineTypes ==
  << >> \in Seq(Command) /\ <<"zadd">> \in Seq(Command) /\ <<"trim">> \in Seq(Command)
  /\ <<"zadd", "trim">> \in Seq(Command)
BY DEF Command

\* A whole pipeline is neither empty nor the trim alone.
LEMMA PipelineDistinct ==
  <<"zadd", "trim">> # << >> /\ <<"zadd", "trim">> # <<"trim">>
OBVIOUS

\* What is left once Redis has executed the first command.
LEMMA PipelineTails ==
  /\ Tail(<<"zadd">>) = << >> /\ Tail(<<"zadd", "trim">>) = <<"trim">>
  /\ Tail(<<"trim">>) = << >>
OBVIOUS

\* The command Redis executes next.
LEMMA PipelineHeads ==
  /\ Head(<<"zadd">>) = "zadd" /\ Head(<<"zadd", "trim">>) = "zadd"
  /\ Head(<<"trim">>) = "trim"
OBVIOUS

\* The reply to the first command is the only one so far.
LEMMA FirstReply == \A x : Len(Append(<< >>, x)) = 1
OBVIOUS

\* What a broken connection can leave of a pipeline.
LEMMA PipelinePrefixes ==
  ASSUME NEW w \in {<< >>, <<"zadd">>, <<"trim">>, <<"zadd", "trim">>},
         NEW k \in 0..Len(w)
  PROVE  SubSeq(w, 1, k) = w \/ SubSeq(w, 1, k) = << >>
         \/ (w = <<"zadd", "trim">> /\ SubSeq(w, 1, k) = <<"zadd">>)
<1>1. w \in Seq(Command)
  BY PipelineTypes
<1>2. SubSeq(w, 1, Len(w)) = w
  BY <1>1, SubSeqFull
<1>3. SubSeq(w, 1, 0) = << >>
  BY SubSeqEmpty
<1>4. CASE w = <<"zadd", "trim">> /\ k = 1
  <2> DEFINE t == <<"zadd">>
             u == SubSeq(w, 1, 1)
  <2>1. Len(w) = 2 /\ w[1] = "zadd" /\ Len(t) = 1 /\ t[1] = "zadd"
    BY <1>4
  <2>2. t \in Seq(Command)
    BY PipelineTypes
  <2>3. u \in Seq(Command) /\ Len(u) = 1 /\ u[1] = "zadd"
    BY <2>1, SubSeqProperties DEF Command
  <2> HIDE DEF t, u
  <2>4. t = u
    BY <2>1, <2>2, <2>3, SeqEqual
  <2> QED BY <1>4, <2>4 DEF t, u
<1>5. k = 0 \/ k = Len(w) \/ (w = <<"zadd", "trim">> /\ k = 1)
  <2>1. Len(<< >>) = 0 /\ Len(<<"zadd">>) = 1 /\ Len(<<"trim">>) = 1
        /\ Len(<<"zadd", "trim">>) = 2
    OBVIOUS
  <2>2. CASE w = <<"zadd", "trim">>
    BY <2>1, <2>2
  <2>3. CASE w # <<"zadd", "trim">>
    <3>1. Len(w) \in 0..1
      BY <2>1, <2>3
    <3> QED BY <3>1
  <2> QED BY <2>2, <2>3
<1> QED BY <1>2, <1>3, <1>4, <1>5

-----------------------------------------------------------------------------
\* A fresh process and an empty Redis satisfy the invariant (NewRedis).
LEMMA InitTypeInv == Init => TypeInv
<1> SUFFICES ASSUME Init PROVE TypeInv
  OBVIOUS
<1> USE DEF Init
<1>1. TypeOK
  BY DEF TypeOK, Phase
<1>2. Placed /\ WireShape
  BY DEF Placed, WireShape
<1>3. Finite
  BY FS_EmptySet DEF Finite
<1> QED BY <1>1, <1>2, <1>3 DEF TypeInv

\* The steps a request takes before Redis hears of it.
LEMMA PrepareTypeInv ==
  ASSUME TypeInv, NEW r \in Requests,
         Receive(r) \/ EncodeMember(r) \/ CountWrite(r) \/ Send(r)
  PROVE  TypeInv'
<1> USE DEF TypeInv, TypeOK, instanceVars, storeVars, callVars, batchVars, connVars
<1>1. CASE Receive(r)
  <2> USE <1>1 DEF Receive
  <2>1. PICK batch \in Batch : /\ todo' = [todo EXCEPT ![r] = batch]
                               /\ size' = [size EXCEPT ![r] = Len(batch)]
    OBVIOUS
  <2>2. batch \in Seq(Point) /\ Len(batch) \in Nat
    BY BatchAssumption DEF Batch
  <2>3. TypeOK'
    BY <2>1, <2>2 DEF Phase
  <2>4. Placed' /\ WireShape'
    BY DEF Placed, WireShape
  <2>5. Finite'
    BY DEF Finite
  <2> QED BY <2>3, <2>4, <2>5
<1>2. CASE EncodeMember(r)
  <2> USE <1>2 DEF EncodeMember
  <2> DEFINE m == Encoded(Head(todo[r]), seq[inst[r]] + 1)
  <2>1. inst[r] \in Instances
    BY DEF Placed
  <2>2. Head(todo[r]) \in Point /\ Tail(todo[r]) \in Seq(Point)
    OBVIOUS
  <2>3. m \in Member
    BY <2>1, <2>2 DEF Encoded, Member, Point
  <2>4. members' = [members EXCEPT ![r] = @ \cup {m}]
    OBVIOUS
  <2> HIDE DEF m
  <2>5. TypeOK'
    <3>1. members' \in [Requests -> SUBSET Member]
      <4>1. members \in [Requests -> SUBSET Member]
        OBVIOUS
      <4> QED BY ONLY <2>3, <2>4, <4>1
    <3>2. todo' \in [Requests -> Seq(Point)]
      BY <2>2
    <3> QED BY <2>1, <3>1, <3>2, SMTT(30)
  <2>6. Placed' /\ WireShape'
    <3>1. pc' = pc /\ inst' = inst /\ dev' = dev /\ wire' = wire /\ replies' = replies
      OBVIOUS
    <3> QED BY ONLY TypeInv, <3>1 DEF TypeInv, Placed, WireShape
  <2>7. IsFiniteSet(members[r] \cup {m})
    BY FS_AddElement DEF Finite
  <2>8. Finite'
    BY <2>4, <2>7 DEF Finite
  <2> QED BY <2>5, <2>6, <2>8
<1>3. CASE CountWrite(r)
  <2> USE <1>3 DEF CountWrite, Trims
  <2>1. inst[r] \in Instances
    BY DEF Placed
  <2>2. TypeOK'
    BY <2>1, SMTT(30) DEF Phase
  <2>3. Placed' /\ WireShape' /\ Finite'
    BY DEF Placed, WireShape, Finite
  <2> QED BY <2>2, <2>3
<1>4. CASE Send(r)
  <2> USE <1>4 DEF Send
  <2>1. Commands(r) \in {<<"zadd">>, <<"zadd", "trim">>} /\ Commands(r) \in Seq(Command)
    BY PipelineTypes DEF Commands
  <2>2. TypeOK'
    BY <2>1 DEF Phase
  <2>3. Placed' /\ WireShape' /\ Finite'
    BY <2>1 DEF Placed, WireShape, Finite
  <2> QED BY <2>2, <2>3
<1> QED BY <1>1, <1>2, <1>3, <1>4

\* The newest members of a set are among its members.
LEMMA NewestSubset == \A S, k : Newest(S, k) \subseteq S
  BY DEF Newest

\* The steps Redis takes for a request.
LEMMA ExecuteTypeInv ==
  ASSUME TypeInv, NEW r \in Requests, RedisAdd(r) \/ RedisTrim(r)
  PROVE  TypeInv'
<1> USE DEF TypeInv, TypeOK, instanceVars, storeVars, callVars, batchVars, connVars
<1>1. wire[r] # << >>
  BY DEF RedisAdd, RedisTrim
<1>2. dev[r] \in Devices /\ pc[r] \notin {"idle", "encode", "connect"}
  BY <1>1 DEF Placed, WireShape
<1>3. Tail(wire[r]) \in Seq(Command) /\ Append(replies[r], "ok") \in Seq(Reply)
  BY <1>1 DEF Reply
<1>4. CASE RedisAdd(r)
  <2> USE <1>4 DEF RedisAdd
  <2>1. wire[r] \in {<<"zadd">>, <<"zadd", "trim">>} /\ replies[r] = << >>
    BY DEF WireShape
  <2>2. IsFiniteSet(ever[dev[r]] \cup members[r])
    BY <1>2, FS_Union DEF Finite
  <2>3. Cardinality(members[r] \ zset[dev[r]]) \in Nat
    BY FS_Difference, FS_CardinalityType DEF Finite
  <2>4. TypeOK'
    BY <1>2, <1>3, <2>3
  <2>5. Placed'
    BY DEF Placed
  <2>6. /\ Tail(wire[r]) = << >> \/ Tail(wire[r]) = <<"trim">>
        /\ Len(Append(replies[r], "ok")) = 1
    BY <2>1, PipelineTails, FirstReply
  <2>7. WireShape'
    BY <1>2, <2>6 DEF WireShape
  <2>8. Finite'
    BY <1>2, <2>2 DEF Finite
  <2> QED BY <2>4, <2>5, <2>7, <2>8
<1>5. CASE RedisTrim(r)
  <2> USE <1>5 DEF RedisTrim
  <2>1. Tail(wire[r]) = << >>
    BY <1>1, PipelineHeads, PipelineTails DEF WireShape
  <2>2. Trimmed(zset[dev[r]]) \subseteq zset[dev[r]]
    BY NewestSubset DEF Trimmed
  <2>3. TypeOK'
    BY <1>2, <1>3, <2>2
  <2>4. Placed'
    BY DEF Placed
  <2>5. WireShape'
    BY <1>2, <2>1 DEF WireShape
  <2>6. Finite'
    BY <1>2, <2>2 DEF Finite
  <2> QED BY <2>3, <2>4, <2>5, <2>6
<1> QED BY <1>4, <1>5

\* The answer, and the end of the request.
LEMMA AnswerTypeInv ==
  ASSUME TypeInv, NEW r \in Requests, Accept(r) \/ Reject(r) \/ Finish(r)
  PROVE  TypeInv'
<1> USE DEF TypeInv, TypeOK, instanceVars, storeVars, callVars, batchVars, connVars
<1>1. CASE Accept(r)
  <2> USE <1>1 DEF Accept
  <2>1. inst[r] \in Instances
    BY DEF Placed
  <2>2. TypeOK'
    BY <2>1, SMTT(30) DEF Phase
  <2>3. Placed' /\ WireShape' /\ Finite'
    BY DEF Placed, WireShape, Finite
  <2> QED BY <2>2, <2>3
<1>2. CASE Reject(r)
  <2> USE <1>2 DEF Reject
  <2>1. TypeOK'
    BY DEF Phase
  <2>2. Placed' /\ WireShape' /\ Finite'
    BY DEF Placed, WireShape, Finite
  <2> QED BY <2>1, <2>2
<1>3. CASE Finish(r)
  <2> USE <1>3 DEF Finish
  <2>1. TypeOK'
    BY DEF Phase
  <2>2. Placed'
    BY DEF Placed
  <2>3. WireShape'
    BY DEF WireShape
  <2>4. Finite'
    BY FS_EmptySet DEF Finite
  <2> QED BY <2>1, <2>2, <2>3, <2>4
<1> QED BY <1>1, <1>2, <1>3

\* Faults of one request's connection.
LEMMA RequestFaultTypeInv ==
  ASSUME TypeInv, NEW r \in Requests, RequestFault(r)
  PROVE  TypeInv'
<1> USE DEF TypeInv, TypeOK, Fault, instanceVars, storeVars, callVars, batchVars, connVars
<1>1. CASE DialFails(r)
  <2> USE <1>1 DEF DialFails
  <2>1. TypeOK'
    BY DEF Phase
  <2>2. Placed' /\ WireShape' /\ Finite'
    BY DEF Placed, WireShape, Finite
  <2> QED BY <2>1, <2>2
<1>2. CASE ConnBreaks(r)
  <2> USE <1>2 DEF ConnBreaks
  <2>1. PICK k \in 0..Len(wire[r]) : wire' = [wire EXCEPT ![r] = SubSeq(@, 1, k)]
    OBVIOUS
  <2>2. wire[r] \in {<< >>, <<"zadd">>, <<"trim">>, <<"zadd", "trim">>}
    BY DEF WireShape
  <2>3. \/ SubSeq(wire[r], 1, k) = wire[r] \/ SubSeq(wire[r], 1, k) = << >>
        \/ wire[r] = <<"zadd", "trim">> /\ SubSeq(wire[r], 1, k) = <<"zadd">>
    BY <2>2, PipelinePrefixes
  <2>4. SubSeq(wire[r], 1, k) \in Seq(Command)
    BY <2>3, PipelineTypes
  <2>5. TypeOK'
    BY <2>1, <2>4
  <2>6. Placed' /\ Finite'
    BY DEF Placed, Finite
  <2>7. WireShape'
    <3> DEFINE w == SubSeq(wire[r], 1, k)
    <3>1. wire' = [wire EXCEPT ![r] = w] /\ pc' = pc /\ replies' = replies
      BY <2>1
    <3>2. pc[r] = "sent"
      OBVIOUS
    <3>3. \/ w = << >>
          \/ w \in {<<"zadd">>, <<"zadd", "trim">>} /\ replies[r] = << >>
          \/ w = <<"trim">> /\ Len(replies[r]) = 1
      <4>1. CASE wire[r] = <<"zadd", "trim">> /\ w = <<"zadd">>
        BY <4>1, PipelineDistinct DEF WireShape
      <4> QED BY <2>3, <4>1 DEF WireShape
    <3> HIDE DEF w
    <3> QED BY ONLY TypeInv, <3>1, <3>2, <3>3 DEF TypeInv, TypeOK, WireShape
  <2> QED BY <2>5, <2>6, <2>7
<1>3. CASE RedisRefuses(r)
  <2> USE <1>3 DEF RedisRefuses
  <2>1. pc[r] \notin {"idle", "encode", "connect"}
    BY DEF WireShape
  <2>2. Tail(wire[r]) \in Seq(Command) /\ Append(replies[r], "err") \in Seq(Reply)
    BY DEF Reply
  <2>3. \/ Tail(wire[r]) = << >>
        \/ Tail(wire[r]) = <<"trim">> /\ Len(Append(replies[r], "err")) = 1
    <3>1. CASE wire[r] \in {<<"zadd">>, <<"zadd", "trim">>} /\ replies[r] = << >>
      BY <3>1, PipelineTails, FirstReply
    <3>2. CASE wire[r] = <<"trim">>
      BY <3>2, PipelineTails
    <3>3. \/ wire[r] \in {<<"zadd">>, <<"zadd", "trim">>} /\ replies[r] = << >>
          \/ wire[r] = <<"trim">>
      BY DEF WireShape
    <3> QED BY <3>1, <3>2, <3>3
  <2>4. TypeOK'
    BY <2>2
  <2>5. Placed' /\ Finite'
    BY DEF Placed, Finite
  <2>6. WireShape'
    <3>1. /\ pc' = pc
          /\ wire' = [wire EXCEPT ![r] = Tail(wire[r])]
          /\ replies' = [replies EXCEPT ![r] = Append(replies[r], "err")]
      OBVIOUS
    <3> DEFINE w == Tail(wire[r])
               l == Append(replies[r], "err")
    <3>2. w = << >> \/ (w = <<"trim">> /\ Len(l) = 1)
      BY <2>3
    <3>3. wire' = [wire EXCEPT ![r] = w] /\ replies' = [replies EXCEPT ![r] = l]
      BY <3>1
    <3> HIDE DEF w, l
    <3> QED BY ONLY TypeInv, <2>1, <3>1, <3>2, <3>3 DEF TypeInv, TypeOK, WireShape
  <2> QED BY <2>4, <2>5, <2>6
<1> QED BY <1>1, <1>2, <1>3 DEF RequestFault

\* Faults of an instance or of Redis.
LEMMA ProcessFaultTypeInv ==
  ASSUME TypeInv,
         \/ \E i \in Instances : InstanceRestarts(i)
         \/ RedisRestarts
         \/ \E d \in Devices : RedisEvicts(d)
  PROVE  TypeInv'
<1> USE DEF TypeInv, TypeOK, Fault, instanceVars, storeVars, callVars, batchVars, connVars
<1>1. ASSUME NEW i \in Instances, InstanceRestarts(i) PROVE TypeInv'
  <2> USE <1>1 DEF InstanceRestarts
  <2>1. TypeOK'
    BY DEF Phase
  <2>2. Placed' /\ WireShape' /\ Finite'
    BY DEF Placed, WireShape, Finite
  <2> QED BY <2>1, <2>2
<1>2. CASE RedisRestarts
  <2> USE <1>2 DEF RedisRestarts
  <2>1. \A r \in Requests : (broken[r] \/ pc[r] = "sent") \in BOOLEAN
    OBVIOUS
  <2>2. TypeOK'
    BY <2>1, PipelineTypes
  <2>3. Placed' /\ WireShape'
    BY DEF Placed, WireShape
  <2>4. Finite'
    BY FS_EmptySet DEF Finite
  <2> QED BY <2>2, <2>3, <2>4
<1>3. ASSUME NEW d \in Devices, RedisEvicts(d) PROVE TypeInv'
  <2> USE <1>3 DEF RedisEvicts
  <2>1. TypeOK'
    OBVIOUS
  <2>2. Placed' /\ WireShape'
    BY DEF Placed, WireShape
  <2>3. Finite'
    BY FS_EmptySet DEF Finite
  <2> QED BY <2>1, <2>2, <2>3
<1> QED BY <1>1, <1>2, <1>3

\* Every step preserves the invariant.
LEMMA StepTypeInv == TypeInv /\ [Next]_vars => TypeInv'
<1> SUFFICES ASSUME TypeInv, [Next]_vars PROVE TypeInv'
  OBVIOUS
<1>1. ASSUME NEW r \in Requests, Receive(r) \/ Server(r) \/ RequestFault(r) PROVE TypeInv'
  BY <1>1, PrepareTypeInv, ExecuteTypeInv, AnswerTypeInv, RequestFaultTypeInv DEF Server
<1>2. CASE UNCHANGED vars
  BY <1>2 DEF TypeInv, TypeOK, Placed, WireShape, Finite, vars, instanceVars, storeVars,
              callVars, batchVars, connVars
<1>3. CASE Quiescent
  BY <1>2, <1>3 DEF Quiescent
<1> QED BY <1>1, <1>2, <1>3, ProcessFaultTypeInv DEF Next

\* The inductive invariant holds throughout every behaviour of the write path.
LEMMA TypeInvariance == Spec => []TypeInv
BY InitTypeInv, StepTypeInv, PTL DEF Spec

\* Type correctness of the write path.
THEOREM TypeCorrect == Spec => []TypeOK
<1>1. TypeInv => TypeOK
  BY DEF TypeInv
<1> QED BY <1>1, TypeInvariance, PTL

-----------------------------------------------------------------------------
(* The trim never costs one of the newest Cap points.                        *)

\* Adding members never makes an old member one of the newest k.
LEMMA NewestMonotone ==
  ASSUME NEW S, NEW T, S \subseteq T, IsFiniteSet(T), NEW m \in S, NEW k \in Nat,
         Cardinality(Newer(T, m)) < k
  PROVE  Cardinality(Newer(S, m)) < k
<1>1. Newer(T, m) \subseteq T /\ Newer(S, m) \subseteq Newer(T, m)
  BY DEF Newer
<1>2. IsFiniteSet(Newer(T, m))
  BY <1>1, FS_Subset
<1>3. /\ Cardinality(Newer(S, m)) <= Cardinality(Newer(T, m))
      /\ Cardinality(Newer(S, m)) \in Nat /\ Cardinality(Newer(T, m)) \in Nat
  BY <1>1, <1>2, FS_Subset, FS_CardinalityType
<1> QED BY <1>3

\* No step of a request or of Redis removes one of the newest Cap members.
LEMMA StepNewestRetained ==
  TypeInv /\ NewestRetained /\ [Next]_vars => NewestRetained'
<1> SUFFICES ASSUME TypeInv, NewestRetained, [Next]_vars, NEW d \in Devices
             PROVE  Newest(ever'[d], Cap) \subseteq zset'[d]
  BY DEF NewestRetained
<1> USE DEF TypeInv, TypeOK, storeVars
<1>1. Newest(ever[d], Cap) \subseteq zset[d] /\ zset[d] \subseteq ever[d] /\ IsFiniteSet(ever[d])
  BY DEF NewestRetained, Finite
<1>2. ASSUME NEW r \in Requests, RedisAdd(r), dev[r] = d
      PROVE  Newest(ever'[d], Cap) \subseteq zset'[d]
  <2>1. ever'[d] = ever[d] \cup members[r] /\ zset'[d] = zset[d] \cup members[r]
    BY <1>2 DEF RedisAdd
  <2>2. IsFiniteSet(ever'[d])
    <3>1. IsFiniteSet(members[r])
      BY DEF Finite
    <3>2. IsFiniteSet(ever[d] \cup members[r])
      BY <1>1, <3>1, FS_Union
    <3> QED BY <2>1, <3>2
  <2> SUFFICES ASSUME NEW m \in ever[d], Cardinality(Newer(ever'[d], m)) < Cap
               PROVE  m \in zset[d]
    BY <2>1 DEF Newest
  <2>3. Cardinality(Newer(ever[d], m)) < Cap
    BY <2>1, <2>2, NewestMonotone
  <2> QED BY <1>1, <2>3 DEF Newest
<1>3. ASSUME NEW r \in Requests, RedisTrim(r), dev[r] = d
      PROVE  Newest(ever'[d], Cap) \subseteq zset'[d]
  <2>1. ever'[d] = ever[d] /\ zset'[d] = Newest(zset[d], Cap)
    BY <1>3 DEF RedisTrim, Trimmed
  <2> SUFFICES ASSUME NEW m \in ever[d], Cardinality(Newer(ever[d], m)) < Cap
               PROVE  m \in Newest(zset[d], Cap)
    BY <2>1 DEF Newest
  <2>2. m \in zset[d]
    BY <1>1 DEF Newest
  <2>3. Cardinality(Newer(zset[d], m)) < Cap
    BY <1>1, <2>2, NewestMonotone
  <2> QED BY <2>2, <2>3 DEF Newest
<1>4. CASE ever'[d] = ever[d] /\ zset'[d] = zset[d]
  BY <1>1, <1>4
<1>5. CASE ever'[d] = {}
  BY <1>5, NewestSubset
<1>6. ASSUME NEW r \in Requests, Receive(r) \/ Server(r) \/ RequestFault(r)
      PROVE  Newest(ever'[d], Cap) \subseteq zset'[d]
  <2>1. CASE RedisAdd(r)
    <3>1. CASE dev[r] # d
      BY <2>1, <3>1, <1>4 DEF RedisAdd
    <3> QED BY <2>1, <3>1, <1>2
  <2>2. CASE RedisTrim(r)
    <3>1. CASE dev[r] # d
      BY <2>2, <3>1, <1>4 DEF RedisTrim
    <3> QED BY <2>2, <3>1, <1>3
  <2>3. CASE UNCHANGED storeVars
    BY <2>3, <1>4
  <2> QED BY <1>6, <2>1, <2>2, <2>3
          DEF Receive, Server, EncodeMember, CountWrite, Trims, Send, Accept, Reject, Finish,
              RequestFault, DialFails, ConnBreaks, RedisRefuses
<1>7. CASE \E i \in Instances : InstanceRestarts(i)
  BY <1>4, <1>7 DEF InstanceRestarts
<1>8. CASE RedisRestarts
  BY <1>5, <1>8 DEF RedisRestarts
<1>9. ASSUME NEW e \in Devices, RedisEvicts(e)
      PROVE  Newest(ever'[d], Cap) \subseteq zset'[d]
  <2>1. CASE e = d
    BY <1>5, <1>9, <2>1 DEF RedisEvicts
  <2>2. CASE e # d
    BY <1>4, <1>9, <2>2 DEF RedisEvicts
  <2> QED BY <2>1, <2>2
<1>10. CASE UNCHANGED vars
  BY <1>4, <1>10 DEF vars
<1> QED BY <1>6, <1>7, <1>8, <1>9, <1>10 DEF Next, Quiescent

\* Whatever the interleaving of ZADDs and trims of all instances and whatever
\* the faults, a device keeps the newest Cap of the points stored since its key
\* was last lost.
THEOREM TrimKeepsNewest == Spec => []NewestRetained
<1>1. Init => NewestRetained
  <2> SUFFICES ASSUME Init, NEW d \in Devices PROVE Newest(ever[d], Cap) \subseteq zset[d]
    BY DEF NewestRetained
  <2>1. ever[d] = {}
    BY DEF Init
  <2> QED BY <2>1, NewestSubset
<1> QED BY <1>1, StepNewestRetained, TypeInvariance, PTL DEF Spec

-----------------------------------------------------------------------------
(* An accepted batch is stored, as long as Redis does not lose its data.     *)

NoLoss == {"redis", "evict"} \cap FaultKinds = {}

Applied(r) == replies[r] # << >> /\ Head(replies[r]) = "ok"

\* A positive first reply means the batch has been added.
AppliedInv ==
  \A r \in Requests :
    /\ Applied(r) => members[r] \subseteq ever[dev[r]]
    /\ pc[r] = "accepted" => Applied(r)

\* A further reply does not change the first one.
LEMMA AppendHead ==
  /\ \A x : Append(<< >>, x) # << >> /\ Head(Append(<< >>, x)) = x
  /\ \A s \in Seq(Reply), x \in Reply :
       Append(s, x) # << >> /\ (s # << >> => Head(Append(s, x)) = Head(s))
<1>1. ASSUME NEW x PROVE Append(<< >>, x) # << >> /\ Head(Append(<< >>, x)) = x
  <2>1. << >> \in Seq({x})
    OBVIOUS
  <2>2. Len(Append(<< >>, x)) = 1 /\ Append(<< >>, x)[1] = x
    BY <2>1
  <2>3. Append(<< >>, x) \in Seq({x})
    BY <2>1
  <2> QED BY <2>2, <2>3
<1>2. ASSUME NEW s \in Seq(Reply), NEW x \in Reply
      PROVE  Append(s, x) # << >> /\ (s # << >> => Head(Append(s, x)) = Head(s))
  <2>1. Append(s, x) \in Seq(Reply) /\ Len(Append(s, x)) = Len(s) + 1 /\ Len(s) \in Nat
    OBVIOUS
  <2>2. Append(s, x) # << >>
    BY <2>1, EmptySeq
  <2>3. ASSUME s # << >> PROVE Head(Append(s, x)) = Head(s)
    <3>1. Len(s) >= 1 /\ Append(s, x)[1] = s[1]
      BY <2>3
    <3> QED BY <2>1, <2>2, <2>3, <3>1
  <2> QED BY <2>2, <2>3
<1> QED BY <1>1, <1>2

\* There are two kinds of reply, and they differ.
LEMMA ReplyRange == Reply = {"ok", "err"} /\ "ok" # "err"
BY DEF Reply

\* A request all of whose replies are in and good has had its batch added.
LEMMA RepliedApplied ==
  ASSUME TypeInv, NEW r \in Requests, Replied(r), ~Refused(r)
  PROVE  Applied(r)
<1>1. replies[r] \in Seq(Reply)
  BY DEF TypeInv, TypeOK
<1>2. Len(Commands(r)) \in {1, 2}
  BY DEF Commands
<1>3. 1 \in DOMAIN replies[r] /\ replies[r] # << >>
  <2>1. Len(replies[r]) \in {1, 2}
    BY <1>2 DEF Replied
  <2> QED BY ONLY <1>1, <2>1
<1>4. replies[r][1] \in Reply /\ replies[r][1] # "err"
  BY <1>1, <1>3 DEF Refused
<1> QED BY <1>1, <1>3, <1>4 DEF Applied, Reply

\* Replies after the first, and error replies, do not make a request applied.
LEMMA LaterReply ==
  ASSUME TypeInv, NEW r \in Requests, RedisTrim(r) \/ RedisRefuses(r)
  PROVE  \A q \in Requests : Applied(q)' <=> Applied(q)
<1> USE DEF TypeInv, TypeOK, RedisTrim, RedisRefuses, Fault
<1>1. PICK x \in Reply : /\ replies' = [replies EXCEPT ![r] = Append(replies[r], x)]
                         /\ replies[r] = << >> => x = "err"
  <2>1. CASE RedisTrim(r)
    <3>1. Len(replies[r]) = 1
      BY <2>1, PipelineHeads DEF WireShape
    <3> QED BY <2>1, <3>1, ReplyRange
  <2>2. CASE RedisRefuses(r)
    BY <2>2, ReplyRange
  <2> QED BY <2>1, <2>2
<1>2. Applied(r)' <=> Applied(r)
  <2>1. CASE replies[r] = << >>
    BY <1>1, <2>1, AppendHead, ReplyRange DEF Applied
  <2>2. CASE replies[r] # << >>
    BY <1>1, <2>2, AppendHead DEF Applied
  <2> QED BY <2>1, <2>2
<1>3. \A q \in Requests : Applied(q)' <=> Applied(q)
  BY <1>1, <1>2 DEF Applied
<1> QED BY <1>3

\* As long as Redis keeps its data, a request whose ZADD was answered stays applied.
LEMMA StepAppliedInv ==
  ASSUME NoLoss, TypeInv, AppliedInv, [Next]_vars
  PROVE  AppliedInv'
<1> USE DEF TypeInv, TypeOK, instanceVars, storeVars, callVars, batchVars, connVars
<1>1. ASSUME NEW r \in Requests, Receive(r) \/ EncodeMember(r) \/ CountWrite(r) \/ Send(r)
      PROVE  AppliedInv'
  <2>1. replies[r] = << >> /\ pc'[r] # "accepted"
    BY <1>1 DEF Receive, EncodeMember, CountWrite, Trims, Send, WireShape
  <2>2. /\ replies' = replies /\ ever' = ever
        /\ \A q \in Requests \ {r} : pc'[q] = pc[q] /\ members'[q] = members[q] /\ dev'[q] = dev[q]
    BY <1>1 DEF Receive, EncodeMember, CountWrite, Trims, Send
  <2> QED BY <2>1, <2>2 DEF AppliedInv, Applied
<1>2. ASSUME NEW r \in Requests, RedisAdd(r) PROVE AppliedInv'
  <2> USE <1>2 DEF RedisAdd
  <2>1. dev[r] \in Devices
    BY DEF Placed, WireShape
  <2>2. \A q \in Requests : ever[dev[q]] \subseteq ever'[dev[q]]
    BY <2>1
  <2>3. members[r] \subseteq ever'[dev[r]]
    BY <2>1
  <2>4. replies[r] = << >>
    BY PipelineHeads DEF WireShape
  <2>5. replies'[r] = Append(<< >>, "ok") /\ \A q \in Requests \ {r} : replies'[q] = replies[q]
    BY <2>4
  <2>6. Applied(r)'
    BY <2>5, AppendHead DEF Applied
  <2>7. pc' = pc /\ members' = members /\ dev' = dev
    OBVIOUS
  <2> QED BY ONLY AppliedInv, <2>2, <2>3, <2>5, <2>6, <2>7 DEF AppliedInv, Applied
<1>3. ASSUME NEW r \in Requests, RedisTrim(r) \/ RedisRefuses(r) PROVE AppliedInv'
  <2>1. \A q \in Requests : Applied(q)' <=> Applied(q)
    BY <1>3, LaterReply
  <2>2. pc' = pc /\ members' = members /\ dev' = dev /\ ever' = ever
    BY <1>3 DEF RedisTrim, RedisRefuses
  <2> QED BY ONLY AppliedInv, <2>1, <2>2 DEF AppliedInv
<1>4. ASSUME NEW r \in Requests, Accept(r) PROVE AppliedInv'
  <2>1. Applied(r)
    BY <1>4, RepliedApplied DEF Accept
  <2> QED BY <1>4, <2>1 DEF Accept, AppliedInv, Applied
<1>5. ASSUME NEW r \in Requests, Reject(r) \/ DialFails(r) \/ ConnBreaks(r) PROVE AppliedInv'
  BY <1>5 DEF Reject, DialFails, ConnBreaks, AppliedInv, Applied
<1>6. ASSUME NEW r \in Requests, Finish(r) PROVE AppliedInv'
  <2>1. replies'[r] = << >> /\ pc'[r] = "idle"
    BY <1>6 DEF Finish
  <2>2. /\ ever' = ever
        /\ \A q \in Requests \ {r} : /\ pc'[q] = pc[q] /\ replies'[q] = replies[q]
                                     /\ members'[q] = members[q] /\ dev'[q] = dev[q]
    BY <1>6 DEF Finish
  <2> QED BY <2>1, <2>2 DEF AppliedInv, Applied
<1>7. ASSUME NEW i \in Instances, InstanceRestarts(i) PROVE AppliedInv'
  BY <1>7 DEF InstanceRestarts, AppliedInv, Applied
<1>8. ~RedisRestarts /\ \A d \in Devices : ~RedisEvicts(d)
  BY DEF RedisRestarts, RedisEvicts, Fault, NoLoss
<1>9. CASE UNCHANGED vars
  BY <1>9 DEF vars, AppliedInv, Applied
<1> QED BY <1>1, <1>2, <1>3, <1>4, <1>5, <1>6, <1>7, <1>8, <1>9
        DEF Next, Server, RequestFault, Quiescent

\* A 202 means persisted: unless Redis itself loses its data, every point of an
\* accepted batch is stored, or Cap newer points of its device have been since.
THEOREM AcceptedPersists ==
  ASSUME NoLoss
  PROVE  Spec => []AcceptedIsStored
<1>1. Init => AppliedInv
  BY DEF Init, AppliedInv, Applied
<1>2. TypeInv /\ AppliedInv /\ [Next]_vars => AppliedInv'
  BY StepAppliedInv
<1>3. TypeInv /\ AppliedInv /\ NewestRetained => AcceptedIsStored
  <2> SUFFICES ASSUME TypeInv, AppliedInv, NewestRetained,
                      NEW r \in Requests, pc[r] = "accepted", NEW m \in members[r],
                      m \notin zset[dev[r]]
               PROVE  Cardinality(Newer(ever[dev[r]], m)) >= Cap
    BY DEF AcceptedIsStored
  <2>1. dev[r] \in Devices /\ m \in ever[dev[r]]
    BY DEF TypeInv, Placed, AppliedInv
  <2>2. ~(Cardinality(Newer(ever[dev[r]], m)) < Cap)
    BY <2>1 DEF NewestRetained, Newest
  <2>3. Newer(ever[dev[r]], m) \subseteq ever[dev[r]] /\ IsFiniteSet(ever[dev[r]])
    BY <2>1 DEF Newer, TypeInv, Finite
  <2>4. Cardinality(Newer(ever[dev[r]], m)) \in Nat
    BY <2>3, FS_Subset, FS_CardinalityType
  <2> QED BY <2>2, <2>4
<1> QED BY <1>1, <1>2, <1>3, TypeInvariance, TrimKeepsNewest, PTL DEF Spec

-----------------------------------------------------------------------------
(* One instance that is not restarted never encodes two equal members.       *)

OneInstance == (\E i : Instances = {i}) /\ "instance" \notin FaultKinds

\* The sequence numbers in use: all taken from seq, none shared by two requests,
\* none stored before its request's ZADD is executed.
SeqInv ==
  /\ \A i \in Instances :
       /\ \A r \in Requests : \A m \in members[r] : m.seq <= seq[i]
       /\ \A d \in Devices : \A m \in ever[d] : m.seq <= seq[i]
  /\ \A r, q \in Requests : r # q =>
       \A m \in members[r], n \in members[q] : m.seq # n.seq
  /\ \A r \in Requests : replies[r] = << >> =>
       \A d \in Devices : \A m \in members[r], n \in ever[d] : m.seq # n.seq

\* Every point of the batch has a member of its own, which the ZADD adds.
CountInv ==
  \A r \in Requests :
    /\ Cardinality(members[r]) + Len(todo[r]) = size[r]
    /\ pc[r] \notin {"idle", "encode"} => todo[r] = << >>
    /\ pc[r] # "dead"
    /\ pc[r] = "idle" => members[r] = {}
    /\ Applied(r) => added[r] = size[r]
    /\ pc[r] = "accepted" => Applied(r)

\* A fresh process has stored nothing: no number is taken, no batch is encoded.
LEMMA InitSeqCount == Init => SeqInv /\ CountInv
BY FS_EmptySet DEF Init, SeqInv, CountInv, Applied

\* Sequence numbers in use stay at or below the counter of the one instance.
LEMMA StepSeqInv ==
  ASSUME OneInstance, TypeInv, SeqInv, [Next]_vars
  PROVE  SeqInv'
<1> USE DEF TypeInv, TypeOK, instanceVars, storeVars, callVars, batchVars, connVars
<1>1. ASSUME NEW r \in Requests, EncodeMember(r) PROVE SeqInv'
  <2> USE <1>1 DEF EncodeMember
  <2> DEFINE i == inst[r]
             m == Encoded(Head(todo[r]), seq[i] + 1)
  <2>1. i \in Instances /\ Instances = {i}
    BY DEF Placed, OneInstance
  <2>2. members' = [members EXCEPT ![r] = @ \cup {m}] /\ m.seq = seq[i] + 1
    BY DEF Encoded
  <2>3. seq'[i] = seq[i] + 1 /\ seq[i] \in Nat
    BY <2>1
  <2>4. ever' = ever /\ replies' = replies
    OBVIOUS
  <2> HIDE DEF i, m
  <2>5. \A q \in Requests : \A n \in members[q] : n.seq \in Nat /\ n.seq <= seq[i]
    BY <2>1 DEF SeqInv, Member
  <2>6. \A d \in Devices : \A n \in ever[d] : n.seq \in Nat /\ n.seq <= seq[i]
    BY <2>1 DEF SeqInv, Member
  <2>7. \A q \in Requests : \A n \in members'[q] : n.seq <= seq'[i]
    <3>1. \A q \in Requests : \A n \in members'[q] : n \in members[q] \/ n = m
      BY <2>2
    <3> QED BY ONLY <2>2, <2>3, <2>5, <3>1
  <2>8. \A d \in Devices : \A n \in ever'[d] : n.seq <= seq'[i]
    BY <2>3, <2>4, <2>6
  <2>9. \A q \in Requests : \A n \in members'[q] :
          n \in members[q] \/ (q = r /\ n.seq = seq[i] + 1)
    BY ONLY <2>2, members \in [Requests -> SUBSET Member]
  <2>10. \A p, q \in Requests : p # q =>
           \A n \in members'[p], k \in members'[q] : n.seq # k.seq
    BY ONLY SeqInv, <2>3, <2>5, <2>9 DEF SeqInv
  <2>11. \A q \in Requests : replies'[q] = << >> =>
           \A d \in Devices : \A n \in members'[q], k \in ever'[d] : n.seq # k.seq
    BY ONLY SeqInv, <2>3, <2>4, <2>6, <2>9 DEF SeqInv
  <2> QED BY <2>1, <2>7, <2>8, <2>10, <2>11 DEF SeqInv
<1>2. ASSUME NEW r \in Requests, RedisAdd(r) PROVE SeqInv'
  <2> USE <1>2 DEF RedisAdd
  <2>1. dev[r] \in Devices
    BY DEF Placed, WireShape
  <2>2. \A d \in Devices : ever'[d] \subseteq ever[d] \cup members[r]
    BY <2>1
  <2>3. replies'[r] # << >> /\ \A q \in Requests \ {r} : replies'[q] = replies[q]
    <3>1. Append(replies[r], "ok") # << >>
      BY AppendHead, ReplyRange
    <3> QED BY <3>1
  <2>4. seq' = seq /\ members' = members
    OBVIOUS
  <2> QED BY ONLY SeqInv, <2>2, <2>3, <2>4 DEF SeqInv
<1>3. ASSUME NEW r \in Requests, RedisTrim(r) \/ RedisRefuses(r) PROVE SeqInv'
  <2> USE <1>3 DEF RedisTrim, RedisRefuses, Fault
  <2>1. PICK x \in Reply : replies' = [replies EXCEPT ![r] = Append(replies[r], x)]
    <3>1. CASE RedisTrim(r)
      BY <3>1, ReplyRange
    <3>2. CASE RedisRefuses(r)
      BY <3>2, ReplyRange
    <3> QED BY <3>1, <3>2
  <2>2. replies'[r] # << >> /\ \A q \in Requests \ {r} : replies'[q] = replies[q]
    <3>1. Append(replies[r], x) # << >>
      BY <2>1, AppendHead
    <3> QED BY <2>1, <3>1
  <2>3. seq' = seq /\ members' = members /\ ever' = ever
    OBVIOUS
  <2> QED BY ONLY SeqInv, <2>2, <2>3 DEF SeqInv
<1>4. ASSUME NEW r \in Requests, Finish(r) PROVE SeqInv'
  <2>1. members'[r] = {} /\ \A q \in Requests \ {r} : /\ members'[q] = members[q]
                                                      /\ replies'[q] = replies[q]
    BY <1>4 DEF Finish
  <2>2. seq' = seq /\ ever' = ever
    BY <1>4 DEF Finish
  <2> QED BY ONLY SeqInv, <2>1, <2>2 DEF SeqInv
<1>5. CASE UNCHANGED <<seq, members, ever, replies>>
  BY ONLY SeqInv, <1>5 DEF SeqInv
<1>6. CASE RedisRestarts
  BY ONLY SeqInv, <1>6 DEF RedisRestarts, SeqInv, instanceVars, batchVars
<1>7. ASSUME NEW d \in Devices, RedisEvicts(d) PROVE SeqInv'
  <2>1. \A e \in Devices : ever'[e] \subseteq ever[e]
    BY <1>7 DEF RedisEvicts
  <2>2. seq' = seq /\ members' = members /\ replies' = replies
    BY <1>7 DEF RedisEvicts
  <2> QED BY ONLY SeqInv, <2>1, <2>2 DEF SeqInv
<1>8. \A i \in Instances : ~InstanceRestarts(i)
  BY DEF InstanceRestarts, Fault, OneInstance
<1>9. ASSUME NEW r \in Requests,
             \/ Receive(r) \/ CountWrite(r) \/ Send(r) \/ Accept(r) \/ Reject(r)
             \/ DialFails(r) \/ ConnBreaks(r)
      PROVE  UNCHANGED <<seq, members, ever, replies>>
  BY <1>9 DEF Receive, CountWrite, Trims, Send, Accept, Reject, DialFails, ConnBreaks
<1>10. CASE UNCHANGED vars
  BY <1>5, <1>10 DEF vars
<1> QED BY <1>1, <1>2, <1>3, <1>4, <1>5, <1>6, <1>7, <1>8, <1>9, <1>10
        DEF Next, Server, RequestFault, Quiescent

\* Batches keep as many distinct members as they have encoded points, and the members
\* stay new to their device until Redis adds them.
LEMMA StepCountInv ==
  ASSUME OneInstance, TypeInv, SeqInv, CountInv, [Next]_vars
  PROVE  CountInv'
<1> USE DEF TypeInv, TypeOK, instanceVars, storeVars, callVars, batchVars, connVars
<1>1. ASSUME NEW r \in Requests, Receive(r) PROVE CountInv'
  <2> USE <1>1 DEF Receive
  <2>1. PICK batch \in Batch : /\ todo' = [todo EXCEPT ![r] = batch]
                               /\ size' = [size EXCEPT ![r] = Len(batch)]
    OBVIOUS
  <2>2. Len(batch) \in Nat
    BY BatchAssumption DEF Batch
  <2>3. members'[r] = {} /\ replies'[r] = << >> /\ pc'[r] = "encode"
    BY DEF CountInv, WireShape
  <2>4. Cardinality(members'[r]) + Len(todo'[r]) = size'[r]
    BY <2>1, <2>2, <2>3, FS_EmptySet
  <2>5. /\ members' = members /\ replies' = replies /\ added' = added
        /\ \A q \in Requests \ {r} : pc'[q] = pc[q] /\ todo'[q] = todo[q] /\ size'[q] = size[q]
    BY <2>1
  <2> QED BY ONLY CountInv, <2>3, <2>4, <2>5 DEF CountInv, Applied
<1>2. ASSUME NEW r \in Requests, EncodeMember(r) PROVE CountInv'
  <2> USE <1>2 DEF EncodeMember
  <2> DEFINE m == Encoded(Head(todo[r]), seq[inst[r]] + 1)
  <2>1. m \notin members[r]
    <3>1. inst[r] \in Instances /\ m.seq = seq[inst[r]] + 1
      BY DEF Placed, Encoded
    <3>2. \A n \in members[r] : n.seq \in Nat /\ n.seq <= seq[inst[r]]
      BY <3>1 DEF SeqInv, Member
    <3> HIDE DEF m
    <3> QED BY <3>1, <3>2
  <2>2. members' = [members EXCEPT ![r] = members[r] \cup {m}]
    OBVIOUS
  <2> HIDE DEF m
  <2>3. /\ Cardinality(members'[r]) = Cardinality(members[r]) + 1
        /\ Cardinality(members[r]) \in Nat
    <3>1. IsFiniteSet(members[r])
      BY DEF Finite
    <3>2. Cardinality(members[r] \cup {m}) = Cardinality(members[r]) + 1
      BY <2>1, <3>1, FS_AddElement
    <3>3. members'[r] = members[r] \cup {m}
      BY <2>2
    <3> QED BY <3>1, <3>2, <3>3, FS_CardinalityType
  <2>4. Len(todo'[r]) = Len(todo[r]) - 1 /\ Len(todo[r]) \in Nat
    OBVIOUS
  <2>5. Cardinality(members'[r]) + Len(todo'[r]) = size'[r]
    BY <2>3, <2>4 DEF CountInv
  <2>6. pc[r] = "encode" /\ pc' = pc /\ replies' = replies /\ added' = added /\ size' = size
    OBVIOUS
  <2>7. \A q \in Requests \ {r} : members'[q] = members[q] /\ todo'[q] = todo[q]
    BY <2>2
  <2> QED BY ONLY CountInv, <2>5, <2>6, <2>7 DEF CountInv, Applied
<1>3. ASSUME NEW r \in Requests, RedisAdd(r) PROVE CountInv'
  <2> USE <1>3 DEF RedisAdd
  <2>1. dev[r] \in Devices /\ pc[r] \notin {"idle", "encode"}
    BY DEF Placed, WireShape
  <2>2. replies[r] = << >>
    BY PipelineHeads DEF WireShape
  <2>3. members[r] \ zset[dev[r]] = members[r]
    BY <2>1, <2>2 DEF SeqInv, Finite
  <2>4. Cardinality(members[r]) = size[r]
    <3>1. todo[r] = << >> /\ Cardinality(members[r]) + Len(todo[r]) = size[r]
      BY <2>1 DEF CountInv
    <3>2. Cardinality(members[r]) \in Nat
      BY FS_CardinalityType DEF Finite
    <3> QED BY <3>1, <3>2
  <2>5. added'[r] = size[r]
    BY <2>3, <2>4
  <2>6. replies'[r] = Append(<< >>, "ok") /\ Applied(r)'
    BY <2>2, AppendHead DEF Applied
  <2>7. /\ pc' = pc /\ members' = members /\ todo' = todo /\ size' = size
        /\ \A q \in Requests \ {r} : replies'[q] = replies[q] /\ added'[q] = added[q]
    OBVIOUS
  <2>8. \A q \in Requests \ {r} : Applied(q)' <=> Applied(q)
    BY ONLY <2>7 DEF Applied
  <2> QED BY ONLY CountInv, <2>5, <2>6, <2>7, <2>8 DEF CountInv
<1>4. ASSUME NEW r \in Requests, RedisTrim(r) \/ RedisRefuses(r) PROVE CountInv'
  <2>1. \A q \in Requests : Applied(q)' <=> Applied(q)
    BY <1>4, LaterReply
  <2>2. UNCHANGED <<pc, members, todo, size, added>>
    BY <1>4 DEF RedisTrim, RedisRefuses
  <2> QED BY ONLY CountInv, <2>1, <2>2 DEF CountInv
<1>5. ASSUME NEW r \in Requests, Accept(r) PROVE CountInv'
  <2>1. Applied(r)
    BY <1>5, RepliedApplied DEF Accept
  <2> QED BY <1>5, <2>1 DEF Accept, CountInv, Applied
<1>6. ASSUME NEW r \in Requests, Finish(r) PROVE CountInv'
  <2>1. /\ pc'[r] = "idle" /\ members'[r] = {} /\ todo'[r] = << >> /\ size'[r] = 0
        /\ replies'[r] = << >>
    BY <1>6 DEF Finish
  <2>2. Cardinality(members'[r]) + Len(todo'[r]) = size'[r]
    BY <2>1, FS_EmptySet
  <2>3. \A q \in Requests \ {r} :
          /\ pc'[q] = pc[q] /\ members'[q] = members[q] /\ todo'[q] = todo[q]
          /\ size'[q] = size[q] /\ replies'[q] = replies[q] /\ added'[q] = added[q]
    BY <1>6 DEF Finish
  <2>4. ~Applied(r)' /\ \A q \in Requests \ {r} : Applied(q)' <=> Applied(q)
    BY ONLY <2>1, <2>3 DEF Applied
  <2> QED BY ONLY CountInv, <2>1, <2>2, <2>3, <2>4 DEF CountInv
<1>7. ASSUME NEW r \in Requests,
             CountWrite(r) \/ Send(r) \/ Reject(r) \/ DialFails(r) \/ ConnBreaks(r)
      PROVE  CountInv'
  <2>1. UNCHANGED <<members, todo, size, replies, added>>
    BY <1>7 DEF CountWrite, Trims, Send, Reject, DialFails, ConnBreaks
  <2>2. /\ pc'[r] \notin {"idle", "encode", "dead", "accepted"}
        /\ todo[r] = << >>
        /\ \A q \in Requests \ {r} : pc'[q] = pc[q]
    BY <1>7 DEF CountWrite, Trims, Send, Reject, DialFails, ConnBreaks, CountInv
  <2> QED BY ONLY CountInv, <2>1, <2>2 DEF CountInv, Applied
<1>8. ASSUME RedisRestarts \/ \E d \in Devices : RedisEvicts(d) PROVE CountInv'
  BY <1>8 DEF RedisRestarts, RedisEvicts, CountInv, Applied
<1>9. \A i \in Instances : ~InstanceRestarts(i)
  BY DEF InstanceRestarts, Fault, OneInstance
<1>10. CASE UNCHANGED vars
  BY ONLY CountInv, <1>10 DEF vars, CountInv, Applied, callVars, batchVars, connVars
<1> QED BY <1>1, <1>2, <1>3, <1>4, <1>5, <1>6, <1>7, <1>8, <1>9, <1>10
        DEF Next, Server, RequestFault, Quiescent

\* With a single instance that is never restarted no accepted point collapses
\* into another one: the ZADD adds exactly the points the 202 reports, whatever
\* requests overlap and whatever else fails.  Both hypotheses are needed:
\* sequence numbers are local to a process and start again from zero.
THEOREM AcceptedPointsAreDistinct ==
  ASSUME OneInstance
  PROVE  Spec => []AcceptedIsAdded
<1>1. TypeInv /\ SeqInv /\ CountInv /\ [Next]_vars => SeqInv' /\ CountInv'
  BY StepSeqInv, StepCountInv
<1>2. CountInv => AcceptedIsAdded
  BY DEF CountInv, AcceptedIsAdded
<1> QED BY <1>1, <1>2, InitSeqCount, TypeInvariance, PTL DEF Spec

-----------------------------------------------------------------------------
(* The points counter of an instance never runs ahead of Redis.              *)

\* A request whose handler is still at work, and the sequence numbers of its members.
Live(r) == pc[r] \in {"encode", "connect", "sent"}
Numbers(r) == {m.seq : m \in members[r]}

\* Live requests of one instance hold distinct numbers, one per encoded point, none
\* above the counter.  It says nothing of requests that outlived their instance.
NumberedAlive ==
  /\ \A r \in Requests : Live(r) =>
       /\ Cardinality(Numbers(r)) + Len(todo[r]) = size[r]
       /\ \A n \in Numbers(r) : n <= seq[inst[r]]
       /\ pc[r] # "encode" => todo[r] = << >>
  /\ \A r \in Requests : pc[r] = "idle" => members[r] = {}
  /\ \A r, q \in Requests : r # q /\ Live(r) /\ Live(q) /\ inst[r] = inst[q] =>
       Numbers(r) \cap Numbers(q) = {}

\* The numbers instance i has used since it started that are stored and that no live
\* request of i holds: a 202 adds those of its batch.
Settled(i) ==
  {n \in 1..seq[i] : /\ \E d \in Devices : \E m \in ever[d] : m.seq = n
                     /\ \A r \in Requests : Live(r) /\ inst[r] = i => n \notin Numbers(r)}

CountedAreSettled == \A i \in Instances : points[i] <= Cardinality(Settled(i))

\* What Redis holds, with its device.
Stored == {dm \in Devices \X UNION {ever[d] : d \in Devices} : dm[2] \in ever[dm[1]]}

PointInv == NumberedAlive /\ CountedAreSettled /\ IsFiniteSet(Stored)

\* Numbers settle in finite sets.
LEMMA SettledFinite ==
  ASSUME TypeOK, NEW i \in Instances
  PROVE  /\ Settled(i) \in SUBSET (1..seq[i]) /\ IsFiniteSet(Settled(i))
         /\ Cardinality(Settled(i)) \in Nat
<1>1. Settled(i) \in SUBSET (1..seq[i])
  BY DEF Settled
<1>2. IsFiniteSet(1..seq[i])
  BY FS_Interval DEF TypeOK
<1> QED BY <1>1, <1>2, FS_Subset, FS_CardinalityType

\* The same after a step.
LEMMA SettledFiniteNext ==
  ASSUME TypeOK', NEW i \in Instances
  PROVE  /\ Settled(i)' \in SUBSET (1..seq'[i]) /\ IsFiniteSet(Settled(i)')
         /\ Cardinality(Settled(i)') \in Nat
<1>1. Settled(i)' \in SUBSET (1..seq'[i])
  BY DEF Settled
<1>2. IsFiniteSet(1..seq'[i])
  BY FS_Interval DEF TypeOK
<1> QED BY <1>1, <1>2, FS_Subset, FS_CardinalityType

\* Numbers stay settled as long as Redis keeps its data, the counter of the instance
\* does not fall, and its live requests take new numbers only.
LEMMA SettledGrows ==
  ASSUME TypeOK, NEW i \in Instances, seq'[i] \in Nat, seq[i] <= seq'[i],
         \A d \in Devices : ever[d] \subseteq ever'[d],
         \A r \in Requests : Live(r)' /\ inst'[r] = i =>
           \A n \in Numbers(r)' : n > seq[i] \/ (Live(r) /\ inst[r] = i /\ n \in Numbers(r))
  PROVE  Settled(i) \subseteq Settled(i)'
<1> SUFFICES ASSUME NEW n \in Settled(i) PROVE n \in Settled(i)'
  OBVIOUS
<1>1. n \in 1..seq[i] /\ seq[i] \in Nat
  BY DEF Settled, TypeOK
<1>2. n \in 1..seq'[i] /\ ~(n > seq[i])
  BY <1>1
<1>3. \E d \in Devices : \E m \in ever'[d] : m.seq = n
  BY DEF Settled
<1>4. ASSUME NEW r \in Requests, Live(r)', inst'[r] = i, n \in Numbers(r)' PROVE FALSE
  <2>1. Live(r) /\ inst[r] = i /\ n \in Numbers(r)
    BY <1>2, <1>4
  <2> QED BY <2>1 DEF Settled
<1> QED BY <1>2, <1>3, <1>4 DEF Settled

\* The counter of an instance may stay as it is when its settled numbers do.
LEMMA CountStays ==
  ASSUME TypeOK, TypeOK', NEW i \in Instances, points'[i] = points[i],
         points[i] <= Cardinality(Settled(i)), Settled(i) \subseteq Settled(i)'
  PROVE  points'[i] <= Cardinality(Settled(i)')
<1>1. Cardinality(Settled(i)) \in Nat /\ Cardinality(Settled(i)') \in Nat /\ points[i] \in Nat
  BY SettledFinite, SettledFiniteNext DEF TypeOK
<1>2. Settled(i) \in SUBSET Settled(i)'
  OBVIOUS
<1>3. Cardinality(Settled(i)) <= Cardinality(Settled(i)')
  BY <1>2, SettledFiniteNext, FS_Subset
<1> QED BY <1>1, <1>3

\* Steps that leave the numbers of live requests, the counters and Redis' data alone.
LEMMA QuietPointInv ==
  ASSUME TypeOK, TypeOK', NumberedAlive, CountedAreSettled,
         UNCHANGED <<seq, points, inst, todo, size, members, ever>>,
         \A r \in Requests : Live(r)' => Live(r) /\ (pc'[r] = pc[r] \/ todo[r] = << >>),
         \A r \in Requests : pc'[r] = "idle" => members[r] = {}
  PROVE  NumberedAlive' /\ CountedAreSettled'
<1>1. \A r \in Requests : Numbers(r)' = Numbers(r)
  BY DEF Numbers
<1>2. NumberedAlive'
  BY <1>1 DEF NumberedAlive
<1>3. ASSUME NEW i \in Instances PROVE points'[i] <= Cardinality(Settled(i)')
  <2>1. seq'[i] \in Nat /\ seq[i] <= seq'[i]
    BY DEF TypeOK
  <2>2. Settled(i) \subseteq Settled(i)'
    BY <1>1, <2>1, SettledGrows
  <2> QED BY <2>2, CountStays DEF CountedAreSettled
<1> QED BY <1>2, <1>3 DEF CountedAreSettled

\* A new request holds no number yet.
LEMMA ReceivePointInv ==
  ASSUME TypeInv, TypeOK', NumberedAlive, CountedAreSettled, NEW r \in Requests, Receive(r)
  PROVE  NumberedAlive' /\ CountedAreSettled'
<1> USE DEF TypeInv, TypeOK, Receive, instanceVars, storeVars, callVars, batchVars, connVars
<1>1. PICK batch \in Batch : /\ todo' = [todo EXCEPT ![r] = batch]
                             /\ size' = [size EXCEPT ![r] = Len(batch)]
  OBVIOUS
<1>2. Len(batch) \in Nat
  BY BatchAssumption DEF Batch
<1>3. Numbers(r)' = {} /\ \A q \in Requests : Numbers(q)' = Numbers(q)
  BY DEF NumberedAlive, Numbers
<1>4. Cardinality(Numbers(r)') + Len(todo'[r]) = size'[r] /\ pc'[r] = "encode"
  BY <1>1, <1>2, <1>3, FS_EmptySet
<1>5. /\ UNCHANGED <<seq, points, members, ever>>
      /\ \A q \in Requests \ {r} : /\ pc'[q] = pc[q] /\ inst'[q] = inst[q]
                                   /\ todo'[q] = todo[q] /\ size'[q] = size[q]
  BY <1>1
<1>6. NumberedAlive'
  <2>1. \A q \in Requests \ {r} : (Live(q)' <=> Live(q)) /\ Numbers(q)' = Numbers(q)
    BY <1>3, <1>5 DEF Live
  <2>2. ASSUME NEW q \in Requests, Live(q)'
        PROVE  /\ Cardinality(Numbers(q)') + Len(todo'[q]) = size'[q]
               /\ \A n \in Numbers(q)' : n <= seq'[inst'[q]]
               /\ pc'[q] # "encode" => todo'[q] = << >>
    BY ONLY NumberedAlive, <2>1, <2>2, <1>3, <1>4, <1>5 DEF NumberedAlive
  <2>3. \A q \in Requests : pc'[q] = "idle" => members'[q] = {}
    BY ONLY NumberedAlive, <1>4, <1>5 DEF NumberedAlive
  <2>4. ASSUME NEW p \in Requests, NEW q \in Requests,
               p # q, Live(p)', Live(q)', inst'[p] = inst'[q]
        PROVE  Numbers(p)' \cap Numbers(q)' = {}
    BY ONLY NumberedAlive, <2>1, <2>4, <1>3, <1>5 DEF NumberedAlive
  <2> QED BY ONLY <2>2, <2>3, <2>4 DEF NumberedAlive
<1>7. ASSUME NEW i \in Instances PROVE points'[i] <= Cardinality(Settled(i)')
  <2>1. seq'[i] \in Nat /\ seq[i] <= seq'[i]
    BY <1>5
  <2>2. \A q \in Requests : Live(q)' /\ inst'[q] = i =>
          \A n \in Numbers(q)' : Live(q) /\ inst[q] = i /\ n \in Numbers(q)
    BY <1>3, <1>5 DEF Live
  <2>3. Settled(i) \subseteq Settled(i)'
    BY <1>5, <2>1, <2>2, SettledGrows
  <2> QED BY <1>5, <2>3, CountStays DEF CountedAreSettled
<1> QED BY <1>6, <1>7 DEF CountedAreSettled

\* Encoding a point takes a number above all the numbers of its instance.
LEMMA EncodePointInv ==
  ASSUME TypeInv, TypeOK', NumberedAlive, CountedAreSettled, NEW r \in Requests,
         EncodeMember(r)
  PROVE  NumberedAlive' /\ CountedAreSettled'
<1> USE DEF TypeInv, TypeOK, EncodeMember, storeVars, callVars, batchVars
<1> DEFINE i == inst[r]
           x == seq[i] + 1
<1>1. i \in Instances /\ seq[i] \in Nat /\ x \in Nat
  BY DEF Placed
<1>2. PICK m : /\ m.seq = x
               /\ members' = [members EXCEPT ![r] = members[r] \cup {m}]
  BY DEF Encoded
<1>3. seq' = [seq EXCEPT ![i] = x]
  OBVIOUS
<1>4. /\ UNCHANGED <<points, ever, pc, inst, size>>
      /\ \A q \in Requests \ {r} : todo'[q] = todo[q]
      /\ pc[r] = "encode"
  OBVIOUS
<1>5. Len(todo'[r]) = Len(todo[r]) - 1 /\ Len(todo[r]) \in Nat
  OBVIOUS
<1>6. \A q \in Requests : \A n \in Numbers(q) : n \in Nat
  <2> SUFFICES ASSUME NEW q \in Requests, NEW n \in Numbers(q) PROVE n \in Nat
    OBVIOUS
  <2>1. PICK p \in members[q] : n = p.seq
    BY ONLY n \in Numbers(q) DEF Numbers
  <2> QED BY <2>1 DEF Member
<1>7. \A n \in Numbers(r) : n <= seq[i]
  BY <1>4 DEF NumberedAlive, Live
<1>8. IsFiniteSet(Numbers(r))
  <2>1. Numbers(r) \in SUBSET Nat
    BY <1>6
  <2> HIDE DEF i
  <2> QED BY ONLY <1>1, <1>7, <2>1, FS_BoundedSetOfNaturals
<1> HIDE DEF i, x
<1>9. /\ Numbers(r)' = Numbers(r) \cup {x}
      /\ \A q \in Requests \ {r} : Numbers(q)' = Numbers(q)
  <2>1. members \in [Requests -> SUBSET Member]
    OBVIOUS
  <2> QED BY ONLY <1>2, <2>1, r \in Requests DEF Numbers
<1>10. x \notin Numbers(r) /\ \A n \in Numbers(r) : n <= x
  BY ONLY <1>1, <1>6, <1>7, r \in Requests DEF x
<1>11. Cardinality(Numbers(r)') = Cardinality(Numbers(r)) + 1 /\ Cardinality(Numbers(r)) \in Nat
  BY ONLY <1>8, <1>9, <1>10, FS_AddElement, FS_CardinalityType
<1>12. Cardinality(Numbers(r)') + Len(todo'[r]) = size'[r]
  BY <1>4, <1>5, <1>11 DEF NumberedAlive, Live
<1>13. ASSUME NEW q \in Requests, Live(q)', NEW n \in Numbers(q)'
       PROVE  n <= seq'[inst'[q]]
  <2>1. inst[q] \in Instances /\ inst' = inst /\ Live(q)
    BY <1>4, <1>13 DEF Placed, Live
  <2>2. seq'[i] = x /\ (inst[q] # i => seq'[inst[q]] = seq[inst[q]])
    BY <1>1, <1>3, <2>1
  <2>3. CASE n \in Numbers(q)
    <3>1. n <= seq[inst[q]] /\ n \in Nat
      BY <1>6, <2>1, <2>3 DEF NumberedAlive
    <3> QED BY ONLY <1>1, <2>1, <2>2, <3>1 DEF x
  <2>4. CASE q = r /\ n = x
    BY <1>1, <2>1, <2>2, <2>4 DEF i
  <2> QED BY <1>9, <1>13, <2>3, <2>4
<1>14. ASSUME NEW q \in Requests \ {r}, Live(q), inst[q] = i PROVE x \notin Numbers(q)
  <2>1. \A n \in Numbers(q) : n <= seq[i] /\ n \in Nat
    BY <1>6, <1>14 DEF NumberedAlive
  <2> QED BY <1>1, <2>1 DEF x
<1>15. NumberedAlive'
  <2>1. \A q \in Requests : Live(q)' <=> Live(q)
    BY <1>4 DEF Live
  <2>2. \A q \in Requests : Live(q)' =>
          /\ Cardinality(Numbers(q)') + Len(todo'[q]) = size'[q]
          /\ pc'[q] # "encode" => todo'[q] = << >>
    BY ONLY NumberedAlive, <1>4, <1>9, <1>12, <2>1 DEF NumberedAlive
  <2>3. \A q \in Requests : pc'[q] = "idle" => members'[q] = {}
    <3>1. \A q \in Requests : q # r => members'[q] = members[q]
      BY <1>2
    <3> QED BY ONLY NumberedAlive, <1>4, <3>1 DEF NumberedAlive
  <2>4. \A p, q \in Requests : p # q /\ Live(p)' /\ Live(q)' /\ inst'[p] = inst'[q] =>
          Numbers(p)' \cap Numbers(q)' = {}
    BY ONLY NumberedAlive, <1>4, <1>9, <1>14, <2>1 DEF NumberedAlive, i
  <2> QED BY ONLY <1>13, <2>2, <2>3, <2>4 DEF NumberedAlive
<1>16. ASSUME NEW j \in Instances PROVE points'[j] <= Cardinality(Settled(j)')
  <2>1. seq'[j] \in Nat /\ seq[j] <= seq'[j]
    <3>1. seq[j] \in Nat /\ seq'[j] = (IF j = i THEN x ELSE seq[j])
      BY <1>3
    <3> QED BY ONLY <1>1, <3>1 DEF x
  <2>2. \A q \in Requests : Live(q)' /\ inst'[q] = j =>
          \A n \in Numbers(q)' :
            n > seq[j] \/ (Live(q) /\ inst[q] = j /\ n \in Numbers(q))
    <3>1. inst[r] = j => x > seq[j]
      BY <1>1 DEF x, i
    <3> QED BY ONLY <1>4, <1>9, <3>1 DEF Live
  <2>3. Settled(j) \subseteq Settled(j)'
    BY <1>4, <2>1, <2>2, SettledGrows
  <2> QED BY <1>4, <2>3, CountStays DEF CountedAreSettled
<1> QED BY <1>15, <1>16 DEF CountedAreSettled

\* A 202 settles the numbers of its batch, one per point it adds to the counter.
LEMMA AcceptPointInv ==
  ASSUME TypeInv, TypeOK', AppliedInv, NumberedAlive, CountedAreSettled, NEW r \in Requests,
         Accept(r)
  PROVE  NumberedAlive' /\ CountedAreSettled'
<1> USE DEF TypeInv, TypeOK, Accept
<1>0. PICK i \in Instances : i = inst[r]
  BY DEF Placed
<1>1. i = inst[r] /\ dev[r] \in Devices /\ Live(r) /\ ~Live(r)'
  BY <1>0 DEF Placed, Live
<1>2. /\ UNCHANGED <<seq, ever, inst, dev, size, todo, members>>
      /\ points' = [points EXCEPT ![i] = points[i] + size[r]]
      /\ \A q \in Requests \ {r} : pc'[q] = pc[q]
      /\ pc'[r] = "accepted" /\ pc[r] = "sent"
  BY <1>1 DEF storeVars, callVars, batchVars
<1>3. \A q \in Requests : Numbers(q)' = Numbers(q)
  BY <1>2 DEF Numbers
<1>4. \A q \in Requests : Live(q)' <=> Live(q) /\ q # r
  BY <1>1, <1>2 DEF Live
<1>5. NumberedAlive'
  BY ONLY NumberedAlive, <1>2, <1>3, <1>4 DEF NumberedAlive
<1>6. \A j \in Instances : Settled(j) \subseteq Settled(j)'
  <2> SUFFICES ASSUME NEW j \in Instances PROVE Settled(j) \subseteq Settled(j)'
    OBVIOUS
  <2>1. seq'[j] \in Nat /\ seq[j] <= seq'[j]
    BY <1>2
  <2>2. \A q \in Requests : Live(q)' /\ inst'[q] = j =>
          \A n \in Numbers(q)' : Live(q) /\ inst[q] = j /\ n \in Numbers(q)
    BY ONLY <1>2, <1>3, <1>4
  <2> QED BY <1>2, <2>1, <2>2, SettledGrows
<1>7. Numbers(r) \cap Settled(i) = {}
  BY <1>1 DEF Settled
<1>8. Numbers(r) \subseteq Settled(i)'
  <2> SUFFICES ASSUME NEW n \in Numbers(r) PROVE n \in Settled(i)'
    OBVIOUS
  <2>0. PICK m \in members[r] : n = m.seq
    BY ONLY n \in Numbers(r) DEF Numbers
  <2>1. m \in Member /\ m.seq \in Nat \ {0} /\ m.seq \in Numbers(r)
    <3>1. members[r] \in SUBSET Member
      OBVIOUS
    <3>2. m \in Member /\ m.seq \in Nat \ {0}
      BY ONLY <2>0, <3>1 DEF Member
    <3> QED BY <2>0, <3>2
  <2>2. m.seq <= seq[i]
    BY <1>1, <2>1 DEF NumberedAlive
  <2>3. m.seq \in 1..seq[i]
    <3>1. seq[i] \in Nat
      BY <1>0
    <3> QED BY ONLY <2>1, <2>2, <3>1
  <2>4. m \in ever[dev[r]]
    BY RepliedApplied DEF AppliedInv
  <2>5. ASSUME NEW q \in Requests, Live(q)', inst[q] = i PROVE m.seq \notin Numbers(q)
    BY <1>1, <1>4, <2>1, <2>5 DEF NumberedAlive
  <2>6. m.seq \in Settled(i)'
    <3>1. \E d \in Devices : \E k \in ever'[d] : k.seq = m.seq
      BY ONLY <1>1, <1>2, <2>4
    <3>2. \A q \in Requests : Live(q)' /\ inst'[q] = i => m.seq \notin Numbers(q)'
      BY ONLY <1>2, <1>3, <2>5
    <3>3. m.seq \in 1..seq'[i]
      BY ONLY <1>2, <2>3
    <3> QED BY ONLY <3>1, <3>2, <3>3 DEF Settled
  <2> QED BY <2>0, <2>6
<1>9. Cardinality(Numbers(r)) = size[r]
  <2>1. todo[r] = << >> /\ Cardinality(Numbers(r)) + Len(todo[r]) = size[r]
    BY <1>1, <1>2 DEF NumberedAlive
  <2>2. IsFiniteSet(Numbers(r))
    BY <1>1, <1>8, SettledFiniteNext, FS_Subset
  <2>3. Cardinality(Numbers(r)) \in Nat
    BY <2>2, FS_CardinalityType
  <2> QED BY <2>1, <2>3
<1>10. points'[i] <= Cardinality(Settled(i)')
  <2> DEFINE S == Settled(i)
             T == Settled(i)'
             N == Numbers(r)
  <2>1. IsFiniteSet(T) /\ Cardinality(T) \in Nat /\ IsFiniteSet(S) /\ Cardinality(S) \in Nat
    BY <1>1, SettledFinite, SettledFiniteNext
  <2>2. N \in SUBSET T /\ S \in SUBSET T /\ N \cap S = {}
    BY <1>1, <1>6, <1>7, <1>8
  <2>3. points'[i] = points[i] + size[r] /\ points[i] \in Nat /\ size[r] \in Nat
        /\ points[i] <= Cardinality(S)
    BY <1>1, <1>2 DEF CountedAreSettled
  <2>4. Cardinality(N) = size[r]
    BY <1>9
  <2> HIDE DEF S, T, N
  <2>5. IsFiniteSet(N) /\ S \cup N \in SUBSET T /\ S \cap N = {}
    BY ONLY <2>1, <2>2, FS_Subset
  <2>6. Cardinality(S \cup N) = Cardinality(S) + Cardinality(N)
    <3>1. Cardinality(S \cup N) = Cardinality(S) + Cardinality(N) - Cardinality(S \cap N)
      BY ONLY <2>1, <2>5, FS_Union
    <3>2. Cardinality(S \cap N) = 0
      BY ONLY <2>5, FS_EmptySet
    <3> QED BY ONLY <2>1, <2>3, <2>4, <3>1, <3>2
  <2>7. Cardinality(S \cup N) <= Cardinality(T)
    BY ONLY <2>1, <2>5, FS_Subset
  <2>8. points'[i] <= Cardinality(T)
    BY ONLY <2>1, <2>3, <2>4, <2>6, <2>7
  <2> QED BY ONLY <2>8 DEF T
<1>11. ASSUME NEW j \in Instances PROVE points'[j] <= Cardinality(Settled(j)')
  <2>1. CASE j = i
    BY <1>10, <2>1
  <2>2. CASE j # i
    <3>1. points'[j] = points[j]
      BY <1>2, <2>2
    <3> QED BY <1>6, <3>1, CountStays DEF CountedAreSettled
  <2> QED BY <2>1, <2>2
<1> QED BY <1>5, <1>11 DEF CountedAreSettled

\* What Redis adds may only settle more numbers.
LEMMA AddPointInv ==
  ASSUME TypeInv, TypeOK', NumberedAlive, CountedAreSettled, NEW r \in Requests, RedisAdd(r)
  PROVE  NumberedAlive' /\ CountedAreSettled'
<1> USE DEF TypeInv, TypeOK, RedisAdd
<1>1. /\ UNCHANGED <<seq, points, pc, inst, size, todo, members>>
      /\ \A d \in Devices : ever[d] \subseteq ever'[d]
  BY DEF instanceVars, callVars, batchVars
<1>2. \A q \in Requests : Numbers(q)' = Numbers(q) /\ (Live(q)' <=> Live(q))
  BY <1>1 DEF Numbers, Live
<1>3. NumberedAlive'
  BY ONLY NumberedAlive, <1>1, <1>2 DEF NumberedAlive
<1>4. ASSUME NEW j \in Instances PROVE points'[j] <= Cardinality(Settled(j)')
  <2>1. seq'[j] \in Nat /\ seq[j] <= seq'[j]
    BY <1>1
  <2>2. \A q \in Requests : Live(q)' /\ inst'[q] = j =>
          \A n \in Numbers(q)' : Live(q) /\ inst[q] = j /\ n \in Numbers(q)
    BY ONLY <1>1, <1>2
  <2>3. Settled(j) \subseteq Settled(j)'
    BY <1>1, <2>1, <2>2, SettledGrows
  <2> QED BY <1>1, <2>3, CountStays DEF CountedAreSettled
<1> QED BY <1>3, <1>4 DEF CountedAreSettled

\* A restarted instance counts from zero, and its old requests count for nothing.
LEMMA RestartPointInv ==
  ASSUME TypeInv, TypeOK', NumberedAlive, CountedAreSettled, NEW i \in Instances,
         InstanceRestarts(i)
  PROVE  NumberedAlive' /\ CountedAreSettled'
<1> USE DEF TypeInv, TypeOK, InstanceRestarts
<1>1. /\ UNCHANGED <<ever, inst, size, todo, members>>
      /\ points'[i] = 0
      /\ \A j \in Instances \ {i} : points'[j] = points[j] /\ seq'[j] = seq[j]
  BY DEF storeVars, callVars, batchVars
<1>2. \A q \in Requests : Numbers(q)' = Numbers(q)
  BY <1>1 DEF Numbers
<1>3. \A q \in Requests : /\ Live(q)' => Live(q) /\ inst[q] # i /\ pc'[q] = pc[q]
                          /\ pc'[q] = "idle" => pc[q] = "idle"
                          /\ Live(q) => inst[q] \in Instances
  BY DEF Live, Placed
<1>4. NumberedAlive'
  BY ONLY NumberedAlive, <1>1, <1>2, <1>3 DEF NumberedAlive
<1>5. ASSUME NEW j \in Instances PROVE points'[j] <= Cardinality(Settled(j)')
  <2>1. CASE j = i
    BY <1>1, <2>1, SettledFiniteNext
  <2>2. CASE j # i
    <3>1. seq'[j] \in Nat /\ seq[j] <= seq'[j] /\ points'[j] = points[j]
      BY <1>1, <2>2
    <3>2. \A q \in Requests : Live(q)' /\ inst'[q] = j =>
            \A n \in Numbers(q)' : Live(q) /\ inst[q] = j /\ n \in Numbers(q)
      BY ONLY <1>1, <1>2, <1>3
    <3>3. Settled(j) \subseteq Settled(j)'
      BY <1>1, <3>1, <3>2, SettledGrows
    <3> QED BY <3>1, <3>3, CountStays DEF CountedAreSettled
  <2> QED BY <2>1, <2>2
<1> QED BY <1>4, <1>5 DEF CountedAreSettled

\* Redis holds finitely many points, of however many devices.
LEMMA StoredFinite ==
  ASSUME TypeInv, IsFiniteSet(Stored), [Next]_vars
  PROVE  IsFiniteSet(Stored')
<1> USE DEF TypeInv, TypeOK
<1>1. ASSUME \A d \in Devices : ever'[d] \subseteq ever[d] PROVE IsFiniteSet(Stored')
  <2>1. Stored' \in SUBSET Stored
    BY <1>1 DEF Stored
  <2> QED BY <2>1, FS_Subset
<1>2. ASSUME NEW r \in Requests, RedisAdd(r) PROVE IsFiniteSet(Stored')
  <2>1. dev[r] \in Devices /\ IsFiniteSet(members[r])
    BY <1>2 DEF RedisAdd, Placed, WireShape, Finite
  <2> DEFINE New == {dev[r]} \X members[r]
  <2>2. IsFiniteSet(New)
    BY <2>1, FS_Singleton, FS_Product
  <2>3. IsFiniteSet(Stored \cup New)
    BY <2>2, FS_Union
  <2>4. \A d \in Devices : ever'[d] = IF d = dev[r] THEN ever[d] \cup members[r] ELSE ever[d]
    BY <1>2 DEF RedisAdd
  <2>5. Stored' \in SUBSET (Stored \cup New)
    <3> SUFFICES ASSUME NEW d \in Devices, NEW m \in ever'[d]
                 PROVE  <<d, m>> \in Stored \cup New
      BY DEF Stored
    <3>1. CASE m \in ever[d]
      BY <3>1 DEF Stored
    <3>2. CASE m \notin ever[d]
      <4>1. d = dev[r] /\ m \in members[r]
        BY <2>4, <3>2
      <4> QED BY <4>1
    <3> QED BY <3>1, <3>2
  <2> QED BY <2>3, <2>5, FS_Subset
<1>3. ASSUME NEW r \in Requests, Receive(r) \/ Server(r) \/ RequestFault(r), ~RedisAdd(r)
      PROVE  ever' = ever
  BY <1>3 DEF Receive, Server, EncodeMember, CountWrite, Send, RedisTrim, Accept, Reject, Finish,
              RequestFault, DialFails, ConnBreaks, RedisRefuses, storeVars
<1>4. ASSUME \E i \in Instances : InstanceRestarts(i) PROVE ever' = ever
  BY <1>4 DEF InstanceRestarts, storeVars
<1>5. ASSUME RedisRestarts \/ \E d \in Devices : RedisEvicts(d)
      PROVE  \A d \in Devices : ever'[d] \subseteq ever[d]
  BY <1>5 DEF RedisRestarts, RedisEvicts
<1>6. ASSUME UNCHANGED vars PROVE ever' = ever
  BY <1>6 DEF vars, storeVars
<1> QED BY <1>1, <1>2, <1>3, <1>4, <1>5, <1>6 DEF Next, Quiescent

\* Every step of a Redis that keeps its data preserves the invariant.
LEMMA StepPointInv ==
  ASSUME NoLoss, TypeInv, TypeInv', AppliedInv, PointInv, [Next]_vars
  PROVE  PointInv'
<1> USE DEF PointInv
<1>0. TypeOK /\ TypeOK'
  BY DEF TypeInv
<1>1. ASSUME NEW r \in Requests, Receive(r) \/ Server(r) \/ RequestFault(r)
      PROVE  NumberedAlive' /\ CountedAreSettled'
  <2>1. CASE Receive(r) \/ EncodeMember(r) \/ RedisAdd(r) \/ Accept(r)
    BY <1>0, <2>1, ReceivePointInv, EncodePointInv, AddPointInv, AcceptPointInv
  <2>2. CASE CountWrite(r) \/ Send(r) \/ RedisTrim(r) \/ Reject(r) \/ RequestFault(r)
    <3>1. UNCHANGED <<seq, points, inst, todo, size, members, ever>>
      BY <2>2 DEF CountWrite, Send, RedisTrim, Reject, RequestFault, DialFails, ConnBreaks,
                  RedisRefuses, instanceVars, storeVars, callVars, batchVars
    <3>2. pc' = pc \/ \E p \in {"connect", "sent", "rejected"} :
                       /\ pc' = [pc EXCEPT ![r] = p]
                       /\ Live(r) /\ (p # "rejected" => todo[r] = << >>)
      <4>1. CASE CountWrite(r)
        BY <4>1 DEF CountWrite, Live
      <4>2. CASE Send(r)
        <5>1. todo[r] = << >>
          BY <4>2 DEF Send, NumberedAlive, Live
        <5> QED BY <4>2, <5>1 DEF Send, Live
      <4>3. CASE Reject(r) \/ DialFails(r)
        BY <4>3 DEF Reject, DialFails, Live
      <4>4. CASE RedisTrim(r) \/ ConnBreaks(r) \/ RedisRefuses(r)
        BY <4>4 DEF RedisTrim, ConnBreaks, RedisRefuses
      <4> QED BY <2>2, <4>1, <4>2, <4>3, <4>4 DEF RequestFault
    <3>3. pc \in [Requests -> Phase]
      BY <1>0 DEF TypeOK
    <3>4. /\ \A q \in Requests : Live(q)' => Live(q) /\ (pc'[q] = pc[q] \/ todo[q] = << >>)
          /\ \A q \in Requests : pc'[q] = "idle" => pc[q] = "idle"
      BY <3>2, <3>3 DEF Live
    <3>5. \A q \in Requests : pc'[q] = "idle" => members[q] = {}
      BY <3>4 DEF NumberedAlive
    <3> QED BY <1>0, <3>1, <3>4, <3>5, QuietPointInv
  <2>3. CASE Finish(r)
    <3>1. /\ UNCHANGED <<seq, points, ever>>
          /\ ~Live(r) /\ ~Live(r)' /\ members'[r] = {}
          /\ \A q \in Requests \ {r} : /\ pc'[q] = pc[q] /\ inst'[q] = inst[q] /\ todo'[q] = todo[q]
                                       /\ size'[q] = size[q] /\ members'[q] = members[q]
      BY <1>0, <2>3 DEF Finish, Live, TypeOK, instanceVars, storeVars
    <3>2. \A q \in Requests \ {r} : Numbers(q)' = Numbers(q) /\ (Live(q)' <=> Live(q))
      BY <3>1 DEF Numbers, Live
    <3>3. NumberedAlive'
      BY ONLY NumberedAlive, <3>1, <3>2 DEF NumberedAlive
    <3>4. ASSUME NEW j \in Instances PROVE points'[j] <= Cardinality(Settled(j)')
      <4>1. seq'[j] \in Nat /\ seq[j] <= seq'[j]
        BY <1>0, <3>1 DEF TypeOK
      <4>2. \A q \in Requests : Live(q)' /\ inst'[q] = j =>
              \A n \in Numbers(q)' : Live(q) /\ inst[q] = j /\ n \in Numbers(q)
        BY ONLY <3>1, <3>2
      <4>3. Settled(j) \subseteq Settled(j)'
        BY <1>0, <3>1, <4>1, <4>2, SettledGrows
      <4> QED BY <1>0, <3>1, <4>3, CountStays DEF CountedAreSettled
    <3> QED BY <3>3, <3>4 DEF CountedAreSettled
  <2> QED BY <1>1, <2>1, <2>2, <2>3 DEF Server
<1>2. ASSUME NEW i \in Instances, InstanceRestarts(i)
      PROVE  NumberedAlive' /\ CountedAreSettled'
  BY <1>0, <1>2, RestartPointInv
<1>3. ~RedisRestarts /\ \A d \in Devices : ~RedisEvicts(d)
  BY DEF RedisRestarts, RedisEvicts, Fault, NoLoss
<1>4. ASSUME UNCHANGED vars PROVE NumberedAlive' /\ CountedAreSettled'
  <2>1. UNCHANGED <<seq, points, inst, todo, size, members, ever>> /\ pc' = pc
    BY <1>4 DEF vars, instanceVars, storeVars, callVars, batchVars
  <2>2. \A q \in Requests : Live(q)' => Live(q) /\ (pc'[q] = pc[q] \/ todo[q] = << >>)
    BY ONLY <2>1 DEF Live
  <2>3. \A q \in Requests : pc'[q] = "idle" => members[q] = {}
    BY <2>1 DEF NumberedAlive
  <2> QED BY <1>0, <2>1, <2>2, <2>3, QuietPointInv
<1>5. NumberedAlive' /\ CountedAreSettled'
  BY <1>1, <1>2, <1>3, <1>4 DEF Next, Quiescent
<1> QED BY <1>5, StoredFinite

\* Every settled number is that of a stored point.
LEMMA SettledAreStored ==
  ASSUME TypeOK, PointInv, NEW i \in Instances
  PROVE  points[i] <= Cardinality(Stored)
<1> DEFINE f == [n \in Settled(i) |-> CHOOSE dm \in Stored : dm[2].seq = n]
<1>1. ASSUME NEW n \in Settled(i) PROVE f[n] \in Stored /\ f[n][2].seq = n
  <2>1. PICK d \in Devices : \E m \in ever[d] : m.seq = n
    BY DEF Settled
  <2>2. PICK m \in ever[d] : m.seq = n
    BY <2>1
  <2>3. <<d, m>> \in Stored /\ <<d, m>>[2].seq = n
    BY <2>2 DEF Stored
  <2>4. \E dm \in Stored : dm[2].seq = n
    BY ONLY <2>3
  <2>5. f[n] = CHOOSE dm \in Stored : dm[2].seq = n
    OBVIOUS
  <2> HIDE DEF f
  <2> QED BY <2>4, <2>5
<1>2. f \in Injection(Settled(i), Stored)
  <2>1. f \in [Settled(i) -> Stored]
    BY <1>1
  <2> HIDE DEF f
  <2>2. \A a, b \in Settled(i) : f[a] = f[b] => a = b
    BY <1>1
  <2> QED BY <2>1, <2>2 DEF Injection, IsInjective
<1> HIDE DEF f
<1>3. Cardinality(Settled(i)) <= Cardinality(Stored)
  BY <1>2, FS_Injection DEF PointInv
<1>4. /\ Cardinality(Settled(i)) \in Nat /\ Cardinality(Stored) \in Nat /\ points[i] \in Nat
      /\ points[i] <= Cardinality(Settled(i))
  BY SettledFinite, FS_CardinalityType DEF PointInv, CountedAreSettled, TypeOK
<1> QED BY <1>3, <1>4

\* The counter of an instance (pibench_points_ingested_total) never runs ahead of what
\* Redis has been given to store: a batch is counted after its ZADD and only once, and a
\* restart starts it from zero.  It takes a Redis that keeps its data, and nothing else:
\* any number of instances, restarts and broken connections.
THEOREM CountedPointsAreStored ==
  ASSUME NoLoss
  PROVE  Spec => []PointsAreStored
<1>1. Init => PointInv /\ AppliedInv
  <2> SUFFICES ASSUME Init PROVE PointInv /\ AppliedInv
    OBVIOUS
  <2>1. NumberedAlive /\ AppliedInv
    BY DEF Init, NumberedAlive, Live, AppliedInv, Applied
  <2>2. ASSUME NEW i \in Instances PROVE points[i] <= Cardinality(Settled(i))
    <3>1. TypeOK /\ points[i] = 0
      BY InitTypeInv DEF TypeInv, Init
    <3> QED BY <3>1, SettledFinite
  <2>3. Stored = {}
    BY DEF Init, Stored
  <2> QED BY <2>1, <2>2, <2>3, FS_EmptySet DEF PointInv, CountedAreSettled
<1>2. TypeInv /\ TypeInv' /\ AppliedInv /\ PointInv /\ [Next]_vars => PointInv' /\ AppliedInv'
  BY StepPointInv, StepAppliedInv
<1>3. TypeInv /\ PointInv => PointsAreStored
  <2> SUFFICES ASSUME TypeInv, PointInv, NEW i \in Instances
               PROVE  points[i] <= Cardinality(Stored)
    BY DEF PointsAreStored, Stored
  <2> QED BY SettledAreStored DEF TypeInv
<1> QED BY <1>1, <1>2, <1>3, TypeInvariance, PTL DEF Spec

-----------------------------------------------------------------------------
(* The write path implements the abstract log (TelemetryLog), for every value  *)
(* of the constants: initial states map to initial states, and every step of   *)
(* a request, of Redis or of a fault maps to a step of the log or to none.     *)

\* The abstract phase of every request, and which of them have taken effect.
Phases   == [r \in Requests |-> PhaseOf(r)]
AppliedF == [r \in Requests |-> Applied(r)]

-----------------------------------------------------------------------------
\* The phase a client can tell from the place in the handler.
LEMMA PhaseTable ==
  \A r : /\ pc[r] = "idle" => PhaseOf(r) = "idle"
         /\ pc[r] \in {"encode", "connect", "sent"} => PhaseOf(r) = "open"
         /\ pc[r] = "accepted" => PhaseOf(r) = "acked"
         /\ pc[r] \in {"rejected", "dead"} => PhaseOf(r) = "failed"
BY ZenonT(30) DEF PhaseOf

\* The same after a step.
LEMMA PhaseTableNext ==
  \A r : /\ pc'[r] = "idle" => PhaseOf(r)' = "idle"
         /\ pc'[r] \in {"encode", "connect", "sent"} => PhaseOf(r)' = "open"
         /\ pc'[r] = "accepted" => PhaseOf(r)' = "acked"
         /\ pc'[r] \in {"rejected", "dead"} => PhaseOf(r)' = "failed"
BY ZenonT(30) DEF PhaseOf

\* A request that does not move keeps its phase.
LEMMA SamePhase == \A r : pc'[r] = pc[r] => PhaseOf(r)' = PhaseOf(r)
BY DEF PhaseOf

\* A step that moves one request changes the phase of that request alone.
LEMMA PhaseMoves ==
  ASSUME NEW r \in Requests, \A q \in Requests \ {r} : pc'[q] = pc[q]
  PROVE  Phases' = [Phases EXCEPT ![r] = PhaseOf(r)']
<1>1. \A q \in Requests \ {r} : PhaseOf(q)' = PhaseOf(q)
  BY SamePhase
<1>2. Phases' = [q \in Requests |-> PhaseOf(q)']
  BY DEF Phases
<1> QED BY <1>1, <1>2 DEF Phases

\* The same for taking effect.
LEMMA AppliedMoves ==
  ASSUME NEW r \in Requests, \A q \in Requests \ {r} : replies'[q] = replies[q]
  PROVE  AppliedF' = [AppliedF EXCEPT ![r] = Applied(r)']
<1>1. \A q \in Requests \ {r} : Applied(q)' = Applied(q)
  BY DEF Applied
<1>2. AppliedF' = [q \in Requests |-> Applied(q)']
  BY DEF AppliedF
<1> QED BY <1>1, <1>2 DEF AppliedF

\* A step in which no request moves, and none takes effect.
LEMMA NoneMoves ==
  /\ pc' = pc => Phases' = Phases
  /\ replies' = replies => AppliedF' = AppliedF
  /\ (\A q \in Requests : Applied(q)' <=> Applied(q)) => AppliedF' = AppliedF
<1>1. pc' = pc => Phases' = Phases
  BY DEF Phases, PhaseOf
<1>2. replies' = replies => AppliedF' = AppliedF
  BY DEF AppliedF, Applied
<1>3. ASSUME \A q \in Requests : Applied(q)' <=> Applied(q) PROVE AppliedF' = AppliedF
  <2>1. \A q \in Requests : Applied(q)' = Applied(q)
    BY <1>3 DEF Applied
  <2>2. AppliedF' = [q \in Requests |-> Applied(q)']
    BY DEF AppliedF
  <2> QED BY <2>1, <2>2 DEF AppliedF
<1> QED BY <1>1, <1>2, <1>3

-----------------------------------------------------------------------------
\* Fresh counters and an empty Redis are an empty log without calls (NewRedis).
LEMMA InitLog == Init => Log!Init
BY DEF Init, Log!Init, PhaseOf

\* A request that only gets nearer to its ZADD leaves the log alone.
LEMMA StutterLog ==
  ASSUME UNCHANGED <<zset, dev, size, faults>>, Phases' = Phases, AppliedF' = AppliedF
  PROVE  UNCHANGED Log!vars
BY DEF Log!vars, Phases, AppliedF, Applied

\* Receive begins a call.
LEMMA ReceiveBegins ==
  ASSUME TypeInv, NEW r \in Requests, Receive(r)
  PROVE  Log!Begin(r)
<1> USE DEF TypeInv, TypeOK, Receive, instanceVars, storeVars, callVars, batchVars, connVars
<1>1. PICK batch \in Batch : size' = [size EXCEPT ![r] = Len(batch)]
  OBVIOUS
<1>2. Len(batch) \in Nat \ {0}
  BY BatchAssumption DEF Batch
<1>3. size'[r] \in Nat \ {0} /\ size' = [size EXCEPT ![r] = size'[r]]
  BY <1>1, <1>2
<1>4. PhaseOf(r) = "idle" /\ PhaseOf(r)' = "open"
  BY PhaseTable, PhaseTableNext
<1>5. Phases' = [Phases EXCEPT ![r] = "open"] /\ AppliedF' = AppliedF
  BY <1>4, PhaseMoves, NoneMoves
<1>6. Phases[r] = "idle"
  BY <1>4 DEF Phases
<1>7. (\E d \in Devices : dev' = [dev EXCEPT ![r] = d]) /\ zset' = zset /\ faults' = faults
  OBVIOUS
<1> QED BY ONLY <1>3, <1>5, <1>6, <1>7 DEF Log!Begin, Phases, AppliedF, Applied

\* The log counts as the write path does: both take Cardinality from FiniteSets.
LEMMA SameCardinality == \A S : Log!Cardinality(S) = Cardinality(S)
BY Zenon DEF Log!Cardinality, Cardinality

\* Every member of a batch in flight is new to its device, so the ZADD adds them all.
LEMMA BatchIsNew ==
  ASSUME OneInstance, TypeInv, SeqInv, CountInv, NEW r \in Requests, RedisAdd(r)
  PROVE  /\ members[r] \cap zset[dev[r]] = {}
         /\ Cardinality(members[r]) = size[r]
<1> USE DEF TypeInv, TypeOK, RedisAdd
<1>1. dev[r] \in Devices /\ pc[r] \notin {"idle", "encode"} /\ replies[r] = << >>
  BY PipelineHeads DEF Placed, WireShape
<1>2. members[r] \cap zset[dev[r]] = {}
  BY <1>1 DEF SeqInv, Finite
<1>3. todo[r] = << >> /\ Cardinality(members[r]) + Len(todo[r]) = size[r]
  BY <1>1 DEF CountInv
<1>4. Cardinality(members[r]) \in Nat
  BY FS_CardinalityType DEF Finite
<1> QED BY <1>2, <1>3, <1>4

\* The ZADD is the one step in which the call takes effect, as its request is open or
\* has been given up.
LEMMA RedisAddApplies ==
  ASSUME OneInstance, TypeInv, SeqInv, CountInv, NEW r \in Requests, RedisAdd(r)
  PROVE  Log!Apply(r)
<1> USE DEF TypeInv, TypeOK, RedisAdd
<1>1. dev[r] \in Devices /\ pc[r] \notin {"idle", "encode", "connect"} /\ replies[r] = << >>
  BY PipelineHeads DEF Placed, WireShape
<1>2. ~Applied(r) /\ pc[r] \in {"sent", "rejected", "dead"}
  BY <1>1 DEF Applied, CountInv, Phase
<1>3. Phases[r] \in {"open", "failed"}
  BY <1>2, PhaseTable DEF Phases
<1>4. replies' = [replies EXCEPT ![r] = Append(replies[r], "ok")]
  OBVIOUS
<1>5. replies'[r] = Append(<< >>, "ok") /\ \A q \in Requests \ {r} : replies'[q] = replies[q]
  BY <1>1, <1>4
<1>6. Applied(r)' = TRUE
  BY <1>5, AppendHead DEF Applied
<1>7. AppliedF' = [AppliedF EXCEPT ![r] = TRUE] /\ ~AppliedF[r]
  BY <1>2, <1>5, <1>6, AppliedMoves DEF AppliedF
<1>8. Phases' = Phases /\ dev' = dev /\ size' = size /\ faults' = faults
  BY NoneMoves DEF callVars
<1>9. zset' = [zset EXCEPT ![dev[r]] = zset[dev[r]] \cup members[r]]
  OBVIOUS
<1>10. zset'[dev[r]] \ zset[dev[r]] = members[r]
  BY <1>1, <1>9, BatchIsNew
<1>11. /\ Cardinality(zset'[dev[r]] \ zset[dev[r]]) = size[r]
       /\ zset' = [zset EXCEPT ![dev[r]] = zset[dev[r]] \cup (zset'[dev[r]] \ zset[dev[r]])]
  BY ONLY <1>9, <1>10, BatchIsNew, OneInstance, TypeInv, SeqInv, CountInv, RedisAdd(r), r \in Requests
<1>12. Log!Cardinality(zset'[dev[r]] \ zset[dev[r]]) = size[r]
  BY <1>11, SameCardinality
<1> QED BY ONLY <1>3, <1>7, <1>8, <1>11, <1>12 DEF Log!Apply, Phases, AppliedF, Applied

\* A trim prunes, and keeps the newest Cap entries.
LEMMA RedisTrimPrunes ==
  ASSUME TypeInv, NEW r \in Requests, RedisTrim(r)
  PROVE  dev[r] \in Devices /\ Log!Prune(dev[r])
<1> USE DEF TypeInv, TypeOK
<1>1. dev[r] \in Devices
  BY DEF Placed, WireShape, RedisTrim
<1>2. zset' = [zset EXCEPT ![dev[r]] = Newest(zset[dev[r]], Cap)]
  BY DEF RedisTrim, Trimmed
<1>3. zset'[dev[r]] = Newest(zset[dev[r]], Cap)
  BY <1>1, <1>2
<1>4. Phases' = Phases /\ AppliedF' = AppliedF
  BY NoneMoves, LaterReply DEF RedisTrim
<1>5. dev' = dev /\ size' = size /\ faults' = faults
  BY DEF RedisTrim, callVars
<1>6. /\ Newest(zset[dev[r]], Cap) \subseteq zset'[dev[r]]
      /\ zset'[dev[r]] \subseteq zset[dev[r]]
      /\ zset' = [zset EXCEPT ![dev[r]] = zset'[dev[r]]]
  BY ONLY <1>2, <1>3, NewestSubset
<1>7. Log!Prune(dev[r])
  BY ONLY <1>4, <1>5, <1>6 DEF Log!Prune, Phases, AppliedF, Applied
<1> QED BY <1>1, <1>7

\* A 202 acknowledges a call that has taken effect.
LEMMA AcceptAcks ==
  ASSUME TypeInv, NEW r \in Requests, Accept(r)
  PROVE  Log!Ack(r)
<1> USE DEF TypeInv, TypeOK, Accept
<1>1. PhaseOf(r) = "open" /\ PhaseOf(r)' = "acked"
  BY PhaseTable, PhaseTableNext
<1>2. Phases' = [Phases EXCEPT ![r] = "acked"] /\ Phases[r] = "open"
  BY <1>1, PhaseMoves DEF Phases
<1>3. AppliedF[r] /\ AppliedF' = AppliedF
  BY RepliedApplied, NoneMoves DEF AppliedF, connVars
<1>4. UNCHANGED <<zset, dev, size, faults>>
  BY DEF storeVars, callVars
<1> QED BY ONLY <1>2, <1>3, <1>4 DEF Log!Ack, Phases, AppliedF, Applied

\* A 503 fails a call, whatever becomes of its batch.
LEMMA RejectFails ==
  ASSUME TypeInv, NEW r \in Requests, Reject(r) \/ DialFails(r)
  PROVE  Log!Fail(r)
<1> USE DEF TypeInv, TypeOK
<1>1. pc[r] \in {"connect", "sent"} /\ pc' = [pc EXCEPT ![r] = "rejected"]
  BY DEF Reject, DialFails
<1>2. PhaseOf(r) = "open" /\ PhaseOf(r)' = "failed"
  BY <1>1, PhaseTable, PhaseTableNext
<1>3. Phases' = [Phases EXCEPT ![r] = "failed"] /\ Phases[r] = "open"
  BY <1>1, <1>2, PhaseMoves DEF Phases
<1>4. replies' = replies
  BY DEF Reject, DialFails, connVars
<1>5. AppliedF' = AppliedF
  BY <1>4, NoneMoves
<1>6. UNCHANGED <<zset, dev, size>>
  BY DEF Reject, DialFails, storeVars, callVars
<1>7. faults' \in {faults, faults + 1}
  BY DEF Reject, DialFails, Fault
<1> QED BY ONLY <1>3, <1>5, <1>6, <1>7 DEF Log!Fail, Phases, AppliedF, Applied

\* The slot is free again, with nothing of its request left in Redis' input.
LEMMA FinishEnds ==
  ASSUME TypeInv, NEW r \in Requests, Finish(r)
  PROVE  Log!End(r)
<1> USE DEF TypeInv, TypeOK, Finish
<1>1. PhaseOf(r) \in {"acked", "failed"} /\ PhaseOf(r)' = "idle"
  BY PhaseTable, PhaseTableNext
<1>2. Phases' = [Phases EXCEPT ![r] = "idle"] /\ Phases[r] \in {"acked", "failed"}
  BY <1>1, PhaseMoves DEF Phases
<1>3. replies'[r] = << >> /\ \A q \in Requests \ {r} : replies'[q] = replies[q]
  OBVIOUS
<1>4. Applied(r)' = FALSE
  BY <1>3 DEF Applied
<1>5. AppliedF' = [AppliedF EXCEPT ![r] = FALSE]
  BY <1>3, <1>4, AppliedMoves
<1>6. /\ dev' = [dev EXCEPT ![r] = "none"] /\ size' = [size EXCEPT ![r] = 0]
      /\ zset' = zset /\ faults' = faults
  BY DEF storeVars
<1> QED BY ONLY <1>2, <1>5, <1>6 DEF Log!End, Phases, AppliedF, Applied

\* A restart of Redis and an eviction lose whole logs, and nothing else.
LEMMA LossLoses ==
  ASSUME TypeInv, RedisRestarts \/ \E d \in Devices : RedisEvicts(d)
  PROVE  Log!Lose
<1> USE DEF TypeInv, TypeOK
<1>1. UNCHANGED <<pc, replies, dev, size>>
  BY DEF RedisRestarts, RedisEvicts, callVars, connVars
<1>2. Phases' = Phases /\ AppliedF' = AppliedF
  BY <1>1, NoneMoves
<1>3. /\ \A d \in Devices : zset'[d] \in {zset[d], {}}
      /\ zset' = [d \in Devices |-> zset'[d]]
  BY DEF RedisRestarts, RedisEvicts
<1>4. faults' = faults + 1
  BY DEF RedisRestarts, RedisEvicts, Fault
<1> QED BY ONLY <1>1, <1>2, <1>3, <1>4 DEF Log!Lose, Phases, AppliedF, Applied

\* A break and a refusal are failures that lose no log.
LEMMA FaultLosesNothing ==
  ASSUME TypeInv, NEW r \in Requests, ConnBreaks(r) \/ RedisRefuses(r)
  PROVE  Log!Lose
<1> USE DEF TypeInv, TypeOK
<1>1. UNCHANGED <<zset, pc, dev, size>> /\ faults' = faults + 1
  BY DEF ConnBreaks, RedisRefuses, Fault, storeVars, callVars
<1>2. AppliedF' = AppliedF
  <2>1. CASE ConnBreaks(r)
    BY <2>1, NoneMoves DEF ConnBreaks
  <2>2. CASE RedisRefuses(r)
    BY <2>2, LaterReply, NoneMoves
  <2> QED BY <2>1, <2>2
<1>3. Phases' = Phases
  BY <1>1, NoneMoves
<1>4. /\ \A d \in Devices : zset'[d] \in {zset[d], {}}
      /\ zset' = [d \in Devices |-> zset'[d]]
  BY <1>1
<1> QED BY ONLY <1>1, <1>2, <1>3, <1>4 DEF Log!Lose, Phases, AppliedF, Applied

\* Encoding, counting and sending are invisible to the log.
LEMMA QuietSteps ==
  ASSUME TypeInv, NEW r \in Requests,
         EncodeMember(r) \/ CountWrite(r) \/ Send(r)
  PROVE  UNCHANGED Log!vars
<1> USE DEF TypeInv, TypeOK
<1>1. UNCHANGED <<zset, dev, size, faults>>
  BY DEF EncodeMember, CountWrite, Send, storeVars, callVars
<1>2. Phases' = Phases
  <2>1. CASE pc' = pc
    BY <2>1, NoneMoves
  <2>2. CASE CountWrite(r) \/ Send(r)
    <3>1. /\ pc[r] \in {"encode", "connect"} /\ pc'[r] \in {"connect", "sent"}
          /\ \A q \in Requests \ {r} : pc'[q] = pc[q]
      BY <2>2 DEF CountWrite, Send
    <3>2. PhaseOf(r) = "open" /\ PhaseOf(r)' = "open"
      BY <3>1, PhaseTable, PhaseTableNext
    <3>3. \A q \in Requests : PhaseOf(q)' = PhaseOf(q)
      BY <3>1, <3>2, SamePhase
    <3>4. Phases' = [q \in Requests |-> PhaseOf(q)']
      BY DEF Phases
    <3> QED BY <3>3, <3>4 DEF Phases
  <2> QED BY <2>1, <2>2 DEF EncodeMember
<1>3. AppliedF' = AppliedF
  BY NoneMoves DEF EncodeMember, CountWrite, Send, connVars
<1> QED BY <1>1, <1>2, <1>3, StutterLog

\* Every step of the write path is a step of the log or leaves it alone.
LEMMA StepLog ==
  ASSUME OneInstance, TypeInv, SeqInv, CountInv, [Next]_vars
  PROVE  [Log!Next]_(Log!vars)
<1>1. ASSUME NEW r \in Requests, Receive(r) \/ Server(r) \/ RequestFault(r)
      PROVE  [Log!Next]_(Log!vars)
  <2>1. CASE Receive(r)
    BY <2>1, ReceiveBegins DEF Log!Next
  <2>2. CASE RedisAdd(r)
    BY <2>2, RedisAddApplies DEF Log!Next
  <2>3. CASE RedisTrim(r)
    BY <2>3, RedisTrimPrunes DEF Log!Next
  <2>4. CASE Accept(r)
    BY <2>4, AcceptAcks DEF Log!Next
  <2>5. CASE Reject(r) \/ DialFails(r)
    BY <2>5, RejectFails DEF Log!Next
  <2>6. CASE Finish(r)
    BY <2>6, FinishEnds DEF Log!Next
  <2>7. CASE EncodeMember(r) \/ CountWrite(r) \/ Send(r)
    BY <2>7, QuietSteps
  <2>8. CASE ConnBreaks(r) \/ RedisRefuses(r)
    BY <2>8, FaultLosesNothing DEF Log!Next
  <2> QED BY <1>1, <2>1, <2>2, <2>3, <2>4, <2>5, <2>6, <2>7, <2>8 DEF Server, RequestFault
<1>2. CASE RedisRestarts \/ \E d \in Devices : RedisEvicts(d)
  BY <1>2, LossLoses DEF Log!Next
<1>3. \A i \in Instances : ~InstanceRestarts(i)
  BY DEF InstanceRestarts, Fault, OneInstance
<1>4. CASE UNCHANGED vars
  <2>1. UNCHANGED <<zset, dev, size, pc, replies, faults>>
    BY <1>4 DEF vars, storeVars, callVars, connVars
  <2>2. Phases' = Phases /\ AppliedF' = AppliedF
    BY <2>1, NoneMoves
  <2> QED BY <2>1, <2>2, StutterLog
<1> QED BY <1>1, <1>2, <1>3, <1>4 DEF Next, Quiescent

\* Clients of one instance that is not restarted see the abstract log: every batch is
\* stored at most once, in one step and with one entry per point, before its 202; a
\* trim costs only old entries; what a 503 leaves open may still be stored, once.
\* This holds through broken connections, refused commands, trims that overlap and
\* the loss of Redis' data.
THEOREM LogRefined ==
  ASSUME OneInstance
  PROVE  Spec => ImplementsLog
<1>1. TypeInv /\ SeqInv /\ CountInv /\ [Next]_vars => [Log!Next]_(Log!vars)
  BY StepLog
<1>2. TypeInv /\ SeqInv /\ CountInv /\ [Next]_vars => SeqInv' /\ CountInv'
  BY StepSeqInv, StepCountInv
<1> QED BY <1>1, <1>2, InitLog, InitSeqCount, TypeInvariance, PTL
        DEF Spec, ImplementsLog, Log!Spec
=============================================================================
