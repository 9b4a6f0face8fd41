--------------------------- MODULE ConnPool_proofs ---------------------------
(* Theorems about the connection pool, for every value of the constants: any *)
(* number of operations, connections and faults, any capacity of the pool.   *)
EXTENDS ConnPool, FiniteSetTheorems, SequenceTheorems, TLAPS

USE OpsAssumption, PoolAssumption, FaultAssumption, NoneAssumption

\* Where an operation has a connection.
InUse == {"arm", "send", "await", "put"}

\* An operation has a connection from the end of get to put or Close.
Holding == \A p \in Ops : held[p] # none <=> pc[p] \in InUse

\* ConnsAccounted, without counting: an open connection is in the pool or held,
\* once, and what is in the pool or held is open.
OnePlace ==
  /\ \A c \in Conns :
       open[c] => (\E k \in DOMAIN pool : pool[k] = c) \/ (\E p \in Ops : held[p] = c)
  /\ \A k \in DOMAIN pool : open[pool[k]] /\ \A p \in Ops : held[p] # pool[k]
  /\ \A j, k \in DOMAIN pool : pool[j] = pool[k] => j = k
  /\ \A p \in Ops : held[p] # none => open[held[p]]
  /\ \A p, q \in Ops : held[p] # none /\ held[p] = held[q] => p = q

Blank(c) == limit[c] = "none" /\ sent[c] = << >> /\ inbox[c] = << >>

\* A connection that is not open is as a dial must find it.
ClosedIsBlank == \A c \in Conns : ~open[c] => Blank(c)

\* Nothing is on a connection before the commands are sent.
NothingEarly ==
  \A p \in Ops : pc[p] \in {"arm", "send"} =>
    sent[held[p]] = << >> /\ inbox[held[p]] = << >>

\* An operation waits for at least one reply, and puts the connection back when it
\* waits for none.
NeedsReplies ==
  \A p \in Ops : /\ pc[p] \in {"get", "dial", "arm", "send", "await"} => need[p] >= 1
                 /\ pc[p] = "put" => need[p] = 0

\* A writer has no deadline, on its context or on its connection.
Untimed ==
  \A p \in Writers : /\ ctx[p] = "none" /\ result[p] \notin {"deadline", "timeout"}
                     /\ held[p] # none => limit[held[p]] = "none"

Inv ==
  /\ TypeOK /\ Holding /\ OnePlace
  /\ ClosedIsBlank /\ PooledIsClean
  /\ NothingEarly /\ NeedsReplies /\ RepliesAreOwn
  /\ Untimed

-----------------------------------------------------------------------------
(* The channel is a sequence: what a receive and a send do to it.            *)

\* A receive takes the first connection and moves the others up by one (get, Close).
LEMMA ReceiveFromPool ==
  ASSUME NEW s \in Seq(Conns), s # << >>
  PROVE  /\ Head(s) \in Conns /\ Head(s) = s[1] /\ 1 \in DOMAIN s
         /\ Tail(s) \in Seq(Conns) /\ Len(Tail(s)) = Len(s) - 1
         /\ \A k \in DOMAIN Tail(s) : k + 1 \in DOMAIN s /\ Tail(s)[k] = s[k + 1]
         /\ \A k \in DOMAIN s : k # 1 => k - 1 \in DOMAIN Tail(s) /\ Tail(s)[k - 1] = s[k]
<1>1. Len(s) \in Nat \ {0} /\ DOMAIN s = 1..Len(s) /\ Head(s) = s[1]
  BY EmptySeq, LenProperties
<1>2. /\ Head(s) \in Conns /\ Tail(s) \in Seq(Conns)
      /\ Len(Tail(s)) = Len(s) - 1
      /\ \A i \in 1..Len(Tail(s)) : Tail(s)[i] = s[i + 1]
  BY HeadTailProperties
<1>3. DOMAIN Tail(s) = 1..Len(s) - 1
  BY <1>2, LenProperties
<1> QED BY ONLY <1>1, <1>2, <1>3

\* A send adds a connection behind the others (put).
LEMMA SendToPool ==
  ASSUME NEW s \in Seq(Conns), NEW c \in Conns
  PROVE  /\ Append(s, c) \in Seq(Conns) /\ Len(Append(s, c)) = Len(s) + 1
         /\ DOMAIN s \subseteq DOMAIN Append(s, c)
         /\ \A k \in DOMAIN s : Append(s, c)[k] = s[k]
         /\ \A k \in DOMAIN Append(s, c) : k \in DOMAIN s \/ Append(s, c)[k] = c
         /\ Len(s) + 1 \in DOMAIN Append(s, c) /\ Append(s, c)[Len(s) + 1] = c
         /\ Len(s) + 1 \notin DOMAIN s
         /\ \A k \in DOMAIN Append(s, c) : k \in DOMAIN s \/ k = Len(s) + 1
<1>1. Len(s) \in Nat /\ DOMAIN s = 1..Len(s)
  BY LenProperties
<1>2. /\ Append(s, c) \in Seq(Conns) /\ Len(Append(s, c)) = Len(s) + 1
      /\ \A i \in 1..Len(s) : Append(s, c)[i] = s[i]
      /\ Append(s, c)[Len(s) + 1] = c
  BY AppendProperties
<1>3. DOMAIN Append(s, c) = 1..Len(s) + 1
  BY <1>2, LenProperties
<1> QED BY ONLY <1>1, <1>2, <1>3

\* A pipeline of n commands on an idle connection (roundtrip's writes).
LEMMA Pipeline ==
  ASSUME NEW p \in Ops, NEW n \in Nat
  PROVE  LET s == << >> \o [k \in 1..n |-> p]
         IN  s \in Seq(Ops) /\ Len(s) = n /\ \A k \in DOMAIN s : s[k] = p
<1> DEFINE t == [k \in 1..n |-> p]
<1>1. t \in Seq(Ops)
  BY SeqDef
<1>2. Len(t) = n
  BY <1>1, LenProperties
<1>3. << >> \o t = t
  BY <1>1, ConcatEmptySeq
<1> HIDE DEF t
<1>4. DOMAIN t = 1..n /\ \A k \in 1..n : t[k] = p
  BY DEF t
<1> QED BY <1>1, <1>2, <1>3, <1>4 DEF t

-----------------------------------------------------------------------------
\* A fresh store satisfies the invariant (NewRedis).
LEMMA InitInv == Init => Inv
<1> SUFFICES ASSUME Init PROVE Inv
  OBVIOUS
<1> USE DEF Init
<1>1. TypeOK
  BY DEF TypeOK
<1>2. Holding /\ NothingEarly /\ NeedsReplies /\ Untimed
  BY DEF Holding, InUse, NothingEarly, NeedsReplies, Untimed, Ops
<1>3. OnePlace /\ ClosedIsBlank
  BY DEF OnePlace, ClosedIsBlank, Blank
<1>4. PooledIsClean /\ RepliesAreOwn
  BY DEF PooledIsClean, RepliesAreOwn
<1> QED BY <1>1, <1>2, <1>3, <1>4 DEF Inv

\* RepliesAreOwn, for one operation.
Own(p) ==
  /\ \A k \in DOMAIN sent[held[p]] : sent[held[p]][k] = p
  /\ \A k \in DOMAIN inbox[held[p]] : inbox[held[p]][k].to = p
  /\ Len(sent[held[p]]) + Len(inbox[held[p]]) <= need[p]

\* Nothing has no entries: an operation owns all of it.
LEMMA BlankIsOwn == DOMAIN << >> = {} /\ Len(<< >>) + Len(<< >>) = 0
OBVIOUS

\* Replies and unanswered commands, as numbers: none of either, a reset that takes
\* the commands, an answer that turns one into a reply.
LEMMA Counts ==
  \A a, b, n \in Nat : a + b <= n =>
    /\ n = 0 => a = 0 /\ b = 0
    /\ 0 + b <= n
    /\ a - 1 + (b + 1) <= n
OBVIOUS

\* Steps of an operation, or of time, that touch neither the pool nor a connection.
Control(p) ==
  \/ Start(p) \/ GetEmpty(p) \/ DialFails(p) \/ Finish(p)
  \/ WarmStart(p) \/ WarmNext(p) \/ WarmRetry(p) \/ WarmEnd(p)
  \/ InstantComes(p) \/ ContextExpires(p)

\* An operation between two uses of a connection keeps the invariant.
LEMMA ControlInv ==
  ASSUME Inv, NEW p \in Ops, Control(p)
  PROVE  Inv'
<1> USE DEF Inv, connVars, envVars, warmVars
<1>1. /\ UNCHANGED <<pool, open, alive, sent, inbox, limit, held, up, closing, faults>>
      /\ pc[p] \notin InUse => pc'[p] \notin InUse \cup {"put"}
      /\ pc[p] \in InUse => pc' = pc /\ need' = need
      /\ \A q \in Ops : q # p => pc'[q] = pc[q] /\ need'[q] = need[q]
  BY DEF Control, Start, GetEmpty, DialFails, Finish, WarmStart, WarmNext, WarmRetry,
         WarmEnd, InstantComes, ContextExpires, Reset, TypeOK, InUse
<1>2. TypeOK'
  <2>1. CASE Start(p)
    BY <2>1 DEF Start, TypeOK
  <2>2. CASE GetEmpty(p) \/ DialFails(p) \/ WarmEnd(p) \/ InstantComes(p) \/ ContextExpires(p)
    BY <2>2 DEF GetEmpty, DialFails, WarmEnd, InstantComes, ContextExpires, TypeOK
  <2>3. CASE WarmStart(p)
    BY <2>3 DEF WarmStart, TypeOK
  <2>6. CASE Finish(p)
    BY <2>6 DEF Finish, Reset, TypeOK
  <2>4. CASE WarmNext(p)
    BY <2>4 DEF WarmNext, TypeOK
  <2>5. CASE WarmRetry(p)
    BY <2>5 DEF WarmRetry, Reset, Counted, TypeOK
  <2> QED BY <2>1, <2>2, <2>3, <2>4, <2>5, <2>6 DEF Control
<1>3. Holding'
  BY <1>1 DEF Holding, InUse, TypeOK
<1>4. (OnePlace /\ ClosedIsBlank /\ PooledIsClean)'
  BY <1>1 DEF OnePlace, ClosedIsBlank, Blank, PooledIsClean
<1>5. NothingEarly'
  BY <1>1 DEF NothingEarly, InUse
<1>6. NeedsReplies'
  BY DEF Control, Start, GetEmpty, DialFails, Finish, WarmStart, WarmNext, WarmRetry,
         WarmEnd, InstantComes, ContextExpires, Reset, TypeOK, NeedsReplies
<1>7. RepliesAreOwn'
  BY <1>1 DEF RepliesAreOwn, Holding
<1>8. Untimed'
  BY DEF Control, Start, GetEmpty, DialFails, Finish, WarmStart, WarmNext, WarmRetry,
         WarmEnd, InstantComes, ContextExpires, Reset, TypeOK, Untimed, Ops, Timed
<1> QED BY <1>2, <1>3, <1>4, <1>5, <1>6, <1>7, <1>8

\* get takes a connection out of the channel: it leaves one place for another.
LEMMA GetPooledInv ==
  ASSUME Inv, NEW p \in Ops, GetPooled(p)
  PROVE  Inv'
<1> USE DEF Inv, GetPooled, connVars, envVars, warmVars
<1> DEFINE c == Head(pool)
<1>1. /\ c \in Conns /\ c = pool[1] /\ 1 \in DOMAIN pool
      /\ pool' \in Seq(Conns) /\ Len(pool') = Len(pool) - 1
      /\ \A k \in DOMAIN pool' : k + 1 \in DOMAIN pool /\ pool'[k] = pool[k + 1]
      /\ \A k \in DOMAIN pool : k # 1 => k - 1 \in DOMAIN pool' /\ pool'[k - 1] = pool[k]
  BY ReceiveFromPool DEF TypeOK
<1>11. DOMAIN pool = 1..Len(pool) /\ DOMAIN pool' = 1..Len(pool')
  BY <1>1, LenProperties DEF TypeOK
<1>3. limit[c] = "none" /\ sent[c] = << >> /\ inbox[c] = << >> /\ open[c]
  BY <1>1 DEF PooledIsClean, OnePlace
<1>4. \A q \in Ops : held[q] # c
  BY <1>1 DEF OnePlace
<1>5. /\ UNCHANGED <<open, alive, sent, inbox, limit, need, ctx, result, warmed, attempts,
                     up, closing, faults>>
      /\ pc' = [pc EXCEPT ![p] = "arm"] /\ held' = [held EXCEPT ![p] = c]
      /\ pc[p] = "get"
  OBVIOUS
<1>12. held \in [Ops -> Conns \cup {none}]
       /\ pc \in [Ops -> {"idle", "get", "dial", "arm", "send", "await", "put", "done", "ended"}]
  BY DEF TypeOK
<1> HIDE DEF c, GetPooled
<1>2. /\ \A q \in Ops : q # p => pc'[q] = pc[q] /\ held'[q] = held[q]
      /\ pc'[p] = "arm" /\ held'[p] = c /\ held[p] = none
  BY <1>1, <1>5, <1>12 DEF Holding, InUse
<1>6. TypeOK'
  BY <1>1, <1>5, LenProperties DEF TypeOK
<1>7. (Holding /\ NothingEarly /\ NeedsReplies /\ Untimed)'
  BY <1>1, <1>2, <1>3, <1>5, GetPooled(p)
     DEF Holding, InUse, NothingEarly, NeedsReplies, Untimed, Ops, GetPooled
<1>8. OnePlace'
  <2>1. (\A d \in Conns : open[d] =>
           (\E k \in DOMAIN pool : pool[k] = d) \/ (\E q \in Ops : held[q] = d))'
    <3> SUFFICES ASSUME NEW d \in Conns, open[d], \A q \in Ops : held'[q] # d
                 PROVE  \E k \in DOMAIN pool' : pool'[k] = d
      BY <1>5
    <3>1. \A q \in Ops : held[q] # d
      BY <1>1, <1>2
    <3>2. PICK k \in DOMAIN pool : pool[k] = d
      BY <3>1 DEF OnePlace
    <3> QED BY <3>2, <1>1, <1>2
  <2>2. (\A k \in DOMAIN pool : open[pool[k]] /\ \A q \in Ops : held[q] # pool[k])'
    <3> SUFFICES ASSUME NEW k \in DOMAIN pool', NEW q \in Ops
                 PROVE  open[pool'[k]] /\ held'[q] # pool'[k]
      BY <1>5 DEF OnePlace
    <3>1. k + 1 \in DOMAIN pool /\ k + 1 # 1 /\ pool'[k] = pool[k + 1]
      BY <1>1, <1>11
    <3>2. pool[k + 1] # c
      BY <3>1, <1>1 DEF OnePlace
    <3> QED BY <3>1, <3>2, <1>2 DEF OnePlace
  <2>3. (\A j, k \in DOMAIN pool : pool[j] = pool[k] => j = k)'
    BY <1>1, <1>2, <1>11 DEF OnePlace
  <2>4. (\A q \in Ops : held[q] # none => open[held[q]])'
    BY <1>2, <1>3, <1>5 DEF OnePlace
  <2>5. (\A q, r \in Ops : held[q] # none /\ held[q] = held[r] => q = r)'
    BY <1>2, <1>4 DEF OnePlace
  <2> QED BY <2>1, <2>2, <2>3, <2>4, <2>5 DEF OnePlace
<1>9. (ClosedIsBlank /\ PooledIsClean)'
  BY <1>1, <1>5 DEF ClosedIsBlank, Blank, PooledIsClean
<1>10. RepliesAreOwn'
  <2> SUFFICES ASSUME NEW q \in Ops, held'[q] # none PROVE Own(q)'
    BY DEF RepliesAreOwn, Own
  <2>1. CASE q = p
    <3>1. need[p] \in 0..2
      BY DEF TypeOK
    <3>2. sent'[held'[q]] = << >> /\ inbox'[held'[q]] = << >> /\ need'[q] = need[p]
      BY <2>1, <1>2, <1>3, <1>5
    <3> QED BY <3>1, <3>2, BlankIsOwn DEF Own
  <2>2. CASE q # p
    <3>1. Own(q) /\ held'[q] = held[q]
      BY <2>2, <1>2 DEF RepliesAreOwn, Own
    <3> QED BY <3>1, <1>5 DEF Own
  <2> QED BY <2>1, <2>2
<1> QED BY <1>6, <1>7, <1>8, <1>9, <1>10

\* A dial finds a blank connection and is the only one to have it.
LEMMA DialOkInv ==
  ASSUME Inv, NEW p \in Ops, DialOk(p)
  PROVE  Inv'
<1> USE DEF Inv, warmVars, envVars
<1>1. PICK c \in Conns : /\ ~open[c]
                         /\ held' = [held EXCEPT ![p] = c]
                         /\ open' = [open EXCEPT ![c] = TRUE]
                         /\ alive' = [alive EXCEPT ![c] = TRUE]
  BY DEF DialOk
<1>2. /\ UNCHANGED <<pool, sent, inbox, limit, need, ctx, result, warmed, attempts,
                     up, closing, faults>>
      /\ pc[p] = "dial" /\ pc' = [pc EXCEPT ![p] = "arm"]
  BY DEF DialOk
<1>3. /\ \A q \in Ops : q # p => pc'[q] = pc[q] /\ held'[q] = held[q]
      /\ pc'[p] = "arm" /\ held'[p] = c /\ held[p] = none
      /\ open'[c] /\ \A d \in Conns : d # c => open'[d] = open[d]
  BY <1>1, <1>2 DEF TypeOK, Holding, InUse
<1>4. /\ Blank(c) /\ c # none
      /\ \A q \in Ops : held[q] # c
      /\ \A k \in DOMAIN pool : pool[k] # c
  BY <1>1, <1>2, <1>3 DEF ClosedIsBlank, OnePlace
<1>5. \A k \in DOMAIN pool : pool[k] \in Conns
  BY ElementOfSeq, LenProperties DEF TypeOK
<1>6. TypeOK'
  BY <1>1, <1>2 DEF TypeOK
<1>7. (Holding /\ NothingEarly /\ NeedsReplies /\ Untimed)'
  BY <1>2, <1>3, <1>4 DEF Holding, InUse, NothingEarly, NeedsReplies, Untimed, Blank, Ops
<1>8. OnePlace'
  <2>1. (\A d \in Conns : open[d] =>
           (\E k \in DOMAIN pool : pool[k] = d) \/ (\E q \in Ops : held[q] = d))'
    <3> SUFFICES ASSUME NEW d \in Conns, open'[d], d # c
                 PROVE  (\E k \in DOMAIN pool : pool[k] = d) \/ (\E q \in Ops : held'[q] = d)
      BY <1>2, <1>3
    <3>1. open[d] /\ held[p] # d
      BY <1>3
    <3> QED BY <3>1, <1>3 DEF OnePlace
  <2>2. (\A k \in DOMAIN pool : open[pool[k]] /\ \A q \in Ops : held[q] # pool[k])'
    BY <1>2, <1>3, <1>4, <1>5 DEF OnePlace
  <2>3. (\A j, k \in DOMAIN pool : pool[j] = pool[k] => j = k)'
    BY <1>2 DEF OnePlace
  <2>4. (\A q \in Ops : held[q] # none => open[held[q]])'
    <3>1. \A q \in Ops : held[q] \in Conns \cup {none}
      BY DEF TypeOK
    <3> QED BY <3>1, <1>3, <1>4 DEF OnePlace
  <2>5. (\A q, r \in Ops : held[q] # none /\ held[q] = held[r] => q = r)'
    BY <1>3, <1>4 DEF OnePlace
  <2> QED BY <2>1, <2>2, <2>3, <2>4, <2>5 DEF OnePlace
<1>9. (ClosedIsBlank /\ PooledIsClean)'
  BY <1>2, <1>3 DEF ClosedIsBlank, Blank, PooledIsClean
<1>10. RepliesAreOwn'
  <2> SUFFICES ASSUME NEW q \in Ops, held'[q] # none PROVE Own(q)'
    BY DEF RepliesAreOwn, Own
  <2>1. CASE q = p
    <3>1. need[p] \in 0..2
      BY DEF TypeOK
    <3> QED BY <2>1, <3>1, <1>2, <1>3, <1>4, BlankIsOwn DEF Own, Blank
  <2>2. CASE q # p
    <3>1. Own(q) /\ held'[q] = held[q]
      BY <2>2, <1>3 DEF RepliesAreOwn, Own
    <3> QED BY <3>1, <1>2 DEF Own
  <2> QED BY <2>1, <2>2
<1> QED BY <1>6, <1>7, <1>8, <1>9, <1>10

\* The connection's deadline, set by SetDeadline or gone by, is the holder's alone.
LEMMA LimitInv ==
  ASSUME Inv, NEW p \in Ops, Arm(p) \/ LimitPasses(p)
  PROVE  Inv'
<1> USE DEF Inv, connVars, envVars, warmVars, opVars
<1>1. /\ UNCHANGED <<pool, open, alive, sent, inbox, held, need, ctx, result, warmed,
                     attempts, up, closing, faults>>
      /\ \A q \in Ops : q # p => pc'[q] = pc[q]
      /\ pc'[p] = pc[p] \/ (pc[p] = "arm" /\ pc'[p] = "send")
      /\ pc[p] \in InUse
      /\ held[p] \in Conns
      /\ pc' \in [Ops -> {"idle", "get", "dial", "arm", "send", "await", "put", "done", "ended"}]
  <2>1. CASE Arm(p)
    BY <2>1 DEF Arm, TypeOK, Holding, InUse
  <2>2. CASE LimitPasses(p)
    BY <2>2 DEF LimitPasses, TypeOK, Holding, InUse
  <2> QED BY <2>1, <2>2
<1>2. /\ limit' \in [Conns -> {"none", "set", "passed"}]
      /\ \A c \in Conns : c # held[p] => limit'[c] = limit[c]
      /\ p \in Writers => limit' = limit
  <2>1. CASE Arm(p)
    BY <2>1, <1>1 DEF Arm, Deadline, TypeOK, Timed
  <2>2. CASE LimitPasses(p)
    BY <2>2, <1>1 DEF LimitPasses, TypeOK, Untimed
  <2> QED BY <2>1, <2>2
<1>3. \A k \in DOMAIN pool : pool[k] \in Conns /\ pool[k] # held[p]
  BY <1>1, ElementOfSeq, LenProperties DEF TypeOK, OnePlace
<1>4. open[held[p]] /\ \A q \in Ops : q # p /\ held[q] # none => held[q] # held[p]
  BY <1>1 DEF OnePlace
<1>5. TypeOK'
  BY <1>1, <1>2 DEF TypeOK
<1>6. (Holding /\ OnePlace /\ NothingEarly /\ NeedsReplies /\ RepliesAreOwn)'
  <2>1. Holding'
    BY <1>1 DEF Holding, InUse
  <2>2. (OnePlace /\ RepliesAreOwn)'
    BY <1>1 DEF OnePlace, RepliesAreOwn
  <2>3. (NothingEarly /\ NeedsReplies)'
    BY <1>1 DEF NothingEarly, NeedsReplies
  <2> QED BY <2>1, <2>2, <2>3
<1>7. (ClosedIsBlank /\ PooledIsClean)'
  BY <1>1, <1>2, <1>3, <1>4 DEF ClosedIsBlank, Blank, PooledIsClean
<1>8. Untimed'
  BY <1>1, <1>2, <1>4 DEF Untimed, Ops, TypeOK
<1> QED BY <1>5, <1>6, <1>7, <1>8

\* The commands are the holder's, and as many as it expects replies.
LEMMA SendInv ==
  ASSUME Inv, NEW p \in Ops, Send(p)
  PROVE  Inv'
<1> USE DEF Inv, envVars, warmVars
<1> DEFINE c == held[p]
           commands == << >> \o [k \in 1..need[p] |-> p]
<1>1. /\ UNCHANGED <<pool, open, alive, inbox, limit, held, need, ctx, result, warmed,
                     attempts, up, closing, faults>>
      /\ pc[p] = "send" /\ pc' = [pc EXCEPT ![p] = "await"]
  BY DEF Send
<1>2. /\ c \in Conns /\ need[p] \in Nat /\ need[p] >= 1
      /\ sent[c] = << >> /\ inbox[c] = << >> /\ sent \in [Conns -> Seq(Ops)]
  <2>1. need[p] \in 0..2 /\ need[p] >= 1
    BY <1>1 DEF TypeOK, NeedsReplies
  <2>2. c \in Conns /\ sent \in [Conns -> Seq(Ops)]
    BY <1>1 DEF TypeOK, Holding, InUse
  <2>3. sent[c] = << >> /\ inbox[c] = << >>
    BY <1>1 DEF NothingEarly
  <2> QED BY <2>1, <2>2, <2>3
<1>3. commands \in Seq(Ops) /\ Len(commands) = need[p] /\ \A k \in DOMAIN commands : commands[k] = p
  BY <1>2, Pipeline
<1>4. sent' = [sent EXCEPT ![c] = IF alive[c] THEN commands ELSE << >>]
  BY <1>2 DEF Send
<1> HIDE DEF c, commands
<1>5. /\ \A q \in Ops : q # p => pc'[q] = pc[q]
      /\ pc'[p] = "await" /\ pc[p] = "send"
  BY <1>1 DEF TypeOK
<1>6. \A d \in Conns : d # c => sent'[d] = sent[d]
  BY <1>2, <1>4
<1>7. /\ open[c] /\ \A q \in Ops : q # p /\ held[q] # none => held[q] # c /\ held[q] \in Conns
      /\ \A k \in DOMAIN pool : pool[k] # c /\ pool[k] \in Conns
  BY <1>2, ElementOfSeq, LenProperties DEF OnePlace, TypeOK, c
<1>8. TypeOK'
  BY <1>1, <1>2, <1>3, <1>4, EmptySeq DEF TypeOK
<1>9. (Holding /\ OnePlace /\ NeedsReplies /\ Untimed)'
  BY <1>1, <1>5 DEF Holding, InUse, OnePlace, NeedsReplies, Untimed
<1>10. (ClosedIsBlank /\ PooledIsClean)'
  BY <1>1, <1>6, <1>7 DEF ClosedIsBlank, Blank, PooledIsClean
<1>11. NothingEarly'
  BY <1>1, <1>5, <1>6, <1>7 DEF NothingEarly, Holding, InUse
<1>12. RepliesAreOwn'
  <2> SUFFICES ASSUME NEW q \in Ops, held'[q] # none PROVE Own(q)'
    BY DEF RepliesAreOwn, Own
  <2>1. CASE q = p
    <3>1. /\ sent'[c] = commands \/ sent'[c] = << >>
          /\ inbox'[held'[q]] = << >> /\ need'[q] = need[p] /\ held'[q] = c
      BY <2>1, <1>1, <1>2, <1>4 DEF c
    <3> QED BY <2>1, <3>1, <1>2, <1>3, BlankIsOwn DEF Own
  <2>2. CASE q # p
    <3>1. Own(q) /\ held'[q] = held[q] /\ sent'[held[q]] = sent[held[q]]
      BY <2>2, <1>1, <1>6, <1>7 DEF RepliesAreOwn, Own
    <3> QED BY <3>1, <1>1 DEF Own
  <2> QED BY <2>1, <2>2
<1> QED BY <1>8, <1>9, <1>10, <1>11, <1>12

\* The holder reads a reply of its own and waits for one less.
LEMMA ReadReplyInv ==
  ASSUME Inv, NEW p \in Ops, ReadReply(p)
  PROVE  Inv'
<1> USE DEF Inv, envVars, warmVars
<1> DEFINE c == held[p]
<1>1. /\ UNCHANGED <<pool, open, alive, sent, limit, held, ctx, result, warmed, attempts,
                     up, closing, faults>>
      /\ pc[p] = "await" /\ need' = [need EXCEPT ![p] = @ - 1]
      /\ pc' = [pc EXCEPT ![p] = IF need[p] = 1 THEN "put" ELSE "await"]
      /\ inbox[c] # << >> /\ inbox' = [inbox EXCEPT ![c] = Tail(@)]
  BY DEF ReadReply, LastReply
<1>2. /\ c \in Conns /\ c # none /\ need[p] \in 1..2 /\ inbox[c] \in Seq(Reply)
      /\ inbox \in [Conns -> Seq(Reply)] /\ sent[c] \in Seq(Ops)
  BY <1>1 DEF TypeOK, Holding, InUse, NeedsReplies
<1>3. /\ Tail(inbox[c]) \in Seq(Reply) /\ Len(Tail(inbox[c])) = Len(inbox[c]) - 1
      /\ \A k \in 1..Len(inbox[c]) - 1 : Tail(inbox[c])[k] = inbox[c][k + 1]
      /\ DOMAIN inbox[c] = 1..Len(inbox[c]) /\ DOMAIN Tail(inbox[c]) = 1..Len(inbox[c]) - 1
      /\ Len(inbox[c]) \in Nat \ {0} /\ Len(sent[c]) \in Nat
  BY <1>1, <1>2, HeadTailProperties, LenProperties, EmptySeq
<1>4. inbox'[c] = Tail(inbox[c]) /\ \A d \in Conns : d # c => inbox'[d] = inbox[d]
  BY <1>1, <1>2
<1>5. /\ \A q \in Ops : q # p => pc'[q] = pc[q] /\ need'[q] = need[q]
      /\ pc'[p] = IF need[p] = 1 THEN "put" ELSE "await"
      /\ need'[p] = need[p] - 1
  BY <1>1 DEF TypeOK
<1>6. /\ open[c] /\ \A q \in Ops : q # p /\ held[q] # none => held[q] # c /\ held[q] \in Conns
      /\ \A k \in DOMAIN pool : pool[k] # c /\ pool[k] \in Conns
  BY <1>2, ElementOfSeq, LenProperties DEF OnePlace, TypeOK
<1>7. TypeOK'
  BY <1>1, <1>2, <1>3 DEF TypeOK
<1> HIDE DEF c
<1>8. (Holding /\ OnePlace /\ Untimed)'
  BY <1>1, <1>5 DEF Holding, InUse, OnePlace, Untimed
<1>9. NeedsReplies'
  BY <1>2, <1>5 DEF NeedsReplies
<1>10. (ClosedIsBlank /\ PooledIsClean)'
  BY <1>1, <1>4, <1>6 DEF ClosedIsBlank, Blank, PooledIsClean
<1>11. NothingEarly'
  BY <1>1, <1>4, <1>5, <1>6 DEF NothingEarly, Holding, InUse
<1>12. RepliesAreOwn'
  <2> SUFFICES ASSUME NEW q \in Ops, held'[q] # none PROVE Own(q)'
    BY DEF RepliesAreOwn, Own
  <2>1. CASE q = p
    <3>1. Own(p) /\ held'[q] = c /\ held[p] = c
      BY <2>1, <1>1, <1>2 DEF RepliesAreOwn, Own, c
    <3>2. /\ sent'[held'[p]] = sent[c] /\ inbox'[held'[p]] = Tail(inbox[c])
          /\ need'[p] = need[p] - 1
      BY <2>1, <3>1, <1>1, <1>4, <1>5
    <3>3. /\ \A k \in DOMAIN sent[c] : sent[c][k] = p
          /\ \A k \in DOMAIN inbox[c] : inbox[c][k].to = p
          /\ Len(sent[c]) + Len(inbox[c]) <= need[p]
      BY <3>1 DEF Own
    <3>4. \A k \in DOMAIN Tail(inbox[c]) : Tail(inbox[c])[k].to = p
      BY <3>3, <1>3
    <3>5. Len(sent[c]) + Len(Tail(inbox[c])) <= need[p] - 1
      BY <3>3, <1>2, <1>3
    <3> QED BY ONLY <2>1, <3>2, <3>3, <3>4, <3>5 DEF Own
  <2>2. CASE q # p
    <3>1. Own(q) /\ held'[q] = held[q] /\ inbox'[held[q]] = inbox[held[q]]
      BY <2>2, <1>1, <1>4, <1>6 DEF RepliesAreOwn, Own
    <3>2. sent'[held'[q]] = sent[held[q]] /\ need'[q] = need[q]
      BY <2>2, <3>1, <1>1, <1>5
    <3> QED BY ONLY <3>1, <3>2 DEF Own
  <2> QED BY <2>1, <2>2
<1> QED BY <1>7, <1>8, <1>9, <1>10, <1>11, <1>12

\* A connection in nobody's hands is closed: nothing is left of it.
Drops(c) ==
  /\ Discard(c)
  /\ \A q \in Ops : held'[q] # none => held'[q] = held[q] /\ held[q] # c
  /\ \A k \in DOMAIN pool' : pool'[k] # c

\* Closing a connection keeps what is said of connections, once it is out of the
\* pool and of every hand (the calls of Close on a conn).
LEMMA DropsInv ==
  ASSUME Inv, NEW c \in Conns, Drops(c),
         pool' \in Seq(Conns),
         \A k \in DOMAIN pool' : \E j \in DOMAIN pool : pool'[k] = pool[j],
         \A q \in Ops : held'[q] # none => pc'[q] = pc[q] /\ need'[q] = need[q]
  PROVE  /\ (ClosedIsBlank /\ PooledIsClean /\ RepliesAreOwn)'
         /\ open' \in [Conns -> BOOLEAN] /\ alive' \in [Conns -> BOOLEAN]
         /\ sent' \in [Conns -> Seq(Ops)] /\ inbox' \in [Conns -> Seq(Reply)]
         /\ limit' \in [Conns -> {"none", "set", "passed"}]
         /\ ~open'[c] /\ \A d \in Conns : d # c => open'[d] = open[d]
         /\ \A q \in Ops : held'[q] # none =>
              /\ sent'[held'[q]] = sent[held[q]] /\ inbox'[held'[q]] = inbox[held[q]]
              /\ limit'[held'[q]] = limit[held[q]]
<1> USE DEF Inv
<1>1. /\ open'  = [open EXCEPT ![c] = FALSE] /\ alive' = [alive EXCEPT ![c] = FALSE]
      /\ sent'  = [sent EXCEPT ![c] = << >>] /\ inbox' = [inbox EXCEPT ![c] = << >>]
      /\ limit' = [limit EXCEPT ![c] = "none"]
  BY DEF Drops, Discard
<1>2. \A d \in Conns : d # c => /\ open'[d] = open[d] /\ sent'[d] = sent[d]
                               /\ inbox'[d] = inbox[d] /\ limit'[d] = limit[d]
  BY <1>1 DEF TypeOK
<1>3. /\ open' \in [Conns -> BOOLEAN] /\ alive' \in [Conns -> BOOLEAN]
      /\ limit' \in [Conns -> {"none", "set", "passed"}] /\ ~open'[c]
  BY <1>1 DEF TypeOK
<1>4. /\ sent' \in [Conns -> Seq(Ops)] /\ inbox' \in [Conns -> Seq(Reply)]
      /\ limit'[c] = "none" /\ sent'[c] = << >> /\ inbox'[c] = << >>
  BY <1>1, EmptySeq DEF TypeOK
<1>5. ClosedIsBlank'
  BY <1>2, <1>4 DEF ClosedIsBlank, Blank
<1>6. \A k \in DOMAIN pool' : pool'[k] \in Conns /\ pool'[k] # c
  BY ElementOfSeq, LenProperties DEF Drops
<1>7. PooledIsClean'
  BY <1>2, <1>6 DEF PooledIsClean
<1>8. \A q \in Ops : held'[q] # none =>
         /\ held[q] = held'[q] /\ sent'[held'[q]] = sent[held[q]]
         /\ inbox'[held'[q]] = inbox[held[q]] /\ limit'[held'[q]] = limit[held[q]]
  BY <1>2 DEF Drops, TypeOK
<1>9. RepliesAreOwn'
  <2> SUFFICES ASSUME NEW q \in Ops, held'[q] # none PROVE Own(q)'
    BY DEF RepliesAreOwn, Own
  <2>1. Own(q)
    BY <1>8 DEF RepliesAreOwn, Own
  <2> QED BY <2>1, <1>8 DEF Own
<1> QED BY <1>2, <1>3, <1>4, <1>5, <1>7, <1>8, <1>9

\* The holder of a connection that is closed lets go of it: every other connection
\* is where it was.
LEMMA AfterDrop ==
  ASSUME Inv, NEW p \in Ops, NEW c \in Conns, held[p] = c, c # none,
         UNCHANGED pool, held'[p] = none,
         \A q \in Ops : q # p => held'[q] = held[q],
         ~open'[c], \A d \in Conns : d # c => open'[d] = open[d]
  PROVE  OnePlace'
<1> USE DEF Inv
<1>1. \A q \in Ops : held[q] \in Conns \cup {none}
  BY DEF TypeOK
<1>2. \A k \in DOMAIN pool : pool[k] \in Conns /\ pool[k] # c
  BY ElementOfSeq, LenProperties DEF OnePlace, TypeOK
<1>3. (\A d \in Conns : open[d] =>
         (\E k \in DOMAIN pool : pool[k] = d) \/ (\E q \in Ops : held[q] = d))'
  <2> SUFFICES ASSUME NEW d \in Conns, open'[d], \A k \in DOMAIN pool : pool[k] # d
               PROVE  \E q \in Ops : held'[q] = d
    OBVIOUS
  <2>1. d # c /\ open[d]
    OBVIOUS
  <2>2. PICK q \in Ops : held[q] = d
    BY <2>1 DEF OnePlace
  <2> QED BY <2>1, <2>2
<1>4. (\A q \in Ops : held[q] # none => open[held[q]])'
  <2> SUFFICES ASSUME NEW q \in Ops, held'[q] # none PROVE open'[held'[q]]
    OBVIOUS
  <2>1. q # p /\ held'[q] = held[q] /\ held[q] # c /\ open[held[q]]
    BY DEF OnePlace
  <2> QED BY <2>1, <1>1
<1>5. (\A k \in DOMAIN pool : open[pool[k]] /\ \A q \in Ops : held[q] # pool[k])'
  <2> SUFFICES ASSUME NEW k \in DOMAIN pool, NEW q \in Ops
               PROVE  open'[pool[k]] /\ held'[q] # pool[k]
    OBVIOUS
  <2>1. open[pool[k]] /\ held[q] # pool[k]
    BY DEF OnePlace
  <2> QED BY <2>1, <1>2
<1>6. (\A j, k \in DOMAIN pool : pool[j] = pool[k] => j = k)'
  BY DEF OnePlace
<1>7. (\A q, r \in Ops : held[q] # none /\ held[q] = held[r] => q = r)'
  BY DEF OnePlace
<1> QED BY <1>3, <1>4, <1>5, <1>6, <1>7 DEF OnePlace

\* An operation that fails closes its connection and has none any more.
LEMMA FailedInv ==
  ASSUME Inv, NEW p \in Ops, TimesOut(p) \/ Breaks(p) \/ ReadError(p)
  PROVE  Inv'
<1> USE DEF Inv, envVars, warmVars
<1> DEFINE c == held[p]
<1>1. PICK err \in {"timeout", "conn", "refused"} : Failed(p, err) /\ (p \in Writers => err # "timeout")
  BY DEF TimesOut, Breaks, ReadError, Untimed, Holding, InUse
<1>2. /\ UNCHANGED <<pool, need, ctx, warmed, attempts, up, closing, faults>>
      /\ pc' = [pc EXCEPT ![p] = "done"] /\ held' = [held EXCEPT ![p] = none]
      /\ result' = [result EXCEPT ![p] = Outcome(p, err)]
      /\ Discard(c)
  BY <1>1 DEF Failed
<1>3. pc[p] \in InUse /\ c \in Conns /\ c # none
  BY DEF TimesOut, Breaks, ReadError, TypeOK, Holding, InUse
<1>4. /\ \A q \in Ops : q # p => pc'[q] = pc[q] /\ held'[q] = held[q] /\ result'[q] = result[q]
      /\ pc'[p] = "done" /\ held'[p] = none
      /\ result'[p] = Outcome(p, err)
  BY <1>2 DEF TypeOK
<1>5. Drops(c)
  BY <1>2, <1>3, <1>4 DEF Drops, OnePlace
<1> HIDE DEF c
<1>6. /\ (ClosedIsBlank /\ PooledIsClean /\ RepliesAreOwn)'
      /\ open' \in [Conns -> BOOLEAN] /\ alive' \in [Conns -> BOOLEAN]
      /\ sent' \in [Conns -> Seq(Ops)] /\ inbox' \in [Conns -> Seq(Reply)]
      /\ limit' \in [Conns -> {"none", "set", "passed"}]
      /\ ~open'[c] /\ \A d \in Conns : d # c => open'[d] = open[d]
      /\ \A q \in Ops : held'[q] # none =>
           /\ sent'[held'[q]] = sent[held[q]] /\ inbox'[held'[q]] = inbox[held[q]]
           /\ limit'[held'[q]] = limit[held[q]]
  <2>1. /\ pool' \in Seq(Conns)
        /\ \A k \in DOMAIN pool' : \E j \in DOMAIN pool : pool'[k] = pool[j]
        /\ \A q \in Ops : held'[q] # none => pc'[q] = pc[q] /\ need'[q] = need[q]
    BY <1>2, <1>4 DEF TypeOK
  <2> QED BY ONLY <2>1, <1>3, <1>5, Inv, DropsInv
<1>7. Outcome(p, err) \in {"timeout", "conn", "refused", "deadline"}
  BY DEF Outcome
<1>8. TypeOK'
  BY <1>2, <1>6, <1>7 DEF TypeOK
<1>9. (Holding /\ NothingEarly /\ NeedsReplies)'
  <2>1. Holding'
    BY <1>2, <1>4 DEF Holding, InUse
  <2>2. NothingEarly'
    <3> SUFFICES ASSUME NEW q \in Ops, pc'[q] \in {"arm", "send"}
                 PROVE  sent'[held'[q]] = << >> /\ inbox'[held'[q]] = << >>
      BY DEF NothingEarly
    <3>1. q # p /\ pc[q] \in {"arm", "send"}
      BY <1>4
    <3>2. sent[held[q]] = << >> /\ inbox[held[q]] = << >>
      BY <3>1 DEF NothingEarly
    <3>3. held'[q] # none
      BY <2>1 DEF Holding, InUse
    <3> QED BY <3>2, <3>3, <1>6
  <2>3. NeedsReplies'
    BY <1>2, <1>4 DEF NeedsReplies
  <2> QED BY <2>1, <2>2, <2>3
<1>10. Untimed'
  BY <1>1, <1>2, <1>4, <1>6 DEF Untimed, Outcome, Ops
<1>11. OnePlace'
  <2>1. held[p] = c /\ UNCHANGED pool
    BY <1>2 DEF c
  <2> QED BY ONLY <2>1, <1>3, <1>4, <1>6, Inv, AfterDrop
<1> QED BY <1>6, <1>8, <1>9, <1>10, <1>11

\* put hands the connection to the channel, or closes it.
LEMMA PutBackInv ==
  ASSUME Inv, NEW p \in Ops, PutBack(p)
  PROVE  Inv'
<1> USE DEF Inv, envVars, warmVars
<1> DEFINE c == held[p]
<1>1. /\ UNCHANGED <<need, ctx, warmed, attempts, up, closing, faults>>
      /\ pc[p] = "put" /\ pc' = [pc EXCEPT ![p] = "done"]
      /\ held' = [held EXCEPT ![p] = none]
      /\ result' = [result EXCEPT ![p] = "ok"]
  BY DEF PutBack
<1>2. /\ c \in Conns /\ c # none /\ open[c]
      /\ \A q \in Ops : held[q] \in Conns \cup {none}
      /\ \A k \in DOMAIN pool : pool[k] # c /\ pool[k] \in Conns
  <2>1. c \in Conns /\ c # none /\ \A q \in Ops : held[q] \in Conns \cup {none}
    BY <1>1 DEF TypeOK, Holding, InUse
  <2> QED BY <2>1, ElementOfSeq, LenProperties DEF OnePlace, TypeOK
<1>3. /\ \A q \in Ops : q # p => pc'[q] = pc[q] /\ held'[q] = held[q] /\ result'[q] = result[q]
      /\ pc'[p] = "done" /\ held'[p] = none /\ result'[p] = "ok"
      /\ \A q \in Ops : q # p /\ held[q] # none => held[q] # c
  BY <1>1, <1>2 DEF TypeOK, OnePlace
<1>4. Holding' /\ NeedsReplies'
  BY <1>1, <1>3 DEF Holding, InUse, NeedsReplies
<1>5. sent[c] = << >> /\ inbox[c] = << >>
  <2>1. sent[c] \in Seq(Ops) /\ inbox[c] \in Seq(Reply) /\ need[p] = 0
    BY <1>1, <1>2 DEF TypeOK, NeedsReplies
  <2>2. Len(sent[c]) + Len(inbox[c]) <= need[p]
    BY <1>2 DEF RepliesAreOwn
  <2>3. Len(sent[c]) \in Nat /\ Len(inbox[c]) \in Nat
    BY <2>1, LenProperties
  <2>4. need[p] \in Nat /\ need[p] = 0
    BY <2>1
  <2>5. Len(sent[c]) = 0 /\ Len(inbox[c]) = 0
    <3>1. \A a, b \in Nat : a + b <= need[p] => a = 0 /\ b = 0
      BY ONLY <2>4
    <3> QED BY ONLY <2>2, <2>3, <3>1, Zenon
  <2> QED BY <2>1, <2>5, EmptySeq
<1>6. CASE Room /\ Pooled(c)
  <2>1. /\ pool' = Append(pool, c) /\ limit' = [limit EXCEPT ![c] = "none"]
        /\ UNCHANGED <<open, alive, sent, inbox>> /\ Len(pool) < PoolSize
    BY <1>6 DEF Pooled, Room
  <2>2. /\ pool' \in Seq(Conns) /\ Len(pool') = Len(pool) + 1 /\ Len(pool) \in Nat
        /\ DOMAIN pool \subseteq DOMAIN pool'
        /\ \A k \in DOMAIN pool : pool'[k] = pool[k]
        /\ Len(pool) + 1 \in DOMAIN pool' /\ pool'[Len(pool) + 1] = c
        /\ \A k \in DOMAIN pool' : k \in DOMAIN pool \/ k = Len(pool) + 1
    BY <2>1, <1>2, SendToPool, LenProperties DEF TypeOK
  <2> HIDE DEF c
  <2>3. TypeOK'
    BY <1>1, <1>2, <2>1, <2>2 DEF TypeOK
  <2>4. /\ limit'[c] = "none"
        /\ \A d \in Conns : d # c => limit'[d] = limit[d]
    BY <1>2, <2>1 DEF TypeOK
  <2>5. (ClosedIsBlank /\ PooledIsClean)'
    BY <1>2, <1>5, <2>1, <2>2, <2>4 DEF ClosedIsBlank, Blank, PooledIsClean
  <2>6. NothingEarly' /\ Untimed'
    BY <1>1, <1>2, <1>3, <1>4, <2>1, <2>4 DEF NothingEarly, Untimed, Holding, InUse, Ops
  <2>7. RepliesAreOwn'
    <3> SUFFICES ASSUME NEW q \in Ops, held'[q] # none PROVE Own(q)'
      BY DEF RepliesAreOwn, Own
    <3>1. Own(q) /\ held'[q] = held[q]
      BY <1>3 DEF RepliesAreOwn, Own
    <3> QED BY <3>1, <1>1, <2>1 DEF Own
  <2>8. OnePlace'
    <3>1. (\A d \in Conns : open[d] =>
             (\E k \in DOMAIN pool : pool[k] = d) \/ (\E q \in Ops : held[q] = d))'
      <4> SUFFICES ASSUME NEW d \in Conns, open[d], \A k \in DOMAIN pool' : pool'[k] # d
                   PROVE  \E q \in Ops : held'[q] = d
        BY <2>1
      <4>1. d # c /\ \A k \in DOMAIN pool : pool[k] # d
        BY <2>2
      <4>2. PICK q \in Ops : held[q] = d
        BY <4>1 DEF OnePlace
      <4> QED BY <4>1, <4>2, <1>3 DEF c
    <3>2. (\A k \in DOMAIN pool : open[pool[k]] /\ \A q \in Ops : held[q] # pool[k])'
      <4> SUFFICES ASSUME NEW k \in DOMAIN pool', NEW q \in Ops
                   PROVE  open[pool'[k]] /\ held'[q] # pool'[k]
        BY <2>1
      <4>1. CASE k \in DOMAIN pool
        <5>1. open[pool[k]] /\ held[q] # pool[k] /\ pool[k] # none
          BY <4>1, <1>2 DEF OnePlace
        <5> QED BY <4>1, <5>1, <2>2, <1>3
      <4>2. CASE k = Len(pool) + 1
        BY <4>2, <1>2, <1>3, <2>2
      <4> QED BY <4>1, <4>2, <2>2
    <3>3. (\A j, k \in DOMAIN pool : pool[j] = pool[k] => j = k)'
      <4> SUFFICES ASSUME NEW j \in DOMAIN pool', NEW k \in DOMAIN pool', pool'[j] = pool'[k]
                   PROVE  j = k
        OBVIOUS
      <4> QED BY <1>2, <2>2 DEF OnePlace
    <3>4. (\A q \in Ops : held[q] # none => open[held[q]])'
      BY <1>3, <2>1 DEF OnePlace
    <3>5. (\A q, r \in Ops : held[q] # none /\ held[q] = held[r] => q = r)'
      BY <1>3 DEF OnePlace
    <3> QED BY <3>1, <3>2, <3>3, <3>4, <3>5 DEF OnePlace
  <2> QED BY <1>4, <2>3, <2>5, <2>6, <2>7, <2>8
<1>7. CASE ~Room /\ Discard(c) /\ UNCHANGED pool
  <2>1. Drops(c)
    BY <1>2, <1>3, <1>7 DEF Drops
  <2> HIDE DEF c
  <2>2. /\ (ClosedIsBlank /\ PooledIsClean /\ RepliesAreOwn)'
        /\ open' \in [Conns -> BOOLEAN] /\ alive' \in [Conns -> BOOLEAN]
        /\ sent' \in [Conns -> Seq(Ops)] /\ inbox' \in [Conns -> Seq(Reply)]
        /\ limit' \in [Conns -> {"none", "set", "passed"}]
        /\ ~open'[c] /\ \A d \in Conns : d # c => open'[d] = open[d]
        /\ \A q \in Ops : held'[q] # none =>
             /\ sent'[held'[q]] = sent[held[q]] /\ inbox'[held'[q]] = inbox[held[q]]
             /\ limit'[held'[q]] = limit[held[q]]
    <3>1. /\ pool' \in Seq(Conns)
          /\ \A k \in DOMAIN pool' : \E j \in DOMAIN pool : pool'[k] = pool[j]
          /\ \A q \in Ops : held'[q] # none => pc'[q] = pc[q] /\ need'[q] = need[q]
      BY <1>1, <1>3, <1>7 DEF TypeOK
    <3> QED BY ONLY <3>1, <1>2, <2>1, Inv, DropsInv
  <2>3. TypeOK'
    BY <1>1, <1>7, <2>2 DEF TypeOK
  <2>4. NothingEarly' /\ Untimed'
    <3>1. NothingEarly'
      <4>1. \A q \in Ops : pc'[q] \in {"arm", "send"} =>
               pc[q] = pc'[q] /\ held'[q] # none /\ held[q] # none
        BY <1>3, <1>4 DEF Holding, InUse
      <4> QED BY <4>1, <2>2 DEF NothingEarly
    <3>2. \A q \in Ops : held'[q] # none => held[q] # none /\ limit'[held'[q]] = limit[held[q]]
      BY <1>3, <2>2
    <3> QED BY <3>1, <3>2, <1>1, <1>3 DEF Untimed, Ops
  <2>5. OnePlace'
    <3>1. held[p] = c /\ UNCHANGED pool
      BY <1>7 DEF c
    <3>2. /\ held'[p] = none /\ \A q \in Ops : q # p => held'[q] = held[q]
          /\ ~open'[c] /\ \A d \in Conns : d # c => open'[d] = open[d]
      BY <1>3, <2>2
    <3> QED BY ONLY <3>1, <3>2, <1>2, Inv, AfterDrop
  <2> QED BY <1>4, <2>2, <2>3, <2>4, <2>5
<1> QED BY <1>6, <1>7 DEF PutBack

\* Redis answers the oldest command of the connection's holder.
LEMMA RedisAnswersInv ==
  ASSUME Inv, NEW c \in Conns, RedisAnswers(c)
  PROVE  Inv'
<1> USE DEF Inv, opVars, warmVars
<1> DEFINE w == sent[c]
           i == inbox[c]
<1>1. PICK ok \in BOOLEAN :
         /\ inbox' = [inbox EXCEPT ![c] = Append(i, [to |-> Head(w), ok |-> ok])]
         /\ IF ok THEN UNCHANGED faults ELSE Fault("error")
  BY DEF RedisAnswers, TypeOK
<1>2. /\ w # << >> /\ sent' = [sent EXCEPT ![c] = Tail(w)]
      /\ UNCHANGED <<pool, open, alive, limit, pc, held, need, ctx, result, warmed, attempts,
                     up, closing>>
  BY DEF RedisAnswers, TypeOK
<1>3. /\ w \in Seq(Ops) /\ i \in Seq(Reply)
      /\ sent \in [Conns -> Seq(Ops)] /\ inbox \in [Conns -> Seq(Reply)]
  BY DEF TypeOK
<1> DEFINE reply == [to |-> Head(w), ok |-> ok]
<1>4. /\ reply \in Reply /\ Tail(w) \in Seq(Ops) /\ Append(i, reply) \in Seq(Reply)
      /\ reply.to = Head(w)
  BY <1>2, <1>3, HeadTailProperties, AppendProperties DEF Reply
<1> HIDE DEF w, i, reply
<1>5. /\ Len(Tail(w)) = Len(w) - 1 /\ Len(Append(i, reply)) = Len(i) + 1
      /\ Len(w) \in Nat \ {0} /\ Len(i) \in Nat /\ Head(w) = w[1] /\ 1 \in DOMAIN w
      /\ \A k \in DOMAIN Tail(w) : k + 1 \in DOMAIN w /\ Tail(w)[k] = w[k + 1]
      /\ \A k \in DOMAIN Append(i, reply) :
           (k \in DOMAIN i /\ Append(i, reply)[k] = i[k]) \/ Append(i, reply)[k] = reply
  <2>1. Len(w) \in Nat \ {0} /\ DOMAIN w = 1..Len(w) /\ Head(w) = w[1]
    BY <1>2, <1>3, EmptySeq, LenProperties
  <2>2. Len(i) \in Nat /\ DOMAIN i = 1..Len(i)
    BY <1>3, LenProperties
  <2>3. /\ Len(Tail(w)) = Len(w) - 1 /\ DOMAIN Tail(w) = 1..Len(Tail(w))
        /\ \A k \in 1..Len(Tail(w)) : Tail(w)[k] = w[k + 1]
    BY <1>2, <1>3, <1>4, HeadTailProperties, LenProperties
  <2>4. /\ Len(Append(i, reply)) = Len(i) + 1
        /\ DOMAIN Append(i, reply) = 1..Len(Append(i, reply))
        /\ \A k \in 1..Len(i) : Append(i, reply)[k] = i[k]
        /\ Append(i, reply)[Len(i) + 1] = reply
    BY <1>3, <1>4, AppendProperties, LenProperties
  <2> QED BY ONLY <2>1, <2>2, <2>3, <2>4
<1>6. /\ sent'[c] = Tail(w) /\ inbox'[c] = Append(i, reply)
      /\ \A d \in Conns : d # c => sent'[d] = sent[d] /\ inbox'[d] = inbox[d]
  BY <1>1, <1>2, <1>3 DEF i, reply
<1>7. /\ open[c] /\ sent[c] # << >>
      /\ \A k \in DOMAIN pool : pool[k] # c /\ pool[k] \in Conns
      /\ \A q \in Ops : held[q] \in Conns \cup {none}
  <2>1. open[c] /\ sent[c] # << >>
    BY <1>2 DEF ClosedIsBlank, Blank, w
  <2>2. \A k \in DOMAIN pool : pool[k] # c /\ pool[k] \in Conns
    BY <2>1, ElementOfSeq, LenProperties DEF PooledIsClean, TypeOK
  <2> QED BY <2>1, <2>2 DEF TypeOK
<1>8. TypeOK'
  <2>1. sent' \in [Conns -> Seq(Ops)] /\ inbox' \in [Conns -> Seq(Reply)]
    BY <1>1, <1>2, <1>3, <1>4 DEF reply
  <2>2. faults' \in 0..MaxFaults
    BY <1>1 DEF Fault, TypeOK
  <2> QED BY <1>2, <2>1, <2>2 DEF TypeOK
<1>9. (Holding /\ OnePlace /\ NeedsReplies /\ Untimed)'
  BY <1>2 DEF Holding, InUse, OnePlace, NeedsReplies, Untimed
<1>10. (ClosedIsBlank /\ PooledIsClean)'
  BY <1>2, <1>6, <1>7 DEF ClosedIsBlank, Blank, PooledIsClean
<1>11. NothingEarly'
  BY <1>2, <1>6, <1>7 DEF NothingEarly, Holding, InUse
<1>12. RepliesAreOwn'
  <2> SUFFICES ASSUME NEW q \in Ops, held'[q] # none PROVE Own(q)'
    BY DEF RepliesAreOwn, Own
  <2>1. Own(q) /\ held'[q] = held[q] /\ need'[q] = need[q] /\ need[q] \in Nat
    <3>1. need[q] \in 0..2
      BY DEF TypeOK
    <3>2. held'[q] = held[q] /\ need'[q] = need[q]
      BY <1>2
    <3>3. Own(q)
      BY <3>2 DEF RepliesAreOwn, Own
    <3> QED BY <3>1, <3>2, <3>3
  <2>2. CASE held[q] = c
    <3>1. /\ \A k \in DOMAIN w : w[k] = q
          /\ \A k \in DOMAIN i : i[k].to = q
          /\ Len(w) + Len(i) <= need[q]
      BY <2>1, <2>2 DEF Own, w, i
    <3>2. \A k \in DOMAIN Tail(w) : Tail(w)[k] = q
      BY <3>1, <1>5
    <3>3. \A k \in DOMAIN Append(i, reply) : Append(i, reply)[k].to = q
      BY <3>1, <1>4, <1>5
    <3>4. Len(Tail(w)) + Len(Append(i, reply)) <= need[q]
      <4>1. Len(w) \in Nat
        BY <1>5
      <4> QED BY ONLY <4>1, <3>1, <2>1, <1>5, Counts
    <3>5. held'[q] = c /\ need'[q] = need[q]
      BY <2>1, <2>2
    <3>6. sent'[held'[q]] = Tail(w) /\ inbox'[held'[q]] = Append(i, reply)
      BY <3>5, <1>6
    <3> QED BY ONLY <3>2, <3>3, <3>4, <3>5, <3>6 DEF Own
  <2>3. CASE held[q] # c
    <3>1. sent'[held'[q]] = sent[held[q]] /\ inbox'[held'[q]] = inbox[held[q]]
      BY <2>1, <2>3, <1>2, <1>6, <1>7
    <3> QED BY ONLY <3>1, <2>1 DEF Own
  <2> QED BY <2>2, <2>3
<1> QED BY <1>8, <1>9, <1>10, <1>11, <1>12

\* What a reset or a crash of Redis takes from a connection is what it had not
\* answered; the instance notices later.
LEMMA RedisFailsInv ==
  ASSUME Inv, \/ \E c \in Conns : ConnReset(c)
              \/ RedisDies \/ RedisStarts
  PROVE  Inv'
<1> USE DEF Inv, opVars, warmVars, connVars
<1>1. UNCHANGED <<pool, open, inbox, limit, pc, held, need, ctx, result, warmed, attempts, closing>>
  BY DEF ConnReset, RedisDies, RedisStarts
<1>2. \A c \in Conns : sent'[c] = sent[c] \/ sent'[c] = << >>
  BY DEF ConnReset, RedisDies, RedisStarts, TypeOK
<1>3. sent' \in [Conns -> Seq(Ops)]
  <2>1. << >> \in Seq(Ops)
    BY EmptySeq
  <2>2. \/ sent' = sent
        \/ sent' = [c \in Conns |-> << >>]
        \/ \E c \in Conns : sent' = [sent EXCEPT ![c] = << >>]
    BY DEF ConnReset, RedisDies, RedisStarts
  <2> QED BY <2>1, <2>2 DEF TypeOK
<1>4. TypeOK'
  <2>1. CASE \E c \in Conns : ConnReset(c)
    BY <2>1, <1>1, <1>3 DEF ConnReset, Fault, TypeOK
  <2>2. CASE RedisDies
    <3>1. alive' \in [Conns -> BOOLEAN] /\ up' \in BOOLEAN /\ UNCHANGED open
      BY <2>2 DEF RedisDies
    <3>2. faults' \in 0..MaxFaults
      BY <2>2 DEF RedisDies, Fault, TypeOK
    <3> QED BY <3>1, <3>2, <1>1, <1>3 DEF TypeOK
  <2>3. CASE RedisStarts
    BY <2>3, <1>1, <1>3 DEF RedisStarts, TypeOK
  <2> QED BY <2>1, <2>2, <2>3
<1>5. (Holding /\ OnePlace /\ NeedsReplies /\ Untimed)'
  BY <1>1 DEF Holding, InUse, OnePlace, NeedsReplies, Untimed
<1>6. /\ \A k \in DOMAIN pool : pool[k] \in Conns
      /\ \A q \in Ops : held[q] \in Conns \cup {none}
  BY ElementOfSeq, LenProperties DEF TypeOK
<1>7. (ClosedIsBlank /\ PooledIsClean)'
  BY <1>1, <1>2, <1>6 DEF ClosedIsBlank, Blank, PooledIsClean
<1>8. NothingEarly'
  BY <1>1, <1>2, <1>6 DEF NothingEarly, Holding, InUse
<1>9. RepliesAreOwn'
  <2> SUFFICES ASSUME NEW q \in Ops, held'[q] # none PROVE Own(q)'
    BY DEF RepliesAreOwn, Own
  <2> DEFINE c == held[q]
  <2>1. /\ Own(q) /\ held'[q] = c /\ need'[q] = need[q] /\ inbox'[c] = inbox[c]
        /\ c \in Conns
    BY <1>1, <1>6 DEF RepliesAreOwn, Own
  <2>2. Len(sent[c]) \in Nat /\ Len(inbox[c]) \in Nat /\ need[q] \in Nat /\ Len(<< >>) = 0
    <3>1. sent[c] \in Seq(Ops) /\ inbox[c] \in Seq(Reply) /\ need[q] \in 0..2
      BY <2>1 DEF TypeOK
    <3> QED BY <3>1, LenProperties
  <2> HIDE DEF c
  <2>3. CASE sent'[c] = sent[c]
    BY <2>1, <2>3 DEF Own, c
  <2>4. CASE sent'[c] = << >>
    <3>1. /\ \A k \in DOMAIN inbox[c] : inbox[c][k].to = q
          /\ Len(sent[c]) + Len(inbox[c]) <= need[q]
      BY <2>1 DEF Own, c
    <3>2. Len(<< >>) + Len(inbox[c]) <= need[q]
      BY ONLY <3>1, <2>2, Counts
    <3> QED BY <3>1, <3>2, <2>1, <2>4, BlankIsOwn DEF Own
  <2> QED BY <2>1, <2>3, <2>4, <1>2
<1> QED BY <1>4, <1>5, <1>7, <1>8, <1>9

\* Close takes the first connection out of the channel and closes it.
LEMMA CloseInv ==
  ASSUME Inv, CloseStart \/ CloseOne \/ CloseReturns
  PROVE  Inv'
<1> USE DEF Inv, opVars, warmVars, connVars, envVars
<1>1. CASE CloseStart \/ CloseReturns
  <2>1. /\ UNCHANGED <<pool, open, alive, sent, inbox, limit, pc, held, need, ctx, result>>
        /\ TypeOK'
    <3>1. CASE CloseStart
      BY <3>1 DEF CloseStart, Fault, TypeOK
    <3>2. CASE CloseReturns
      BY <3>2 DEF CloseReturns, TypeOK
    <3> QED BY <1>1, <3>1, <3>2
  <2>2. (Holding /\ OnePlace /\ NeedsReplies /\ Untimed /\ NothingEarly)'
    <3>1. (Holding /\ OnePlace)'
      BY <2>1 DEF Holding, InUse, OnePlace
    <3>2. (NeedsReplies /\ Untimed /\ NothingEarly)'
      BY <2>1 DEF NeedsReplies, Untimed, NothingEarly
    <3> QED BY <3>1, <3>2
  <2>3. (ClosedIsBlank /\ PooledIsClean /\ RepliesAreOwn)'
    BY <2>1 DEF ClosedIsBlank, Blank, PooledIsClean, RepliesAreOwn
  <2> QED BY <2>1, <2>2, <2>3
<1>2. CASE CloseOne
  <2> DEFINE c == Head(pool)
  <2>1. /\ UNCHANGED <<pc, held, need, ctx, result, warmed, attempts, up, closing, faults>>
        /\ pool' = Tail(pool) /\ pool # << >> /\ Discard(c)
    BY <1>2 DEF CloseOne
  <2>2. /\ c \in Conns /\ c = pool[1] /\ 1 \in DOMAIN pool
        /\ pool' \in Seq(Conns) /\ Len(pool') = Len(pool) - 1
        /\ \A k \in DOMAIN pool' : k + 1 \in DOMAIN pool /\ pool'[k] = pool[k + 1]
        /\ \A k \in DOMAIN pool : k # 1 => k - 1 \in DOMAIN pool' /\ pool'[k - 1] = pool[k]
    BY <2>1, ReceiveFromPool DEF TypeOK
  <2>3. DOMAIN pool = 1..Len(pool) /\ DOMAIN pool' = 1..Len(pool') /\ Len(pool) \in Nat
    BY <2>2, LenProperties DEF TypeOK
  <2> HIDE DEF c
  <2>4. \A q \in Ops : held[q] # c
    BY <2>2 DEF OnePlace
  <2>5. \A k \in DOMAIN pool' : pool'[k] # c
    <3> SUFFICES ASSUME NEW k \in DOMAIN pool' PROVE pool'[k] # c
      OBVIOUS
    <3>1. k + 1 \in DOMAIN pool /\ k + 1 # 1 /\ pool'[k] = pool[k + 1]
      BY <2>2, <2>3
    <3> QED BY <3>1, <2>2 DEF OnePlace
  <2>6. Drops(c)
    BY <2>1, <2>4, <2>5 DEF Drops
  <2>7. /\ (ClosedIsBlank /\ PooledIsClean /\ RepliesAreOwn)'
        /\ open' \in [Conns -> BOOLEAN] /\ alive' \in [Conns -> BOOLEAN]
        /\ sent' \in [Conns -> Seq(Ops)] /\ inbox' \in [Conns -> Seq(Reply)]
        /\ limit' \in [Conns -> {"none", "set", "passed"}]
        /\ ~open'[c] /\ \A d \in Conns : d # c => open'[d] = open[d]
        /\ \A q \in Ops : held'[q] # none =>
             /\ sent'[held'[q]] = sent[held[q]] /\ inbox'[held'[q]] = inbox[held[q]]
             /\ limit'[held'[q]] = limit[held[q]]
    <3>1. /\ \A k \in DOMAIN pool' : \E j \in DOMAIN pool : pool'[k] = pool[j]
          /\ \A q \in Ops : held'[q] # none => pc'[q] = pc[q] /\ need'[q] = need[q]
      BY <2>1, <2>2
    <3> QED BY ONLY <3>1, <2>2, <2>6, Inv, DropsInv
  <2>8. TypeOK'
    BY <2>1, <2>2, <2>3, <2>7 DEF TypeOK
  <2>9. Holding' /\ NeedsReplies' /\ Untimed' /\ NothingEarly'
    <3>1. Holding' /\ NeedsReplies'
      BY <2>1 DEF Holding, NeedsReplies
    <3>2. \A q \in Ops : held[q] # none => sent'[held[q]] = sent[held[q]] /\ inbox'[held[q]] = inbox[held[q]]
                                          /\ limit'[held[q]] = limit[held[q]]
      BY <2>1, <2>7
    <3>3. NothingEarly'
      BY <3>1, <3>2, <2>1 DEF NothingEarly, Holding, InUse
    <3>4. Untimed'
      BY <3>2, <2>1 DEF Untimed, Ops
    <3> QED BY <3>1, <3>3, <3>4
  <2>10. OnePlace'
    <3>1. (\A d \in Conns : open[d] =>
             (\E k \in DOMAIN pool : pool[k] = d) \/ (\E q \in Ops : held[q] = d))'
      <4> SUFFICES ASSUME NEW d \in Conns, open'[d], \A q \in Ops : held'[q] # d
                   PROVE  \E k \in DOMAIN pool' : pool'[k] = d
        OBVIOUS
      <4>1. d # c /\ open[d]
        BY <2>7
      <4>2. PICK k \in DOMAIN pool : pool[k] = d
        BY <4>1, <2>1 DEF OnePlace
      <4> QED BY <4>1, <4>2, <2>2
    <3>2. (\A k \in DOMAIN pool : open[pool[k]] /\ \A q \in Ops : held[q] # pool[k])'
      <4>1. ASSUME NEW k \in DOMAIN pool'
            PROVE  open'[pool'[k]] /\ \A q \in Ops : held'[q] # pool'[k]
        <5>1. /\ k + 1 \in DOMAIN pool /\ pool'[k] = pool[k + 1]
              /\ pool'[k] # c /\ pool'[k] \in Conns
          BY <2>2, <2>5, ElementOfSeq, <2>3
        <5>2. open[pool[k + 1]] /\ \A q \in Ops : held[q] # pool[k + 1]
          BY <5>1 DEF OnePlace
        <5> QED BY <5>1, <5>2, <2>1, <2>7
      <4> QED BY <4>1
    <3>3. (\A j, k \in DOMAIN pool : pool[j] = pool[k] => j = k)'
      BY <2>2, <2>3 DEF OnePlace
    <3>4. (\A q \in Ops : held[q] # none => open[held[q]])'
      <4>1. \A q \in Ops : held[q] \in Conns \cup {none}
        BY DEF TypeOK
      <4> QED BY <4>1, <2>1, <2>4, <2>7 DEF OnePlace
    <3>5. (\A q, r \in Ops : held[q] # none /\ held[q] = held[r] => q = r)'
      BY <2>1 DEF OnePlace
    <3> QED BY <3>1, <3>2, <3>3, <3>4, <3>5 DEF OnePlace
  <2> QED BY <2>7, <2>8, <2>9, <2>10
<1> QED BY <1>1, <1>2

-----------------------------------------------------------------------------
\* Every step of the pool keeps the invariant.
LEMMA StepInv == Inv /\ [Next]_vars => Inv'
<1> SUFFICES ASSUME Inv, [Next]_vars PROVE Inv'
  OBVIOUS
<1>1. ASSUME NEW p \in Ops, Start(p) \/ Code(p) \/ Dial(p)
                            \/ InstantComes(p) \/ ContextExpires(p) \/ LimitPasses(p)
      PROVE  Inv'
  <2>1. CASE Control(p)
    BY <2>1, ControlInv
  <2>2. CASE GetPooled(p) \/ DialOk(p) \/ Arm(p) \/ LimitPasses(p) \/ Send(p) \/ ReadReply(p)
    BY <2>2, GetPooledInv, DialOkInv, LimitInv, SendInv, ReadReplyInv
  <2>3. CASE TimesOut(p) \/ Breaks(p) \/ ReadError(p) \/ PutBack(p)
    BY <2>3, FailedInv, PutBackInv
  <2> QED BY <1>1, <2>1, <2>2, <2>3 DEF Control, Code, Dial
<1>2. CASE \E c \in Conns : RedisAnswers(c) \/ ConnReset(c)
  BY <1>2, RedisAnswersInv, RedisFailsInv
<1>3. CASE RedisDies \/ RedisStarts \/ CloseStart \/ CloseOne \/ CloseReturns
  BY <1>3, RedisFailsInv, CloseInv
<1>4. CASE UNCHANGED vars
  <2> USE <1>4 DEF Inv, vars, connVars, opVars, warmVars, envVars
  <2>1. TypeOK'
    BY DEF TypeOK
  <2>2. (Holding /\ OnePlace /\ NeedsReplies /\ Untimed /\ NothingEarly)'
    BY DEF Holding, OnePlace, NeedsReplies, Untimed, NothingEarly
  <2>3. (ClosedIsBlank /\ PooledIsClean /\ RepliesAreOwn)'
    BY DEF ClosedIsBlank, Blank, PooledIsClean, RepliesAreOwn
  <2> QED BY <2>1, <2>2, <2>3
<1> QED BY <1>1, <1>2, <1>3, <1>4 DEF Next

\* The invariant holds in every behaviour of the pool.
LEMMA Invariance == Spec => []Inv
<1>1. Init => Inv
  BY InitInv
<1>2. Inv /\ [Next]_vars => Inv'
  BY StepInv
<1> QED BY <1>1, <1>2, PTL DEF Spec

\* The pool, its connections and its operations keep their types, the channel never
\* holds more than its capacity, and warmPool counts within its bounds (redisStore, put).
THEOREM TypeCorrect == Spec => []TypeOK
<1>1. Inv => TypeOK
  BY DEF Inv
<1> QED BY <1>1, Invariance, PTL

\* A connection comes out of the pool with nothing of an earlier operation on it, no
\* deadline, no command and no reply (put, the SetDeadline before it, Close on error).
THEOREM PoolIsClean == Spec => []PooledIsClean
<1>1. Inv => PooledIsClean
  BY DEF Inv
<1> QED BY <1>1, Invariance, PTL

\* No operation reads the reply to another's command, whatever timed out or broke
\* before it on the pool (do, readPoints, roundtrip).
THEOREM NoReplyIsMixedUp == Spec => []RepliesAreOwn
<1>1. Inv => RepliesAreOwn
  BY DEF Inv
<1> QED BY <1>1, Invariance, PTL

\* Counting where a connection is: one if it is open, none if it is not.
LEMMA PlacesCounted ==
  ASSUME Inv
  PROVE  ConnsAccounted
<1> SUFFICES ASSUME NEW c \in Conns
             PROVE  Cardinality({k \in DOMAIN pool : pool[k] = c})
                      + Cardinality({p \in Ops : held[p] = c}) = IF open[c] THEN 1 ELSE 0
  BY DEF ConnsAccounted
<1> DEFINE places == {k \in DOMAIN pool : pool[k] = c}
           holders == {p \in Ops : held[p] = c}
<1>1. c # none
  OBVIOUS
<1>2. places = {} \/ \E k : places = {k}
  BY DEF Inv, OnePlace
<1>3. holders = {} \/ \E p : holders = {p}
  <2> SUFFICES ASSUME NEW p \in holders PROVE holders = {p}
    OBVIOUS
  <2>1. \A q \in holders : q = p
    BY <1>1 DEF Inv, OnePlace
  <2> QED BY <2>1
<1>4. places = {} \/ holders = {}
  BY DEF Inv, OnePlace
<1>5. open[c] <=> ~(places = {} /\ holders = {})
  BY <1>1 DEF Inv, OnePlace
<1> HIDE DEF places, holders
<1>6. /\ Cardinality(places) = IF places = {} THEN 0 ELSE 1
      /\ Cardinality(holders) = IF holders = {} THEN 0 ELSE 1
  BY <1>2, <1>3, FS_EmptySet, FS_Singleton
<1>7. Cardinality(places) + Cardinality(holders) = IF open[c] THEN 1 ELSE 0
  BY ONLY <1>4, <1>5, <1>6
<1> QED BY <1>7 DEF places, holders

\* Every open connection is in exactly one place: none leaks when an operation fails
\* or the pool is full, none is shared or pooled twice (get, put, do, Warm, Close).
THEOREM NoLeakNoSharing == Spec => []ConnsAccounted
<1>1. Inv => ConnsAccounted
  BY PlacesCounted
<1> QED BY <1>1, Invariance, PTL

\* A write never fails with a timeout: its context has no deadline, and the deadline of
\* a read that used its connection before is gone (Append, do's SetDeadline).
THEOREM WritesNeverTimeOut ==
  Spec => [](\A p \in Writers : result[p] \notin {"deadline", "timeout"})
<1>1. Inv => \A p \in Writers : result[p] \notin {"deadline", "timeout"}
  BY DEF Inv, Untimed
<1> QED BY <1>1, Invariance, PTL

=============================================================================
