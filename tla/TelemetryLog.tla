---------------------------- MODULE TelemetryLog ----------------------------
(***************************************************************************)
(* What the write path promises its clients: every device has a log of     *)
(* points, capped to the newest Cap.  A call that appends a batch takes    *)
(* effect at most once and in one step, adding one entry per point; it is  *)
(* acknowledged only after it has; a call that is not acknowledged may     *)
(* have taken effect and may still do so for as long as it is open.  The   *)
(* log is otherwise changed only by pruning, which keeps the newest Cap    *)
(* entries, and when something fails, by the loss of the whole log of a    *)
(* device: no step of a call or of pruning can be taken for such a loss.   *)
(***************************************************************************)
EXTENDS Naturals, FiniteSets

CONSTANTS
  Devices,         \* keys of the logs
  Calls,           \* slots of calls
  Cap,             \* entries of a device that pruning must keep
  Newest(_, _)     \* Newest(S, k): the k newest entries of S

VARIABLES
  log,     \* log[d]: the entries of d
  phase,   \* phase[c]: "idle", "open", "acked" or "failed"
  target,  \* target[c]: the device the call appends to
  size,    \* size[c]: the number of points of its batch
  applied, \* applied[c]: the call has taken effect
  failures \* failures of Redis or the network so far

vars == <<log, phase, target, size, applied, failures>>

Init ==
  /\ log = [d \in Devices |-> {}]
  /\ phase = [c \in Calls |-> "idle"]
  /\ target = [c \in Calls |-> "none"]
  /\ size = [c \in Calls |-> 0]
  /\ applied = [c \in Calls |-> FALSE]
  /\ failures = 0

Begin(c) ==
  /\ phase[c] = "idle"
  /\ phase' = [phase EXCEPT ![c] = "open"]
  /\ \E d \in Devices : target' = [target EXCEPT ![c] = d]
  /\ size'[c] \in Nat \ {0} /\ size' = [size EXCEPT ![c] = size'[c]]
  /\ UNCHANGED <<log, applied, failures>>

\* The batch enters the log: as many new entries as it has points.
Apply(c) ==
  /\ phase[c] \in {"open", "failed"}
  /\ ~applied[c]
  /\ applied' = [applied EXCEPT ![c] = TRUE]
  /\ LET new == log'[target[c]] \ log[target[c]]
     IN /\ Cardinality(new) = size[c]
        /\ log' = [log EXCEPT ![target[c]] = @ \cup new]
  /\ UNCHANGED <<phase, target, size, failures>>

Ack(c) ==
  /\ phase[c] = "open" /\ applied[c]
  /\ phase' = [phase EXCEPT ![c] = "acked"]
  /\ UNCHANGED <<log, target, size, applied, failures>>

\* The call learns of a failure, or this is one.
Fail(c) ==
  /\ phase[c] = "open"
  /\ phase' = [phase EXCEPT ![c] = "failed"]
  /\ failures' \in {failures, failures + 1}
  /\ UNCHANGED <<log, target, size, applied>>

End(c) ==
  /\ phase[c] \in {"acked", "failed"}
  /\ phase' = [phase EXCEPT ![c] = "idle"]
  /\ target' = [target EXCEPT ![c] = "none"]
  /\ size' = [size EXCEPT ![c] = 0]
  /\ applied' = [applied EXCEPT ![c] = FALSE]
  /\ UNCHANGED <<log, failures>>

Prune(d) ==
  /\ Newest(log[d], Cap) \subseteq log'[d]
  /\ log'[d] \subseteq log[d]
  /\ log' = [log EXCEPT ![d] = log'[d]]
  /\ UNCHANGED <<phase, target, size, applied, failures>>

\* Something fails, and as Redis dies or evicts some devices lose their log.
Lose ==
  /\ failures' = failures + 1
  /\ \A d \in Devices : log'[d] \in {log[d], {}}
  /\ log' = [d \in Devices |-> log'[d]]
  /\ UNCHANGED <<phase, target, size, applied>>

Next ==
  \/ \E c \in Calls : Begin(c) \/ Apply(c) \/ Ack(c) \/ Fail(c) \/ End(c)
  \/ \E d \in Devices : Prune(d)
  \/ Lose

Spec == Init /\ [][Next]_vars
=============================================================================
