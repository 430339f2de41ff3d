---------------------------- MODULE AuditEmitter ----------------------------
(***************************************************************************)
(* AuditEmitter (security/audit): evidence of one task is numbered and      *)
(* delivered one event at a time, in the order it was emitted; a failed     *)
(* delivery is buffered while there is room, and refused or let go          *)
(* otherwise.  The contents of events are left out.                         *)
(*                                                                         *)
(* A caller awaits its emission, so it has one at a time.  The FIFO lock of *)
(* a task and the count of those who hold or await it are one queue; its    *)
(* head delivers.                                                           *)
(***************************************************************************)
EXTENDS Naturals, Sequences

SeqExt == INSTANCE SequencesExt

CONSTANTS Callers, Tasks,
          MaxBuffered,   \* max_buffered_events
          MaxFailures    \* bound: deliveries that fail in a behaviour

ASSUME EmitterAssumption == MaxBuffered \in Nat /\ MaxFailures \in Nat

VARIABLES
  delivery,   \* per task: whether _tasks holds its last delivery state, and
              \* all the delivery states it ever had
  buffered,   \* events in _buffer
  failures    \* failed deliveries so far

emitter == <<delivery, buffered, failures>>

DeliveryState == [sequence : Nat, terminal : BOOLEAN, queue : Seq(Callers)]
Fresh == [sequence |-> 0, terminal |-> FALSE, queue |-> <<>>]

EmitterTypeOK ==
  /\ delivery \in [Tasks -> [held : BOOLEAN, states : Seq(DeliveryState)]]
  /\ buffered \in 0 .. MaxBuffered
  /\ failures \in 0 .. MaxFailures

EmitterInit ==
  /\ delivery = [t \in Tasks |-> [held |-> FALSE, states |-> <<>>]]
  /\ buffered = 0 /\ failures = 0

-----------------------------------------------------------------------------
Queued(s, c) == \E i \in DOMAIN s.queue : s.queue[i] = c
Delivers(s, c) == s.queue # <<>> /\ Head(s.queue) = c
Delivering(c, t) == \E i \in DOMAIN delivery[t].states : Delivers(delivery[t].states[i], c)

\* emit: find or create the state of the task, and wait for its lock.
Joined(d, c) ==
  LET states == IF d.held THEN d.states ELSE Append(d.states, Fresh)
      s == states[Len(states)]
  IN [held |-> TRUE,
      states |-> [states EXCEPT ![Len(states)] =
        [sequence |-> IF s.queue = <<>> THEN s.sequence + 1 ELSE s.sequence,
         terminal |-> s.terminal,
         queue |-> Append(s.queue, c)]]]

\* The caller leaves the lock or the queue; whoever is next gets a number.
Without(s, c, ends) ==
  LET place == CHOOSE i \in DOMAIN s.queue : s.queue[i] = c
      others == SeqExt!RemoveAt(s.queue, place) IN
  [sequence |-> IF Delivers(s, c) /\ others # <<>> THEN s.sequence + 1 ELSE s.sequence,
   terminal |-> s.terminal \/ ends,
   queue |-> others]

\* "evicted after terminal events", by the last one who used it.
Evicts(s) == s.terminal /\ s.queue = <<>>

Left(d, c, ends) ==
  LET n == Len(d.states)
      states == [i \in 1 .. n |-> IF Queued(d.states[i], c) THEN Without(d.states[i], c, ends)
                                  ELSE d.states[i]]
  IN [held |-> d.held /\ ~(Queued(d.states[n], c) /\ Evicts(states[n])), states |-> states]

\* _deliver: the sink accepts, fails for now or times out, or refuses.
Outcomes == {"accepted", "retryable", "refused"}
Kept(outcome) == outcome = "accepted" \/ (outcome = "retryable" /\ buffered < MaxBuffered)
\* Mutant: required evidence fails open as well.
FailsOpen(outcome, required) == TRUE
\* Whether emit returns instead of raising AuditDeliveryError.
Passes(outcome, required) == Kept(outcome) \/ ~required

Tried(outcome) ==
  /\ outcome # "accepted" => failures < MaxFailures
  /\ failures' = failures + (IF outcome = "accepted" THEN 0 ELSE 1)
  /\ buffered' = buffered + (IF outcome = "retryable" /\ Kept(outcome) THEN 1 ELSE 0)

\* flush takes the buffer and tries each event once more.
Flush ==
  /\ buffered > 0
  /\ buffered' = 0
  /\ UNCHANGED <<delivery, failures>>

-----------------------------------------------------------------------------
\* Evidence of a task is delivered one event at a time, and its numbers start
\* again only after a terminal event ended a task nobody was emitting for
\* (emit, its finally block and the lock in between).
EvidenceInOrder ==
  \A t \in Tasks : \A i \in DOMAIN delivery[t].states :
    i < Len(delivery[t].states) =>
      delivery[t].states[i].terminal /\ delivery[t].states[i].queue = <<>>

\* "sequence guarantees causal ordering for a task": no two events of a task
\* have the same number.  Each delivery state of a task numbers from one.
SequenceOrdersTask == \A t \in Tasks : Len(delivery[t].states) <= 1
============================================================================
