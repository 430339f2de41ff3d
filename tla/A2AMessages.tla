---------------------------- MODULE A2AMessages ----------------------------
(***************************************************************************)
(* A2ARuntimeHandler (a2a/runtime.py): every delivery of an A2A message is    *)
(* authenticated, tied to one shared execution by its request and message    *)
(* ids, and dispatched through a binding that is revalidated first.          *)
(*                                                                         *)
(* _replay_lock is never held over an await, so a step goes from one await   *)
(* to the next.  The host gives a task one message at a time (A2AHost); the  *)
(* client or the network may deliver a message again at any time, and a      *)
(* waiter may be cancelled while the execution goes on behind its shield.    *)
(***************************************************************************)
EXTENDS Integers, FiniteSets

CONSTANTS
  Deliveries,     \* calls of handle_message
  Messages,       \* [principal, rid, mid, task, arguments, decision, valid]
  NoMessage, NoDelivery,
  MaxGeneration   \* bound: registrations of the agent

Wire == [principal : {m.principal : m \in Messages}, rid : {m.rid : m \in Messages},
         mid : {m.mid : m \in Messages}, task : {m.task : m \in Messages},
         arguments : {m.arguments : m \in Messages}, decision : {m.decision : m \in Messages},
         valid : BOOLEAN]
ASSUME MessagesAssumption ==
  /\ Messages \subseteq Wire /\ NoMessage \notin Messages /\ NoDelivery \notin Deliveries
  /\ MaxGeneration \in Nat \ {0}

VARIABLES
  received,        \* [stage, message, execution, answer] of each delivery
  execution,       \* [stage, cancelled, result], by the delivery that created it
  replays,         \* _replays: the execution of each key
  cancellations,   \* _cancellations: the execution a task's cancel() reaches
  cancelledTasks,  \* _cancelled_tasks
  approvalBindings,\* _approval_bindings: what each challenge was issued for
  binding,         \* the advertised binding of the skill
  agent,           \* registry: generation and availability of the agent
  reached          \* history: whether every cancel of an execution reached it

handlerState == <<replays, cancellations, cancelledTasks, approvalBindings, binding>>
messageVars == <<received, execution, handlerState, agent, reached>>

MessageTasks == {m.task : m \in Messages}
Keys == {<<m.principal, "request", m.rid>> : m \in Messages}
        \cup {<<m.principal, "message", m.mid>> : m \in Messages}
ReplayKeys(m) == {<<m.principal, "request", m.rid>>, <<m.principal, "message", m.mid>>}
Message(d) == received[d].message
\* Two messages have one fingerprint when everything in them agrees; the ids
\* themselves are not part of it.
Fingerprint(m) == [task |-> m.task, arguments |-> m.arguments]

NoExecution == [stage |-> "none", cancelled |-> FALSE, result |-> "none", generation |-> 0]
MessagesInit ==
  /\ received = [d \in Deliveries |-> [stage |-> "idle", message |-> NoMessage,
                                       execution |-> NoDelivery, answer |-> "none"]]
  /\ execution = [d \in Deliveries |-> NoExecution]
  /\ replays = [k \in Keys |-> NoDelivery]
  /\ cancellations = [t \in MessageTasks |-> NoDelivery] /\ cancelledTasks = {}
  /\ approvalBindings = [m \in Messages |-> NoMessage]
  /\ agent = [generation |-> 1, available |-> TRUE]
  /\ binding = [generation |-> 1, expired |-> FALSE]
  /\ reached = TRUE

Answers(d, answer) == received' = [received EXCEPT ![d].stage = "answered", ![d].answer = answer]

-----------------------------------------------------------------------------
(* handle_message.                                                          *)

Resolved(d) == received[d].stage \in {"idle", "answered", "abandoned"}
\* The host's part: no other message of the task is being handled.
TaskIsFree(m) ==
  \A e \in Deliveries : Message(e) # NoMessage /\ Message(e) # m /\ Message(e).task = m.task =>
    Resolved(e) /\ execution[e].stage \in {"none", "done"}

Deliver(d, m) ==
  /\ received[d].stage = "idle" /\ TaskIsFree(m)
  /\ received' = [received EXCEPT ![d] =
       [stage |-> IF m.valid THEN "authenticating" ELSE "answered", message |-> m,
        execution |-> NoDelivery, answer |-> IF m.valid THEN "none" ELSE "invalid"]]
  /\ UNCHANGED <<execution, handlerState, agent, reached>>

\* The resolver refuses, or speaks of another task: a cancel that was waiting
\* for the execution is discarded.
AuthenticationFails(d) ==
  /\ received[d].stage = "authenticating"
  /\ Answers(d, "unauthorized")
  /\ cancelledTasks' = cancelledTasks \ {Message(d).task}
  /\ UNCHANGED <<execution, replays, cancellations, approvalBindings, binding, agent, reached>>

Records(m) == {replays[k] : k \in ReplayKeys(m)}
Existing(m) == Records(m) \ {NoDelivery}
IsReplay(m) ==
  \E e \in Existing(m) : Fingerprint(Message(e)) # Fingerprint(m) \/ Cardinality(Existing(m)) > 1

\* Mutants: only the first key is recorded; cancel() does not know the execution.
FirstKey(m) == {<<m.principal, "request", m.rid>>}
LateRegistration(d) == cancellations
Registered(d) == [cancellations EXCEPT ![Message(d).task] = d]
RecordedKeys(m) == ReplayKeys(m)

\* _invoke_once under its lock, for an authenticated delivery.
Join(d) ==
  LET m == Message(d)  x == CHOOSE e \in Existing(m) : TRUE IN
  /\ received[d].stage = "authenticating" /\ Existing(m) # {}
  /\ IF IsReplay(m) THEN Answers(d, "replay")
     ELSE IF execution[x].stage = "done" THEN Answers(d, execution[x].result)
     ELSE received' = [received EXCEPT ![d].stage = "waiting", ![d].execution = x]
  /\ UNCHANGED <<execution, handlerState, agent, reached>>

Create(d) ==
  LET m == Message(d) IN
  /\ received[d].stage = "authenticating" /\ Existing(m) = {}
  /\ execution' = [execution EXCEPT ![d].stage = "created", ![d].cancelled = m.task \in cancelledTasks]
  /\ cancellations' = Registered(d)
  /\ replays' = [k \in Keys |-> IF k \in RecordedKeys(m) THEN d ELSE replays[k]]
  /\ received' = [received EXCEPT ![d].stage = "waiting", ![d].execution = d]
  /\ UNCHANGED <<cancelledTasks, approvalBindings, binding, agent, reached>>

\* cancel(): the flag of the execution, or a note for the next one.  x is the
\* execution that is under way for the task, if any.
CancelExecution(t) ==
  LET x == cancellations[t] IN
  /\ execution' = IF x = NoDelivery THEN execution ELSE [execution EXCEPT ![x].cancelled = TRUE]
  /\ cancelledTasks' = IF x = NoDelivery THEN cancelledTasks \cup {t} ELSE cancelledTasks
  /\ reached' = (reached /\ \A e \in Deliveries :
       Message(e) # NoMessage /\ Message(e).task = t /\ execution[e].stage \in {"created", "running"}
         => execution'[e].cancelled)

\* The finally block of a waiter: the last of them finds the execution done.
Releases(d) ==
  LET t == Message(d).task IN
  /\ cancellations' = [cancellations EXCEPT ![t] = NoDelivery]
  /\ cancelledTasks' = cancelledTasks \ {t}

Wake(d) ==
  LET x == received[d].execution IN
  /\ received[d].stage = "waiting" /\ execution[x].stage = "done"
  /\ Answers(d, execution[x].result)
  /\ Releases(d)
  /\ UNCHANGED <<execution, replays, approvalBindings, binding, agent, reached>>

\* The waiter is cancelled: so is the execution it shares, but not the wait of others.
Abandon(d) ==
  LET x == received[d].execution  t == Message(d).task IN
  /\ received[d].stage = "waiting"
  /\ IF execution[x].stage = "done" THEN Releases(d) /\ UNCHANGED <<execution, reached>>
     ELSE CancelExecution(t) /\ UNCHANGED cancellations
  /\ received' = [received EXCEPT ![d].stage = "abandoned"]
  /\ UNCHANGED <<replays, approvalBindings, binding, agent>>

HostCancels(t) ==
  /\ CancelExecution(t)
  /\ UNCHANGED <<received, replays, cancellations, approvalBindings, binding, agent>>

-----------------------------------------------------------------------------
(* _execute.                                                                *)

Finishes(x, result) == execution' = [execution EXCEPT ![x].stage = "done", ![x].result = result]

\* accept_binding: the registration the binding was issued for, in service.
Unchanged(b) == b.generation = agent.generation
Accepts(b) == Unchanged(b) /\ agent.available

\* _refresh_binding: only when the target is unchanged.
Renewed == IF binding.expired /\ Accepts(binding) THEN [binding EXCEPT !.expired = FALSE] ELSE binding

Issued(a) == [arguments |-> a.arguments, principal |-> a.principal]
\* Mutant: any challenge of the handler will do.
AnyChallenge(m) == m.decision = "none" \/ \E a \in Messages : approvalBindings[a] # NoMessage
\* What an approved resume must match: the arguments and principal challenged.
ApprovalMatches(m) ==
  m.decision = "none" \/ \E a \in Messages :
    a.mid = m.decision /\ approvalBindings[a] # NoMessage /\ Issued(approvalBindings[a]) = Issued(m)

Refusal(x, b) ==
  CASE b.expired -> "expired_binding"
    [] ~b.expired /\ ~Unchanged(b) -> "stale_binding"
    [] ~b.expired /\ Unchanged(b) /\ ~agent.available -> "unavailable"
    [] ~b.expired /\ Accepts(b) /\ execution[x].cancelled -> "cancelled"
    [] ~b.expired /\ Accepts(b) /\ ~execution[x].cancelled ->
         IF ApprovalMatches(Message(x)) THEN "none" ELSE "approval_mismatch"

\* Up to the awaited Runtime.invoke or resume_approval; the requested deadline
\* may be over, or the capability not in the attenuated set.
Begin(x) ==
  LET reason == Refusal(x, Renewed) IN
  /\ execution[x].stage = "created"
  /\ binding' = Renewed
  /\ \/ /\ reason = "none"
        /\ execution' = [execution EXCEPT ![x].stage = "running", ![x].generation = agent.generation]
     \/ reason # "none" /\ Finishes(x, reason)
     \/ reason = "none" /\ Finishes(x, "refused")
  /\ UNCHANGED <<received, replays, cancellations, cancelledTasks, approvalBindings, agent, reached>>

\* The runtime answers; a challenge is bound to what it was issued for.
RuntimeAnswers(x) ==
  LET m == Message(x) IN
  /\ execution[x].stage = "running"
  /\ \/ Finishes(x, "success") /\ UNCHANGED approvalBindings
     \/ execution[x].cancelled /\ Finishes(x, "cancelled") /\ UNCHANGED approvalBindings
     \/ /\ m.decision = "none" /\ Finishes(x, "approval_required")
        /\ approvalBindings' = [approvalBindings EXCEPT ![m] = m]
  /\ UNCHANGED <<received, replays, cancellations, cancelledTasks, binding, agent, reached>>

-----------------------------------------------------------------------------
\* Trusted code replaces, disables or restores the agent; the binding's time is up.
Registry ==
  /\ \/ /\ agent.generation < MaxGeneration
        /\ agent' = [generation |-> agent.generation + 1, available |-> TRUE] /\ UNCHANGED binding
     \/ agent' = [agent EXCEPT !.available = ~@] /\ UNCHANGED binding
     \/ ~binding.expired /\ binding' = [binding EXCEPT !.expired = TRUE] /\ UNCHANGED agent
  /\ UNCHANGED <<received, execution, replays, cancellations, cancelledTasks, approvalBindings, reached>>

MessagesNext ==
  \/ \E d \in Deliveries : \/ AuthenticationFails(d) \/ Join(d) \/ Create(d) \/ Wake(d)
                           \/ Abandon(d) \/ Begin(d) \/ RuntimeAnswers(d)
                           \/ (\E m \in Messages : Deliver(d, m))
  \/ \E t \in MessageTasks : HostCancels(t)
  \/ Registry

MessagesSpec == MessagesInit /\ [][MessagesNext]_messageVars

-----------------------------------------------------------------------------
(* Properties.                                                              *)

Started == {d \in Deliveries : execution[d].stage # "none"}

\* However often, and under whichever of its two ids, a message is delivered
\* again - while it runs, after it was abandoned, after it completed - it is
\* executed once.
ExecutedOnce ==
  \A d, e \in Started : ReplayKeys(Message(d)) \cap ReplayKeys(Message(e)) # {} => d = e

\* A delivery is answered with the outcome of its message's one execution; a
\* plain retry is never taken for a replay.
RetriesShareTheAnswer ==
  \A d \in Deliveries :
    LET m == Message(d)  answer == received[d].answer
        same == {x \in Started : ReplayKeys(Message(x)) \cap ReplayKeys(m) # {}}
    IN received[d].stage = "answered" /\ answer \notin {"invalid", "unauthorized"} =>
         IF answer = "replay"
         THEN \/ Cardinality(same) > 1
              \/ \E x \in same : \/ Message(x).arguments # m.arguments
                                \/ Message(x).task # m.task
         ELSE \E x \in same : execution[x].result = answer

\* Delivering a message again neither runs it again nor changes its answer.
OneExecutionOneAnswer == ExecutedOnce /\ RetriesShareTheAnswer

\* A cancel that comes while an execution of the task is under way reaches it.
CancelsReachTheirTask == reached

\* No execution runs an agent registered after the skill was advertised.
ReplacedAgentsDoNotRun == \A x \in Started : execution[x].generation \in {0, 1}

\* An approved resume runs only what its challenge was issued for, once it was issued.
ResumesRunWhatWasApproved ==
  \A x \in Started : execution[x].generation > 0 /\ Message(x).decision # "none" =>
    \E y \in Started : /\ execution[y].result = "approval_required"
                       /\ Message(y).mid = Message(x).decision /\ Issued(Message(y)) = Issued(Message(x))

\* What runs is what was advertised and, after a challenge, what was approved.
OnlyWhatWasApprovedRuns == ReplacedAgentsDoNotRun /\ ResumesRunWhatWasApproved
=============================================================================
