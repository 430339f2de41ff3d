----------------------------- MODULE Invocation -----------------------------
(***************************************************************************)
(* Runtime.invoke: one capability execution from the run context to the     *)
(* typed result (core/invocation, core/runtime, core/run_context,           *)
(* core/runtime_context, core/model_gateway, core/gateway/_local).          *)
(*                                                                         *)
(* The invocation is a coroutine of its caller; the execution is a task of  *)
(* its own, shielded from the caller; a synchronous capability runs in a    *)
(* worker thread behind a lock per capability, which no cancellation        *)
(* reaches.  Deadlines, cooperative cancellation and cancelled callers race *)
(* with the end of the work.  A step ends where the code can suspend.       *)
(* Arguments, results, security decisions and audit are abstracted to where *)
(* they make the invocation wait or end.                                    *)
(***************************************************************************)
EXTENDS Naturals, FiniteSets

CONSTANTS Calls,       \* the invocations there may be
          MaxCalls,    \* bound: how many of them a behaviour begins
          Sync,        \* those of synchronous capabilities
          Capability,  \* the capability each invocation names
          Run,         \* the run, with one CancellationState, of each invocation
          Parent,      \* the invocation whose capability delegates to it
          NoCall,
          Limited,     \* the invocations with a deadline, their own or inherited
          Workers      \* worker threads of asyncio.to_thread

ASSUME InvocationAssumption ==
  /\ NoCall \notin Calls /\ Parent \in [Calls -> Calls \cup {NoCall}]
  /\ IsFiniteSet(Calls) /\ Sync \subseteq Calls /\ Limited \subseteq Calls
  /\ Workers \in Nat \ {0} /\ MaxCalls \in Nat
  /\ \A c \in Calls : Parent[c] # NoCall =>
       /\ Run[c] = Run[Parent[c]] /\ Parent[c] \notin Sync
       /\ Parent[c] \in Limited => c \in Limited

VARIABLES
  phase,      \* where the coroutine of each invocation is
  result,     \* what it answers
  task,       \* the execution task
  active,     \* invocations whose run context is active
  due,        \* invocations whose deadline passed
  asked,      \* runs whose CancellationState is set
  observed,   \* executions cancelled by their state (cancelled_by_state)
  model,      \* the model call of an invocation
  thread,     \* the worker thread of a synchronous execution
  dismissed   \* history: invocations whose caller was cancelled

vars == <<phase, result, task, active, due, asked, observed, model, thread, dismissed>>

Runs == {Run[c] : c \in Calls}
Results == {"success", "failure", "rejected", "timeout", "cancelled", "raised"}
Ended == {"returned", "failed", "cancelled", "cooperative"}
Alive(c) == task[c] \in {"running", "cancelling"}
Answered(c) == phase[c] = "answered"

TypeOK ==
  /\ phase \in [Calls -> {"idle", "checking", "launched", "waiting", "overdue", "dismissed",
                          "finishing", "answered"}]
  /\ result \in [Calls -> Results \cup {"none"}]
  /\ task \in [Calls -> {"none", "running", "cancelling"} \cup Ended]
  /\ {active, due, observed, dismissed} \subseteq SUBSET Calls
  /\ asked \subseteq Runs
  /\ model \in [Calls -> {"none", "own", "background", "stopping"}]
  /\ thread \in [Calls -> {"none", "queued", "blocked", "holding"}]
  /\ \A c \in Calls \ Sync : thread[c] = "none"

Init ==
  /\ phase = [c \in Calls |-> "idle"]
  /\ result = [c \in Calls |-> "none"]
  /\ task = [c \in Calls |-> "none"]
  /\ active = {} /\ due = {} /\ asked = {} /\ observed = {} /\ dismissed = {}
  /\ model = [c \in Calls |-> "none"]
  /\ thread = [c \in Calls |-> "none"]

-----------------------------------------------------------------------------
(* The run context.                                                         *)

\* Task.cancel
Stopped(state) == IF state = "running" THEN "cancelling" ELSE state

\* _InvocationState.deactivate: the context goes dead and cancels the task
\* that makes a model call, which may be the execution itself.
\* Mutant: the context goes dead without it.
Forgotten(c) == model
ModelAfterDeactivate(c) ==
  [model EXCEPT ![c] = IF c \in active /\ @ # "none" THEN "stopping" ELSE @]
CancelsExecution(c) == c \in active /\ model[c] = "own"
Deactivate(c) == active' = active \ {c} /\ model' = ModelAfterDeactivate(c)

\* The invocation returns or raises: use_run_context leaves the context.
Answer(c, outcome, state) ==
  /\ phase' = [phase EXCEPT ![c] = "answered"]
  /\ result' = [result EXCEPT ![c] = outcome]
  /\ task' = [task EXCEPT ![c] = IF CancelsExecution(c) THEN Stopped(state) ELSE state]
  /\ Deactivate(c)

Await(c, where, outcome, state) ==
  /\ phase' = [phase EXCEPT ![c] = where]
  /\ result' = [result EXCEPT ![c] = outcome]
  /\ task' = [task EXCEPT ![c] = state]
  /\ UNCHANGED <<active, model>>

-----------------------------------------------------------------------------
(* invoke_agent, in the order of its suspensions.                           *)

\* Runtime.invoke, or LocalAgentGateway.invoke of a delegating capability
\* whose context is active and not overdue.
Begin(c) ==
  LET p == Parent[c] IN
  /\ phase[c] = "idle" /\ Cardinality({d \in Calls : phase[d] # "idle"}) < MaxCalls
  /\ p # NoCall => p \in active /\ Alive(p) /\ p \notin due
  /\ IF Run[c] \in asked
     THEN /\ phase' = [phase EXCEPT ![c] = "answered"]
          /\ result' = [result EXCEPT ![c] = "cancelled"]
          /\ UNCHANGED active
     ELSE /\ phase' = [phase EXCEPT ![c] = "checking"]
          /\ active' = active \cup {c}
          /\ UNCHANGED result
  /\ UNCHANGED <<task, due, asked, observed, model, thread, dismissed>>

\* Arguments, authorization, approval or required audit refuse it.
Reject(c) ==
  /\ phase[c] = "checking"
  /\ Answer(c, "rejected", task[c])
  /\ UNCHANGED <<due, asked, observed, thread, dismissed>>

StartsIn(c) == IF c \in Sync THEN "queued" ELSE "none"

\* create_task: the execution takes its first step before sleep(0) returns.
Launch(c) ==
  /\ phase[c] = "checking"
  /\ Await(c, "launched", "none", "running")
  /\ thread' = [thread EXCEPT ![c] = StartsIn(c)]
  /\ UNCHANGED <<due, asked, observed, dismissed>>

\* remaining_timeout raises outside the try that cancels the execution.
Resume(c) ==
  /\ phase[c] = "launched"
  /\ IF c \in due THEN Await(c, "finishing", "timeout", task[c])
     ELSE Await(c, "waiting", "none", task[c])
  /\ UNCHANGED <<due, asked, observed, thread, dismissed>>

\* wait_for: the execution is cancelled and waited for.
WaitTimesOut(c) ==
  /\ phase[c] = "waiting" /\ c \in due
  /\ Await(c, "overdue", "none", Stopped(task[c]))
  /\ UNCHANGED <<due, asked, observed, thread, dismissed>>

\* What the awaited execution makes of the invocation.
WaitEnds(c) ==
  /\ phase[c] = "waiting"
  /\ \/ /\ task[c] = "returned"
        /\ \E outcome \in {"success", "failure"} : Await(c, "finishing", outcome, task[c])
     \/ task[c] = "failed" /\ Await(c, "finishing", "failure", task[c])
     \/ task[c] \in {"cancelled", "cooperative"} /\ Answer(c, "cancelled", task[c])
  /\ UNCHANGED <<due, asked, observed, thread, dismissed>>

OverdueAnswer(c) == "timeout"

\* Only its cancellation is suppressed while the execution is waited for; any
\* other exception of it replaces the timeout or the caller's cancellation.
StopEnds(c) ==
  /\ phase[c] \in {"overdue", "dismissed"}
  /\ \/ /\ task[c] \in {"returned", "cancelled"} /\ phase[c] = "overdue"
        /\ Await(c, "finishing", OverdueAnswer(c), task[c])
     \/ /\ task[c] \in {"returned", "cancelled"} /\ phase[c] = "dismissed"
        /\ Answer(c, "raised", task[c])
     \/ task[c] = "failed" /\ Await(c, "finishing", "failure", task[c])
     \/ task[c] = "cooperative" /\ Answer(c, "cancelled", task[c])
  /\ UNCHANGED <<due, asked, observed, thread, dismissed>>

\* The last evidence is emitted and the envelope returned.
Finish(c) ==
  /\ phase[c] = "finishing"
  /\ Answer(c, result[c], task[c])
  /\ UNCHANGED <<due, asked, observed, thread, dismissed>>

\* Mutant: a second cancellation makes the caller leave at once.
LeavesAtOnce(c) == TRUE
Unwound(c) == task[c] \in Ended

\* The caller's task is cancelled wherever the invocation waits.  While it
\* waits for a cancelled execution, Task.cancel reaches that execution and the
\* caller goes on waiting; when the execution just ended, it is suppressed.
CallerCancels(c) ==
  /\ \/ phase[c] \in {"checking", "launched", "finishing"} /\ Answer(c, "raised", task[c])
     \/ phase[c] = "waiting" /\ Await(c, "dismissed", "none", Stopped(task[c]))
     \/ phase[c] \in {"overdue", "dismissed"} /\ ~Unwound(c)
          /\ UNCHANGED <<phase, result, task, active, model>>
     \/ phase[c] = "overdue" /\ Unwound(c) /\ Await(c, "finishing", "timeout", task[c])
     \/ phase[c] = "dismissed" /\ Unwound(c) /\ Answer(c, "raised", task[c])
  /\ dismissed' = dismissed \cup {c}
  /\ UNCHANGED <<due, asked, observed, thread>>

-----------------------------------------------------------------------------
(* Time and cooperative cancellation.                                       *)

\* The deadline of a delegated invocation is never later than its parent's.
DeadlinePasses(c) ==
  /\ c \in Limited \ due /\ phase[c] # "idle"
  /\ \A d \in Calls : Parent[d] = c /\ phase[d] # "idle" => d \in due
  /\ due' = due \cup {c}
  /\ UNCHANGED <<phase, result, task, active, asked, observed, model, thread, dismissed>>

Ask(r) ==
  /\ r \notin asked
  /\ asked' = asked \cup {r}
  /\ UNCHANGED <<phase, result, task, active, due, observed, model, thread, dismissed>>

\* observe_cancellation, a task of its own, cancels the execution once.
Observe(c) ==
  /\ Alive(c) /\ Run[c] \in asked /\ c \notin observed
  /\ observed' = observed \cup {c}
  /\ task' = [task EXCEPT ![c] = Stopped(@)]
  /\ UNCHANGED <<phase, result, active, due, asked, model, thread, dismissed>>

-----------------------------------------------------------------------------
(* The capability: asynchronous ones may resist a cancellation.  Bound: an   *)
(* invocation makes one model call at a time.                               *)

\* begin_model_call, in the execution or in a task the capability created.
BeginModelCall(c, kind) ==
  /\ c \notin Sync /\ task[c] # "none" /\ (kind = "own" => Alive(c))
  /\ c \in active /\ model[c] = "none" /\ Run[c] \notin asked /\ c \notin due
  /\ model' = [model EXCEPT ![c] = kind]
  /\ UNCHANGED <<phase, result, task, active, due, asked, observed, thread, dismissed>>

EndModelCall(c) ==
  /\ model[c] # "none"
  /\ model' = [model EXCEPT ![c] = "none"]
  /\ UNCHANGED <<phase, result, task, active, due, asked, observed, thread, dismissed>>

\* The capability returns or raises: execute() leaves the context.
CapabilityEnds(c, outcome) ==
  /\ Alive(c) /\ c \notin Sync /\ model[c] # "own"
  /\ task' = [task EXCEPT ![c] = outcome]
  /\ Deactivate(c)
  /\ UNCHANGED <<phase, result, due, asked, observed, thread, dismissed>>
CapabilityReturns(c) == CapabilityEnds(c, "returned")
CapabilityFails(c) == CapabilityEnds(c, "failed")

\* Mutant: every cancellation is taken for a cooperative one.
AlwaysCooperative(c) == "cooperative"
StopKind(c) == IF c \in observed THEN "cooperative" ELSE "cancelled"

\* Mutant: the end of the thread is waited for.
ThreadJoined(c) ==
  \/ task[c] = "cancelling" /\ thread[c] \notin {"blocked", "holding"}
  \/ task[c] = "running" /\ c \notin Sync
Cancellable(c) ==
  \/ task[c] = "cancelling"
  \/ task[c] = "running" /\ c \notin Sync

\* CancelledError leaves the execution: its cancellation goes through, or what
\* the capability awaits (complete_model_call, a task of its own) raises one.
\* A thread that was not started yet never will be; a started one runs on.
CapabilityStops(c) ==
  /\ Cancellable(c)
  /\ task' = [task EXCEPT ![c] = StopKind(c)]
  /\ model' = [model EXCEPT ![c] = IF @ = "own" THEN "none" ELSE @]
  /\ thread' = [thread EXCEPT ![c] = IF @ = "queued" THEN "none" ELSE @]
  /\ UNCHANGED <<phase, result, active, due, asked, observed, dismissed>>

-----------------------------------------------------------------------------
(* Worker threads.                                                          *)

Busy == {c \in Calls : thread[c] \in {"blocked", "holding"}}
ThreadStarts(c) ==
  /\ thread[c] = "queued" /\ Cardinality(Busy) < Workers
  /\ thread' = [thread EXCEPT ![c] = "blocked"]
  /\ UNCHANGED <<phase, result, task, active, due, asked, observed, model, dismissed>>

\* capability_lock
Locked(k) == \E c \in Calls : Capability[c] = k /\ thread[c] = "holding"
LockTaken(c) ==
  /\ thread[c] = "blocked" /\ ~Locked(Capability[c])
  /\ thread' = [thread EXCEPT ![c] = "holding"]
  /\ UNCHANGED <<phase, result, task, active, due, asked, observed, model, dismissed>>

\* The result of an execution that was cancelled meanwhile is discarded.
ThreadEnds(c, outcome) ==
  /\ thread[c] = "holding"
  /\ thread' = [thread EXCEPT ![c] = "none"]
  /\ IF task[c] = "running"
     THEN task' = [task EXCEPT ![c] = outcome] /\ Deactivate(c)
     ELSE UNCHANGED <<task, active, model>>
  /\ UNCHANGED <<phase, result, due, asked, observed, dismissed>>

-----------------------------------------------------------------------------
Invokes(c) ==
  \/ Begin(c) \/ Reject(c) \/ Launch(c) \/ Resume(c)
  \/ WaitTimesOut(c) \/ WaitEnds(c) \/ StopEnds(c) \/ Finish(c)
  \/ CallerCancels(c)

Executes(c) ==
  \/ Observe(c)
  \/ \E kind \in {"own", "background"} : BeginModelCall(c, kind)
  \/ EndModelCall(c)
  \/ CapabilityReturns(c) \/ CapabilityFails(c) \/ CapabilityStops(c)
  \/ ThreadStarts(c) \/ LockTaken(c)
  \/ \E outcome \in {"returned", "failed"} : ThreadEnds(c, outcome)

Next ==
  \/ \E c \in Calls : Invokes(c) \/ Executes(c) \/ DeadlinePasses(c)
  \/ \E r \in Runs : Ask(r)

Spec == Init /\ [][Next]_vars

\* Coroutines resume, deadlines are timers, the evidence an invocation waits
\* for is bounded by the audit timeout, and a cancelled synchronous execution
\* cannot resist.  Capabilities, models and threads may take for ever.
Fairness ==
  \A c \in Calls :
    /\ WF_vars(Reject(c) \/ Launch(c)) /\ WF_vars(Resume(c))
    /\ WF_vars(DeadlinePasses(c)) /\ WF_vars(WaitTimesOut(c))
    /\ WF_vars(StopEnds(c)) /\ WF_vars(Finish(c))
    /\ c \in Sync => WF_vars(CapabilityStops(c))

FairSpec == Spec /\ Fairness

-----------------------------------------------------------------------------
(* Properties.                                                              *)

\* What the caller is told is what happened: success and failure come from an
\* execution that ended, a timeout from a passed deadline, a cancellation from
\* the state of this very run or from the work itself, an exception from a cancelled caller
\* (the except clauses of invoke_agent).
AnswersAreHonest ==
  \A c \in Calls :
    /\ result[c] = "success" => task[c] = "returned"
    /\ result[c] = "failure" => task[c] \in {"returned", "failed"}
    /\ result[c] = "timeout" => c \in due
    /\ result[c] = "cancelled" => Run[c] \in asked \/ task[c] = "cancelled"
    /\ result[c] = "raised" => c \in dismissed

\* Once an invocation waits for its execution it leaves only after that has
\* ended, and work that ends after the timeout or the cancellation of the
\* caller is no success: "its result is discarded" (the except clauses around
\* wait_for).
Waited == {"waiting", "overdue", "dismissed"}
WaitedWorkIsOver ==
  [][\A c \in Calls :
       /\ phase[c] \in Waited /\ phase'[c] \notin Waited => task'[c] \in Ended
       /\ phase[c] \in {"overdue", "dismissed"} => result'[c] # "success"]_vars

\* "Do not cache a context or its gateways beyond the invocation": after the
\* answer, work that survived it begins no model call and delegates nothing,
\* and the calls it had in flight are cancelled.
ContextDiesWithAnswer ==
  [][\A c \in Calls : Answered(c) =>
       /\ model'[c] \in {"none", "stopping"}
       /\ \A d \in Calls : Parent[d] = c /\ phase[d] = "idle" => phase'[d] = "idle"]_vars

\* A synchronous capability never runs twice at the same time, although the
\* invocations it outlived are answered (capability_lock).
OneAtATime ==
  \A c, d \in Calls :
    thread[c] = "holding" /\ thread[d] = "holding" /\ Capability[c] = Capability[d] => c = d

\* An invocation with a deadline is answered, whatever its capability, its
\* model, its lock or the worker threads do, unless an asynchronous capability
\* resists its cancellation.
DeadlineAnswers ==
  \A c \in Limited : phase[c] # "idle"
    ~> Answered(c) \/ (c \notin Sync /\ task[c] = "cancelling")

\* "Cancellation is cooperative for asynchronous and provider work": a caller
\* that is told of a timeout left no execution behind that was not even asked
\* to stop.
TimedOutWorkIsCancelled ==
  \A c \in Calls \ Sync : Answered(c) /\ result[c] = "timeout" => task[c] # "running"
============================================================================
