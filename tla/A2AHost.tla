------------------------------ MODULE A2AHost ------------------------------
(***************************************************************************)
(* One inbound A2A host: lifecycle, request guard, message handling and the *)
(* in-memory task repository (a2a/lifecycle, a2a/guard, a2a/asgi,           *)
(* a2a/runtime, transport/tasks).                                           *)
(*                                                                         *)
(* Everything runs on one event loop, so a step ends where the code can     *)
(* suspend.  The repository's lock is never held across a suspension: a     *)
(* lookup and the claim that follows it are one step, and so is a sweep;    *)
(* only create suspends, in the callback for the task it evicts.  A         *)
(* capability execution is shielded: cancelling the request that waits for  *)
(* it leaves it running.  Message contents, callers and responses are left  *)
(* out; rejected tasks count as failed.                                     *)
(***************************************************************************)
EXTENDS Integers, Sequences, FiniteSets

CONSTANTS Tasks,            \* task identifiers, in the order of their names
          Requests,         \* bound: requests in flight, orphans included
          Startups,         \* concurrent calls of startup
          HasStartupCheck,  \* whether the application passed on_startup
          MaxTasks, PageSize, AcceptLimit, CapabilityLimit

ASSUME HostAssumption ==
  /\ Tasks \subseteq Nat /\ IsFiniteSet(Tasks) /\ 0 \notin Tasks
  /\ IsFiniteSet(Requests) /\ HasStartupCheck \in BOOLEAN
  /\ {MaxTasks, PageSize, AcceptLimit, CapabilityLimit} \subseteq Nat \ {0}

VARIABLES
  host,      \* A2AHostState
  starting,  \* startup calls that await the application's check
  store,     \* state of each task: absent, retained in some state, gone
  order,     \* retained tasks, oldest first
  req,       \* requests and the guards that serve them
  running,   \* requests whose capability execution is running
  stop       \* the drain and aclose calls

vars == <<host, starting, store, order, req, running, stop>>

Terminal == {"completed", "failed", "canceled"}
ActiveStates == {"submitted", "working"}
Retained(t) == store[t] \notin {"absent", "gone"}

NoRequest == [phase |-> "idle", guard |-> "left", task |-> 0, result |-> "none"]
NotCalled == [phase |-> "idle", victims |-> {}, clean |-> TRUE, cut |-> FALSE]
Stoppers == {"drain", "close"}

TypeOK ==
  /\ host \in {"created", "ready", "draining", "closed", "failed"}
  /\ starting \subseteq Startups
  /\ store \in [Tasks -> {"absent", "gone", "input"} \cup ActiveStates \cup Terminal]
  /\ order \in Seq(Tasks) /\ Len(order) <= MaxTasks
  /\ req \in [Requests -> [phase : {"idle", "admitted", "evicting", "dispatching", "publishing",
                                    "unwinding", "ended"},
                           guard : {"waiting", "cancelling", "left"},
                           task : Tasks \cup {0},
                           result : {"none", "input"} \cup Terminal]]
  /\ running \subseteq Requests
  /\ stop \in [Stoppers -> [phase : {"idle", "waiting", "cancelling", "sweeping", "done"},
                            victims : SUBSET Requests, clean : BOOLEAN, cut : BOOLEAN]]

\* Without an application check the host is ready once constructed (mark_ready).
Init ==
  /\ host = IF HasStartupCheck THEN "created" ELSE "ready"
  /\ starting = {}
  /\ store = [t \in Tasks |-> "absent"]
  /\ order = <<>>
  /\ req = [r \in Requests |-> NoRequest]
  /\ running = {}
  /\ stop = [p \in Stoppers |-> NotCalled]

-----------------------------------------------------------------------------
(* Startup.                                                                 *)

\* startup looks at the state once, before it awaits the check.
StartupBegins(s) ==
  /\ HasStartupCheck /\ s \notin starting
  /\ host \in {"created", "ready"}
  /\ starting' = starting \cup {s}
  /\ UNCHANGED <<host, store, order, req, running, stop>>

StartupEnds(s, outcome) ==
  /\ s \in starting
  /\ starting' = starting \ {s}
  /\ host' = outcome
  /\ UNCHANGED <<store, order, req, running, stop>>
StartupSucceeds(s) == StartupEnds(s, "ready")
StartupFails(s) == StartupEnds(s, "failed")

-----------------------------------------------------------------------------
(* Requests.                                                                *)

\* A request holds its admission slot until its guard returns, even when the
\* execution it started still runs.
Attended(r) == req[r].phase # "idle" /\ req[r].guard # "left"
Tracked(r) == req[r].phase # "idle"
Unfinished(r) == Tracked(r) /\ req[r].phase # "ended"
Served == {r \in Requests : Attended(r)}
Sending == {r \in Requests : req[r].phase \in {"evicting", "dispatching", "publishing", "unwinding"}}
SlotFree == Cardinality(Sending) < CapabilityLimit

Proceed(r, phase, t, result) ==
  req' = [req EXCEPT ![r] = [phase |-> phase, guard |-> @.guard, task |-> t, result |-> result]]
End(r) == Proceed(r, "ended", 0, "none")

\* A2ARequestGuard.__call__: readiness, admission, and the tracked execution.
Admit(r) ==
  /\ host = "ready" /\ ~Tracked(r)
  /\ Cardinality(Served) < AcceptLimit
  /\ req' = [req EXCEPT ![r] = [phase |-> "admitted", guard |-> "waiting", task |-> 0,
                                result |-> "none"]]
  /\ UNCHANGED <<host, starting, store, order, running, stop>>

\* Any request may be answered without touching a task: reads, invalid or
\* unsupported requests, no capability slot, a task that cannot be continued.
Answer(r) ==
  /\ req[r].phase = "admitted"
  /\ End(r)
  /\ UNCHANGED <<host, starting, store, order, running, stop>>

Full == Len(order) >= MaxTasks

\* SendMessage without a task: create and claim it, unless creating it evicts
\* the oldest task, whatever its state, and waits for the eviction callback.
SendNew(r, t) ==
  LET full == Full IN
  /\ req[r].phase = "admitted" /\ SlotFree /\ store[t] = "absent"
  /\ order' = Append(IF full THEN Tail(order) ELSE order, t)
  /\ store' = [x \in Tasks |-> IF x = t THEN IF full THEN "submitted" ELSE "working"
                               ELSE IF full /\ x = Head(order) THEN "gone" ELSE store[x]]
  /\ Proceed(r, IF full THEN "evicting" ELSE "dispatching", t, "none")
  /\ running' = IF full THEN running ELSE running \cup {r}
  /\ UNCHANGED <<host, starting, stop>>

\* compare_and_transition to working.
\* Mutant: the claim does not compare.
UncomparedClaim(t) == Retained(t)
Claimable(t) == store[t] = "submitted"
Claim(r) ==
  LET t == req[r].task IN
  /\ req[r].phase = "evicting"
  /\ IF Claimable(t)
     THEN /\ store' = [store EXCEPT ![t] = "working"]
          /\ Proceed(r, "dispatching", t, "none")
          /\ running' = running \cup {r}
     ELSE End(r) /\ UNCHANGED <<store, running>>
  /\ UNCHANGED <<host, starting, order, stop>>

\* SendMessage to a task that awaits input, or that its creator did not claim yet.
SendAgain(r, t) ==
  /\ req[r].phase = "admitted" /\ SlotFree
  /\ store[t] \in {"input", "submitted"}
  /\ store' = [store EXCEPT ![t] = "working"]
  /\ Proceed(r, "dispatching", t, "none")
  /\ running' = running \cup {r}
  /\ UNCHANGED <<host, starting, order, stop>>

\* The shielded execution ends; its request resumes later, if it still waits.
ExecutionEnds(r, result) ==
  /\ r \in running
  /\ running' = running \ {r}
  /\ IF req[r].phase = "dispatching" THEN Proceed(r, "publishing", req[r].task, result)
     ELSE UNCHANGED req
  /\ UNCHANGED <<host, starting, store, order, stop>>

\* compare_and_update with the result, compare_and_transition after a failure:
\* only a task still working changes.
\* Mutant: the update does not compare.
Overwrite(t, state) == [store EXCEPT ![t] = IF Retained(t) THEN state ELSE @]
Settle(t, state) == [store EXCEPT ![t] = IF @ = "working" THEN state ELSE @]

Publish(r) ==
  /\ req[r].phase = "publishing"
  /\ store' = Settle(req[r].task, req[r].result)
  /\ End(r)
  /\ UNCHANGED <<host, starting, order, running, stop>>

\* The capability deadline cancels the handler, which may take its time.
CapabilityDeadline(r) ==
  /\ req[r].phase \in {"dispatching", "publishing"}
  /\ Proceed(r, "unwinding", req[r].task, "failed")
  /\ UNCHANGED <<host, starting, store, order, running, stop>>

SettleUnwound(t, state) == Settle(t, state)
Unwind(r) ==
  /\ req[r].phase = "unwinding"
  /\ store' = SettleUnwound(req[r].task, req[r].result)
  /\ End(r)
  /\ UNCHANGED <<host, starting, order, running, stop>>

\* CancelTask: the handler is told, the repository cancels.
CancelTask(r, t) ==
  /\ req[r].phase = "admitted"
  /\ Retained(t) /\ store[t] \notin Terminal
  /\ store' = [store EXCEPT ![t] = "canceled"]
  /\ End(r)
  /\ UNCHANGED <<host, starting, order, running, stop>>

-----------------------------------------------------------------------------
(* The guard.                                                               *)

\* What cancelling the execution of a request makes of it.
Cancelled(q) ==
  CASE q.phase \in {"admitted", "evicting"} ->
         [phase |-> "ended", guard |-> q.guard, task |-> 0, result |-> "none"]
    [] q.phase \in {"dispatching", "publishing", "unwinding"} ->
         [phase |-> "unwinding", guard |-> q.guard, task |-> q.task, result |-> "canceled"]
    [] OTHER -> q

\* Disconnect, oversized body, request deadline, or the server cancels.
GuardCancels(r) ==
  /\ Unfinished(r) /\ req[r].guard = "waiting"
  /\ req' = [req EXCEPT ![r] = Cancelled([phase |-> @.phase, guard |-> "cancelling",
                                          task |-> @.task, result |-> @.result])]
  /\ UNCHANGED <<host, starting, store, order, running, stop>>

\* The cancellation wait is bounded: the guard leaves, the execution stays tracked.
GuardLeaves(r) ==
  /\ Unfinished(r) /\ req[r].guard = "cancelling"
  /\ req' = [req EXCEPT ![r] = [phase |-> @.phase, guard |-> "left", task |-> @.task,
                                result |-> @.result]]
  /\ UNCHANGED <<host, starting, store, order, running, stop>>

\* The guard answers a finished execution, or _reap drops one it left.
Untrack(r) ==
  /\ req[r].phase = "ended"
  /\ req' = [req EXCEPT ![r] = NoRequest]
  /\ UNCHANGED <<host, starting, store, order, running, stop>>

-----------------------------------------------------------------------------
(* drain and aclose.                                                        *)

\* Whom _cancel_inflight cancels.
Inflight == {r \in Requests : Tracked(r) /\ req[r].phase # "ended"}

Cancelling(p, victims) ==
  /\ stop' = [stop EXCEPT ![p] = [phase |-> "cancelling", victims |-> victims, clean |-> TRUE,
                                  cut |-> FALSE]]
  /\ req' = [r \in Requests |-> IF r \in victims THEN Cancelled(req[r]) ELSE req[r]]

Advance(p, phase, clean, cut) ==
  stop' = [stop EXCEPT ![p] = [phase |-> phase, victims |-> {}, clean |-> clean, cut |-> cut]]

Drain ==
  /\ host # "closed" /\ stop["drain"].phase = "idle"
  /\ host' = "draining"
  /\ Advance("drain", "waiting", TRUE, FALSE)
  /\ UNCHANGED <<starting, store, order, req, running>>

DrainIdle ==
  /\ stop["drain"].phase = "waiting"
  /\ \A r \in Requests : ~Tracked(r)
  /\ Advance("drain", "done", TRUE, FALSE)
  /\ UNCHANGED <<host, starting, store, order, req, running>>

DrainExpires ==
  /\ stop["drain"].phase = "waiting"
  /\ \E r \in Requests : Tracked(r)
  /\ Cancelling("drain", Inflight)
  /\ UNCHANGED <<host, starting, store, order, running>>

Close ==
  /\ host # "closed" /\ stop["close"].phase = "idle"
  /\ host' = "closed"
  /\ Cancelling("close", Inflight)
  /\ UNCHANGED <<starting, store, order, running>>

\* All cancelled executions ended, or the wait for them did.
Finished(p) == \A r \in stop[p].victims : ~Unfinished(r)
\* The wait ends with its timeout (mutant: it lasts until all have ended).
WaitOver(p) == TRUE
CancelEnds(p) ==
  /\ stop[p].phase = "cancelling" /\ WaitOver(p)
  /\ Advance(p, "sweeping", Finished(p), FALSE)
  /\ UNCHANGED <<host, starting, store, order, req, running>>

\* The pages scanned before the list ends, or the clock runs out between two.
Scanned(n) == {t \in Tasks : Retained(t) /\
                 Cardinality({x \in Tasks : Retained(x) /\ x <= t}) <= n * PageSize}
\* Mutant: only tasks that run are swept.
OnlyWorking == {"working"}
SweptStates == ActiveStates

Sweep(p) ==
  /\ stop[p].phase = "sweeping"
  /\ \E n \in 1 .. MaxTasks :
       /\ store' = [t \in Tasks |-> IF t \in Scanned(n) /\ store[t] \in SweptStates
                                    THEN "failed" ELSE store[t]]
       /\ Advance(p, "done", stop[p].clean, \E t \in Tasks : Retained(t) /\ t \notin Scanned(n))
  /\ UNCHANGED <<host, starting, order, req, running>>

-----------------------------------------------------------------------------
Handles(r) ==
  \/ Answer(r)
  \/ \E t \in Tasks : SendNew(r, t) \/ SendAgain(r, t) \/ CancelTask(r, t)
  \/ Claim(r)
  \/ \E result \in {"completed", "failed", "canceled", "input"} : ExecutionEnds(r, result)
  \/ Publish(r)
  \/ CapabilityDeadline(r)
  \/ Unwind(r)

Guards(r) == Admit(r) \/ GuardCancels(r) \/ GuardLeaves(r) \/ Untrack(r)

Starts(s) == StartupBegins(s) \/ StartupSucceeds(s) \/ StartupFails(s)

Stops ==
  \/ Drain \/ DrainIdle \/ DrainExpires \/ Close
  \/ \E p \in Stoppers : CancelEnds(p) \/ Sweep(p)

Next ==
  \/ \E s \in Startups : Starts(s)
  \/ \E r \in Requests : Handles(r) \/ Guards(r)
  \/ Stops

Spec == Init /\ [][Next]_vars

\* Timers fire and ready coroutines resume; executions, cancelled handlers,
\* eviction callbacks and startup checks may take for ever.
Fairness ==
  /\ \A r \in Requests : WF_vars(Publish(r)) /\ WF_vars(CapabilityDeadline(r))
  /\ WF_vars(DrainIdle \/ DrainExpires)
  /\ \A p \in Stoppers : WF_vars(CancelEnds(p)) /\ WF_vars(Sweep(p))

FairSpec == Spec /\ Fairness

-----------------------------------------------------------------------------
(* Properties.                                                              *)

Owners(t) == {r \in Requests : /\ req[r].task = t
                               /\ req[r].phase \in {"dispatching", "publishing", "unwinding"}}

\* A task is executed by one request at a time, and a working task is never
\* left without the request that will settle it, whoever is cancelled, evicted,
\* timed out or swept in between (the claim in _send and its four exits).
OneOwnerPerWorkingTask ==
  \A t \in Tasks :
    /\ Cardinality(Owners(t)) <= 1
    /\ store[t] = "working" => Owners(t) # {}
    /\ Owners(t) # {} => store[t] \notin {"absent", "submitted", "input"}

Moves == {<<"absent", "submitted">>, <<"absent", "working">>, <<"submitted", "working">>,
          <<"submitted", "failed">>, <<"submitted", "canceled">>, <<"input", "working">>,
          <<"input", "canceled">>}
         \cup ({"working"} \X ({"input"} \cup Terminal))
         \cup (({"input"} \cup ActiveStates \cup Terminal) \X {"gone"})

\* Terminal tasks are immutable, an answered cancel is final, and a task that
\* waits for input is not failed by a sweep (compare_and_transition,
\* compare_and_update, cancel, _fail_if_active).
TasksMoveForward ==
  [][\A t \in Tasks : store'[t] = store[t] \/ <<store[t], store'[t]>> \in Moves]_vars

\* A close that reported no failure and was not cut short by its clock leaves no
\* task submitted or working: "every accepted task is driven out of an ambiguous
\* active state".
CloseLeavesNothingActive ==
  host = "closed" /\ stop["close"].phase = "done" /\ stop["close"].clean /\ ~stop["close"].cut
    => \A t \in Tasks : store[t] \notin ActiveStates

\* "a draining or failed host is never silently revived to ready", nor a closed one.
Revives == host \in {"draining", "closed", "failed"} /\ host' = "ready"
NeverRevived == [][~Revives]_vars

\* drain and aclose return, whatever the executions do.
StopsComplete == \A p \in Stoppers : stop[p].phase # "idle" ~> stop[p].phase = "done"

\* A working task settles, unless its handler resists the cancellation.
WorkSettles ==
  \A t \in Tasks : store[t] = "working"
    ~> store[t] # "working" \/ \E r \in Owners(t) : req[r].phase = "unwinding"
============================================================================
