-------------------------- MODULE ProviderRegistry --------------------------
(***************************************************************************)
(* Model bindings, accepted uses and cleanup of provider clients            *)
(* (core/provider_registry: bindings, lifecycle, cleanup, ownership).       *)
(*                                                                         *)
(* One reentrant lock; factories, closes and waits run outside it, so each  *)
(* locked section is one action.  Constructors are calls of                 *)
(* register_provider in flight, users are runtime-mediated model calls that *)
(* resolve a binding, acquire a lease and release it, and a close runs in a *)
(* task of its own.  Which provider type a factory belongs to, health       *)
(* predicates and the bound on parallel closes are left out.                *)
(***************************************************************************)
EXTENDS Integers, FiniteSets, Functions

CONSTANTS Refs, Clients, Constructors, Users,
          NoClient, NoRef,
          HasDeadline,     \* whether aclose was given a timeout
          MaxMutations     \* bound: publications and deregistrations in one behaviour

ASSUME RegistryAssumption ==
  /\ NoClient \notin Clients /\ NoRef \notin Refs
  /\ HasDeadline \in BOOLEAN /\ MaxMutations \in Nat
  /\ IsFiniteSet(Users)

VARIABLES
  binding,      \* _registrations: the client published for a reference
  generation,   \* _generations: mutations of a reference
  owner,        \* ownership of a recorded client, "none" without a record
  refs,         \* record.references
  retired,      \* record.retired_references
  leases,       \* record.leases
  close,        \* close_started, closed and close_failure of a record
  building,     \* register_provider calls in flight
  using,        \* users: what they resolved and whether they hold a lease
  scheduled,    \* retired clients whose cleanup was scheduled and has not run
  shutdown,     \* open, draining, closing (captured), done
  expired,      \* the deadline of aclose has passed
  outcome,      \* per captured client: what the shutdown pass made of it
  unfinished,   \* constructions the report lists as failures
  starts,       \* history: how often a client's close was started
  dropped,      \* history: clients whose releasing call was cancelled before its cleanup
  overtaken     \* history: constructions whose reference was rebound meanwhile

bindings == <<binding, generation>>
records == <<owner, refs, retired, leases, close>>
ending == <<shutdown, expired, outcome, unfinished>>
history == <<starts, dropped, overtaken>>
vars == <<bindings, records, building, using, scheduled, ending, history>>

Owned(c) == owner[c] = "runtime"
Recorded(c) == owner[c] # "none"
Mutations == SumFunction(generation)
Open == shutdown = "open"
Active(k) == building[k].phase # "idle"

Idle == [phase |-> "idle", ref |-> NoRef, expected |-> 0, replace |-> FALSE,
         owner |-> "none", client |-> NoClient]

TypeOK ==
  /\ binding \in [Refs -> Clients \cup {NoClient}]
  /\ generation \in [Refs -> Nat]
  /\ owner \in [Clients -> {"none", "runtime", "caller"}]
  /\ refs \in [Clients -> SUBSET Refs]
  /\ retired \in [Clients -> SUBSET Refs]
  /\ leases \in [Clients -> Nat]
  /\ close \in [Clients -> {"open", "started", "closed", "failed"}]
  /\ building \in [Constructors ->
       [phase : {"idle", "building", "built", "finishing"},
        ref : Refs \cup {NoRef}, expected : Nat, replace : BOOLEAN,
        owner : {"none", "runtime", "caller"}, client : Clients \cup {NoClient}]]
  /\ using \in [Users -> [phase : {"idle", "resolved", "leased"},
                          client : Clients \cup {NoClient}]]
  /\ scheduled \subseteq Clients
  /\ shutdown \in {"open", "draining", "closing", "done"}
  /\ expired \in BOOLEAN
  /\ outcome \in [Clients -> {"none", "pending", "waiting", "closed", "skipped", "failed"}]
  /\ unfinished \subseteq Constructors
  /\ starts \in [Clients -> Nat]
  /\ dropped \subseteq Clients
  /\ overtaken \subseteq Constructors

NotUsing == [phase |-> "idle", client |-> NoClient]

Init ==
  /\ binding = [r \in Refs |-> NoClient]
  /\ generation = [r \in Refs |-> 0]
  /\ owner = [c \in Clients |-> "none"]
  /\ refs = [c \in Clients |-> {}]
  /\ retired = [c \in Clients |-> {}]
  /\ leases = [c \in Clients |-> 0]
  /\ close = [c \in Clients |-> "open"]
  /\ building = [k \in Constructors |-> Idle]
  /\ using = [u \in Users |-> NotUsing]
  /\ scheduled = {}
  /\ shutdown = "open"
  /\ expired = FALSE
  /\ outcome = [c \in Clients |-> "none"]
  /\ unfinished = {}
  /\ starts = [c \in Clients |-> 0]
  /\ dropped = {}
  /\ overtaken = {}

-----------------------------------------------------------------------------
(* Publication.                                                             *)

\* _eligible_retired_record_by_record, in the state where the client is bound
\* to refs rs and has n leases.
Eligible(c, rs, n) == Owned(c) /\ rs = {} /\ n = 0 /\ close[c] = "open"

\* _record_for: a client is recorded once, with one owner, and never returns
\* once its cleanup began.
\* Mutant: a client whose cleanup began may be published again.
BindableThoughClosing(c, own) == owner[c] \in {"none", own}
Bindable(c, own) == owner[c] \in {"none", own} /\ close[c] = "open"

\* The effect of _publish: detach the previous client, attach the new one.
Attach(r, c, own) ==
  LET prev == binding[r] IN
  /\ binding' = [binding EXCEPT ![r] = c]
  /\ owner' = [owner EXCEPT ![c] = own]
  /\ refs' = [x \in Clients |-> IF x = c THEN refs[x] \cup {r}
                                ELSE IF x = prev THEN refs[x] \ {r} ELSE refs[x]]
  /\ retired' = [x \in Clients |-> IF x = c THEN retired[x] \ {r}
                                   ELSE IF x = prev THEN retired[x] \cup {r} ELSE retired[x]]
  /\ generation' = [generation EXCEPT ![r] = @ + 1]
  /\ Mutations < MaxMutations
  /\ dropped' = dropped \ {c}
  /\ UNCHANGED <<leases, close, starts>>

\* The replaced client, when it may be cleaned up at once.
Replaced(r, c) ==
  LET prev == binding[r] IN
  IF prev \in Clients \ {c} /\ Eligible(prev, refs[prev] \ {r}, leases[prev])
  THEN {prev} ELSE {}

\* History: every construction in flight for a reference whose binding changes.
Overtake == overtaken' = overtaken \cup
  {k \in Constructors : Active(k) /\ binding'[building[k].ref] # binding[building[k].ref]}

\* register_client: publish a client the application made.
RegisterClient(r, c, own, replace) ==
  /\ Open
  /\ binding[r] = NoClient \/ replace
  /\ Bindable(c, own)
  /\ Attach(r, c, own)
  /\ scheduled' = scheduled \cup Replaced(r, c)
  /\ Overtake
  /\ UNCHANGED <<building, using, ending>>

\* deregister_model
Bumped(r) == [generation EXCEPT ![r] = @ + 1]
\* Mutant: only a publication counts as a mutation of the reference.
Unbumped(r) == generation
DeregisteredGeneration(r) == Bumped(r)
DeregisterModel(r) ==
  LET c == binding[r] IN
  /\ Open /\ c # NoClient
  /\ Mutations < MaxMutations
  /\ binding' = [binding EXCEPT ![r] = NoClient]
  /\ refs' = [refs EXCEPT ![c] = @ \ {r}]
  /\ retired' = [retired EXCEPT ![c] = @ \cup {r}]
  /\ generation' = DeregisteredGeneration(r)
  /\ scheduled' = scheduled \cup (IF Eligible(c, refs[c] \ {r}, leases[c]) THEN {c} ELSE {})
  /\ Overtake
  /\ UNCHANGED <<owner, leases, close, building, using, ending, starts, dropped>>

-----------------------------------------------------------------------------
(* register_provider.                                                       *)

\* _begin_construction reserves the construction and captures the generation.
BeginConstruction(k, r, own, replace) ==
  /\ Open /\ ~Active(k)
  /\ binding[r] = NoClient \/ replace
  /\ building' = [building EXCEPT ![k] =
       [phase |-> "building", ref |-> r, expected |-> generation[r], replace |-> replace,
        owner |-> own, client |-> NoClient]]
  /\ overtaken' = overtaken \ {k}
  /\ UNCHANGED <<bindings, records, using, scheduled, ending, starts, dropped>>

Advance(k, phase, c) ==
  building' = [building EXCEPT ![k] = [@ EXCEPT !.phase = phase, !.client = c]]

\* factory.create: a new client, or one the factory handed out before.
FactoryCreates(k, c) ==
  /\ building[k].phase = "building"
  /\ Advance(k, "built", c)
  /\ UNCHANGED <<bindings, records, using, scheduled, ending, history>>

FactoryFails(k) ==
  /\ building[k].phase = "building"
  /\ Advance(k, "finishing", NoClient)
  /\ UNCHANGED <<bindings, records, using, scheduled, ending, history>>

\* The generation check of _publish.
Current(k) == generation[building[k].ref] = building[k].expected

\* _publish of the constructed client.  The client to clean up afterwards, if
\* any, is remembered until the construction is finished.
Publish(k) ==
  LET b == building[k] IN
  /\ b.phase = "built"
  /\ Open /\ Current(k)
  /\ binding[b.ref] = NoClient \/ b.replace
  /\ Bindable(b.client, b.owner)
  /\ Attach(b.ref, b.client, b.owner)
  /\ Advance(k, "finishing",
             IF Replaced(b.ref, b.client) = {} THEN NoClient ELSE binding[b.ref])
  /\ Overtake
  /\ UNCHANGED <<using, scheduled, ending>>

\* Validation may refuse any client and _publish one it may not bind; then
\* _retire_unpublished_client keeps an owned client nobody recorded.
Reject(k) ==
  LET b == building[k]
      keep == b.owner = "runtime" /\ ~Recorded(b.client) IN
  /\ b.phase = "built"
  /\ Advance(k, "finishing", IF keep THEN b.client ELSE NoClient)
  /\ owner' = IF keep THEN [owner EXCEPT ![b.client] = "runtime"] ELSE owner
  /\ retired' = IF keep THEN [retired EXCEPT ![b.client] = @ \cup {b.ref}] ELSE retired
  /\ UNCHANGED <<bindings, refs, leases, close, using, scheduled, ending, history>>

\* _finish_construction, then the cleanup the construction left to do.
FinishConstruction(k) ==
  /\ building[k].phase = "finishing"
  /\ building' = [building EXCEPT ![k] = Idle]
  /\ scheduled' = scheduled \cup ({building[k].client} \ {NoClient})
  /\ overtaken' = overtaken \ {k}
  /\ UNCHANGED <<bindings, records, using, ending, starts, dropped>>

-----------------------------------------------------------------------------
(* Accepted uses.                                                           *)

\* resolve: remember the published binding; whether the provider is available
\* is up to its health predicate.
Resolve(u, r) ==
  /\ Open /\ using[u].phase = "idle" /\ binding[r] # NoClient
  /\ using' = [using EXCEPT ![u] = [phase |-> "resolved", client |-> binding[r]]]
  /\ UNCHANGED <<bindings, records, building, scheduled, ending, history>>

\* acquire, on the binding resolved before: refused once cleanup began.
\* Mutant: only a finished cleanup refuses a use.
NotYetClosed(c) == Recorded(c) /\ close[c] # "closed"
Usable(c) == Recorded(c) /\ close[c] = "open"
Acquire(u) ==
  LET c == using[u].client IN
  /\ using[u].phase = "resolved" /\ Open /\ Usable(c)
  /\ leases' = [leases EXCEPT ![c] = @ + 1]
  /\ using' = [using EXCEPT ![u] = [phase |-> "leased", client |-> c]]
  /\ UNCHANGED <<bindings, owner, refs, retired, close, building, scheduled, ending, history>>

\* The call is refused, by acquire or before it.
Refused(u) ==
  /\ using[u].phase = "resolved"
  /\ using' = [using EXCEPT ![u] = NotUsing]
  /\ UNCHANGED <<bindings, records, building, scheduled, ending, history>>

\* release_lease: the last use of a retired client leads to its cleanup.
LeftByRelease(c) == IF Eligible(c, refs[c], leases[c] - 1) THEN {c} ELSE {}
Release(u) ==
  LET c == using[u].client IN
  /\ using[u].phase = "leased"
  /\ leases' = [leases EXCEPT ![c] = @ - 1]
  /\ using' = [using EXCEPT ![u] = NotUsing]
  /\ scheduled' = scheduled \cup LeftByRelease(c)
  /\ UNCHANGED <<bindings, owner, refs, retired, close, building, ending, history>>

\* The releasing task is cancelled while it waits for the cleanup it asked
\* for, before that cleanup took its first step: gather cancels it unstarted.
ReleaseCancelled(u) ==
  LET c == using[u].client IN
  /\ using[u].phase = "leased"
  /\ leases' = [leases EXCEPT ![c] = @ - 1]
  /\ using' = [using EXCEPT ![u] = NotUsing]
  /\ dropped' = dropped \cup LeftByRelease(c)
  /\ UNCHANGED <<bindings, owner, refs, retired, close, building, scheduled, ending, starts,
                 overtaken>>

-----------------------------------------------------------------------------
(* Cleanup.                                                                 *)

\* _prepare_cleanup with retired_only: everything is looked at again.
Revalidated(c) == Eligible(c, refs[c], leases[c])

StartClose(c) ==
  /\ close' = [close EXCEPT ![c] = "started"]
  /\ starts' = [starts EXCEPT ![c] = @ + 1]

RetiredCleanup(c) ==
  /\ c \in scheduled
  /\ scheduled' = scheduled \ {c}
  /\ IF Revalidated(c) THEN StartClose(c) ELSE UNCHANGED <<close, starts>>
  /\ UNCHANGED <<bindings, owner, refs, retired, leases, building, using, ending, dropped,
                 overtaken>>

\* _run_record_cleanup: the client's close returns; or raises, is cancelled or
\* outlives its limit, which is final too.
CloseEnds(c, result) ==
  /\ close[c] = "started"
  /\ close' = [close EXCEPT ![c] = result]
  /\ UNCHANGED <<bindings, owner, refs, retired, leases, building, using, scheduled, ending,
                 history>>
CloseSucceeds(c) == CloseEnds(c, "closed")
CloseFails(c) == CloseEnds(c, "failed")

-----------------------------------------------------------------------------
(* aclose.                                                                  *)

Aclose ==
  /\ Open
  /\ shutdown' = "draining"
  /\ UNCHANGED <<bindings, records, building, using, scheduled, expired, outcome, unfinished,
                 history>>

DeadlineExpires ==
  /\ HasDeadline /\ shutdown \in {"draining", "closing"} /\ ~expired
  /\ expired' = TRUE
  /\ UNCHANGED <<bindings, records, building, using, scheduled, shutdown, outcome, unfinished,
                 history>>

\* _wait_for_quiescence
Quiescent == /\ \A k \in Constructors : ~Active(k)
             /\ \A c \in Clients : leases[c] = 0
\* Mutant: the wait ignores the deadline.
GraceUnbounded == Quiescent
GraceOver == Quiescent \/ expired

\* _shutdown_state: constructions for a reference that some recorded client is
\* or was bound to are not listed.
Pending == {k \in Constructors : /\ Active(k)
                                 /\ \A c \in Clients : building[k].ref \notin refs[c] \cup retired[c]}

CaptureShutdown ==
  /\ shutdown = "draining"
  /\ GraceOver
  /\ shutdown' = "closing"
  /\ outcome' = [c \in Clients |-> IF Recorded(c) THEN "pending" ELSE "none"]
  /\ unfinished' = Pending
  /\ UNCHANGED <<bindings, records, building, using, scheduled, expired, history>>

\* Mutant: a close somebody else started counts as done.
VerdictTrusting(c) ==
  CASE owner[c] = "caller"                                       -> "skipped"
    [] owner[c] # "caller" /\ leases[c] > 0                      -> "failed"
    [] owner[c] # "caller" /\ leases[c] = 0 /\ close[c] # "open" -> "closed"
    [] OTHER                                                     -> "waiting"
\* _prepare_cleanup of the shutdown pass.
Verdict(c) ==
  CASE owner[c] = "caller"                              -> "skipped"
    [] owner[c] # "caller" /\ leases[c] > 0             -> "failed"
    [] owner[c] # "caller" /\ leases[c] = 0 /\ close[c] = "closed" -> "closed"
    [] OTHER                                            -> "waiting"

\* Whether the pass has to start the close it then waits for.
Unclaimed(c) == close[c] = "open"

ShutdownPrepare(c) ==
  /\ shutdown = "closing" /\ outcome[c] = "pending"
  /\ outcome' = [outcome EXCEPT ![c] = Verdict(c)]
  /\ IF Verdict(c) = "waiting" /\ Unclaimed(c) THEN StartClose(c) ELSE UNCHANGED <<close, starts>>
  /\ UNCHANGED <<bindings, owner, refs, retired, leases, building, using, scheduled, shutdown,
                 expired, unfinished, dropped, overtaken>>

\* _wait_for_record_cleanup: the shared result, or the deadline.
ShutdownJoin(c) ==
  /\ shutdown = "closing" /\ outcome[c] = "waiting"
  /\ \E result \in {"closed", "failed"} :
       /\ close[c] = result \/ (result = "failed" /\ expired)
       /\ outcome' = [outcome EXCEPT ![c] = result]
  /\ UNCHANGED <<bindings, records, building, using, scheduled, shutdown, expired, unfinished,
                 history>>

\* The report is published and every waiter of aclose gets it.
ShutdownReport ==
  /\ shutdown = "closing"
  /\ \A c \in Clients : outcome[c] \notin {"pending", "waiting"}
  /\ shutdown' = "done"
  /\ UNCHANGED <<bindings, records, building, using, scheduled, expired, outcome, unfinished,
                 history>>

ReportedFailures == unfinished # {} \/ \E c \in Clients : outcome[c] = "failed"

-----------------------------------------------------------------------------
Registers ==
  \/ \E r \in Refs, c \in Clients, own \in {"runtime", "caller"}, replace \in BOOLEAN :
       RegisterClient(r, c, own, replace)
  \/ \E r \in Refs : DeregisterModel(r)

Constructs(k) ==
  \/ \E r \in Refs, own \in {"runtime", "caller"}, replace \in BOOLEAN :
       BeginConstruction(k, r, own, replace)
  \/ \E c \in Clients : FactoryCreates(k, c)
  \/ FactoryFails(k)
  \/ Publish(k)
  \/ Reject(k)
  \/ FinishConstruction(k)

Uses(u) ==
  \/ \E r \in Refs : Resolve(u, r)
  \/ Acquire(u)
  \/ Refused(u)
  \/ Release(u)
  \/ ReleaseCancelled(u)

Cleans(c) == RetiredCleanup(c) \/ CloseSucceeds(c) \/ CloseFails(c)

Closes ==
  \/ Aclose
  \/ DeadlineExpires
  \/ CaptureShutdown
  \/ \E c \in Clients : ShutdownPrepare(c) \/ ShutdownJoin(c)
  \/ ShutdownReport

Next ==
  \/ Registers
  \/ \E k \in Constructors : Constructs(k)
  \/ \E u \in Users : Uses(u)
  \/ \E c \in Clients : Cleans(c)
  \/ Closes

Spec == Init /\ [][Next]_vars

\* A close is bounded by its timeout, a scheduled cleanup is a task of a
\* running loop, the shutdown pass is one too and the deadline is a timer; a
\* call releases its lease in a finally block and a constructor runs on once
\* its factory returned.  Factories and applications may take for ever.
Fairness ==
  /\ \A c \in Clients : /\ WF_vars(RetiredCleanup(c))
                         /\ WF_vars(CloseSucceeds(c) \/ CloseFails(c))
                         /\ WF_vars(ShutdownPrepare(c) \/ ShutdownJoin(c))
  /\ \A u \in Users : WF_vars(Acquire(u) \/ Refused(u)) /\ WF_vars(Release(u) \/ ReleaseCancelled(u))
  /\ \A k \in Constructors :
       WF_vars(Publish(k) \/ Reject(k) \/ FinishConstruction(k))
  /\ WF_vars(DeadlineExpires)
  /\ WF_vars(CaptureShutdown)
  /\ WF_vars(ShutdownReport)

FairSpec == Spec /\ Fairness

-----------------------------------------------------------------------------
(* Properties.                                                              *)

\* A client is never closed under a call that was accepted (acquire,
\* _prepare_cleanup): while somebody holds a lease its cleanup has not begun.
NeverClosedInUse == \A c \in Clients : leases[c] > 0 => close[c] = "open"

\* What resolve hands out is usable: until shutdown, a published client knows
\* the reference it is published for and no cleanup of it has begun, however
\* its earlier retirements and their cleanup tasks interleave.
PublishedClientUsable ==
  Open => \A r \in Refs : binding[r] # NoClient =>
            /\ close[binding[r]] = "open"
            /\ \A c \in Clients : r \in refs[c] <=> binding[r] = c

\* A client is closed at most once, by whoever claims it first (the retired
\* cleanup or the shutdown pass), and never when the caller owns it.
ClosedOnceByOwner ==
  \A c \in Clients : starts[c] <= (IF Owned(c) THEN 1 ELSE 0)

\* Cleanups, the shutdown pass and the calls agree on who closes a client: one
\* of them, once, with nobody in it.
ClosesAreSafe == NeverClosedInUse /\ ClosedOnceByOwner

Retired(c) == Owned(c) /\ refs[c] = {} /\ leases[c] = 0 /\ close[c] = "open"
Awaited(c) == c \in scheduled \/ \E k \in Constructors : building[k].phase = "finishing"
                                                       /\ building[k].client = c

\* A runtime-owned client that nothing uses any more is not forgotten: its
\* cleanup is scheduled, unless the call that asked for it was cancelled.
RetiredClientAwaitsCleanup == \A c \in Clients \ dropped : Retired(c) => Awaited(c)

\* "Own cleanup tasks independently of cancellation of cleanup waiters."
CleanupOutlivesItsWaiter == \A c \in Clients : Retired(c) => Awaited(c)

\* A construction never replaces or resurrects a binding that changed while
\* its factory ran (register_provider).
NoOvertakenPublication == [][\A k \in Constructors : Publish(k) => k \notin overtaken]_vars

Reported == shutdown = "done" /\ ~ReportedFailures

\* A report without failures means it: every runtime-owned client recorded
\* before the construction grace ended is closed, nothing is leased.
SuccessMeansClosed ==
  Reported => \A c \in Clients : outcome[c] # "none" /\ Owned(c) =>
                close[c] = "closed" /\ leases[c] = 0

\* With a deadline, aclose returns: no lease, factory or close holds it up.
ShutdownCompletes == shutdown = "draining" ~> shutdown = "done"

\* A runtime-owned client nothing is bound to is closed in the end, or bound
\* again, whatever calls, constructions and cleanups race.
RetiredClientsClose ==
  \A c \in Clients : Owned(c) /\ refs[c] = {}
    ~> close[c] \in {"closed", "failed"} \/ refs[c] # {} \/ c \in dropped
============================================================================
