# Conducto in TLA+

TLA+ modules, TLC runs and TLAPS proofs kept beside the Python package
`conducto` (`src/src/conducto`). Every definition is translated from the code;
`PROJECT.json` maps each one to the lines it stands for. Paths below are
relative to `src/src/conducto` unless they start with `docs/`, which is
`src/docs/`.

## 1. The system

Conducto runs *capabilities* (decorated functions) of *agents*, in process or
behind an A2A or MCP host, lets models delegate from one capability to
another, keeps a catalog of remote agent instances, and guards executions with
scopes, approvals and audit evidence. Everything but the catalog and the
provider registry (which use locks and may be called from threads) lives on one
asyncio event loop: code between two `await`s is atomic, and almost every
hazard below sits at an `await`.

| Component | State | Operations | Hard behaviour | What makes it correct |
|---|---|---|---|---|
| Remote agent catalog (`core/catalog`) | registrations, managed ledger, receipts, pending expiries, revision, clock | legacy register/renew/expire/lifecycle/remove, managed register/renew/drain/deregister/revoke/read, sweep | two interfaces write one registration; clock read before the lock; retried commands; receipts are never evicted | discovery serves only live grants; a dead identity stays dead; a replay is true; capacity never blocks a termination |
| Registration service (`registration`) | none of its own: the catalog, and audit evidence | register, renew, drain, deregister, revoke, expire; the client's retries | audit fails after the mutation; attempts of one request overlap | one effect, after its intent; success told exactly; expiries reported |
| Delegation, local and hybrid gateway, agent registry (`core/delegation`, `core/gateway`, `core/registry`) | counters and results of loops, bindings, generations, the budget of a tree | discover, select, bind, invoke, fail over, loop; register, drain, remove | concurrent children share a budget; a binding goes stale; failover repeats a call | the budget of a tree balances; calls run on what was discovered; one instance at most accepts a remote call; a success hides no failure |
| Provider registry (`core/provider_registry`) | bindings, generations, client records, leases, constructions, shutdown | register, deregister, construct, resolve, acquire, release, cleanup, `aclose` | factories and closes run outside the lock; clients shared by references; a shutdown with a deadline | no client is closed under a call or while published, each at most once, shutdown returns and tells the truth |
| Provider adapters (`providers`, `core/provider`) | tool call cache, HTTP client, closed flag and lock, tries of a call | complete with retries, tool turns, `aclose` | two timers and a caller race to cancel; runs share the cache; closers give up | a retry repeats nothing that was answered; results meet their calls; closes end |
| A2A host (`a2a/lifecycle`, `guard`, `hardening`, `asgi`, `transport/tasks`) | host state, tasks and their order, requests, shielded executions, shares of callers | startup, send, cancel, disconnect, deadline, evict, drain, `aclose`, sweep; evaluate, sanitise, pump, buffer | every path can be cancelled; a full store evicts running tasks; executions outlive requests | one owner per working task, terminal tasks are immutable; an answer is whole and sent once; identity is not the client's to choose |
| A2A messages (`a2a/runtime`) | replay records, shared executions, bindings, approval bindings | handle, join, execute, resume, cancel | deliveries repeat under either of two ids; waiters leave; the agent is replaced | one execution per message, whose outcome every delivery gets |
| Runtime and invocation (`core/runtime*`, `core/invocation`, `core/run_context`, `core/model_gateway`) | contexts, cancellation states, execution tasks, threads, locks, tracked model calls | `invoke_agent` and its timeouts, cancellation, delegation, model calls | deadline, cooperative cancellation, completion and the caller's cancellation race; threads cannot be stopped | an answer says what happened; waited-for work is over; a context is useless after its answer |
| Approvals, security pipeline, audit (`security/approval`, `approval_token`, `pipeline`, `audit`) | challenges, votes, replay store, delivery state per task, buffer | check, decide, resume, resume by token, cancel, expire, emit, flush | evidence is awaited between decision and execution; sinks fail; decisions race | an approval is spent once, and nothing protected runs without its evidence |
| Tokens and trust (`security/tokens`, `trust`, `transport/auth`) | the token cache, its locks | authenticate, attenuate, get or acquire | requests with one key share an acquisition that fails or is given up; tokens expire in the queue | authority never grows; cached tokens are fresh; nobody waits for a request that is over |
| MCP host (`mcp/http`, `mcp/server`) | sessions, in-flight and replay tables | initialise, call, cancel, drain, close | limits checked before an `await`; close clears tables under calls | places are returned, ids run once, sessions serve their principal, a closed host is over |
| Resources (`resources`) | corpus, revisions, readiness verdicts | provision, ingest, index, retire, probe, invalidate, retrieve | batches refused in part or cut; a probe that outlives a mutation | what is served is whole and what was bound; a cached verdict describes it |

Components interact by direct calls: the hosts call the runtime; the runtime
calls the pipeline (which calls the approval store and the emitter), the
provider registry for models and the gateway for delegation; the gateway reads
the local registry and the catalog; the registration service drives the
catalog; an outgoing call takes its token from the cache. `PROJECT.json` lists
every component, the ones left out with the reason, and under `hazards` each
line where something can go wrong that a unit test would hardly reach.

## 2. Modules

| Module | Models | State and actions |
|---|---|---|
| `ManagedCatalog` | `core/catalog/_lifecycle.py`, `_managed.py`, `_admission.py` | each public method of `AgentCatalog` is one action (one lock); legacy methods act on an earlier clock value because they read it before they take the lock |
| `InstanceAuthority` | what the catalog promises for one identity | vacant, active, draining, then dead for good; generations only grow |
| `Registration` (over `ManagedCatalog`) | `registration/client.py`, `asgi.py`, `service.py` | clients and their overlapping attempts; an attempt goes from evidence to card to catalog to evidence; the sweep |
| `HybridGateway` (over `ManagedCatalog`) | `core/gateway/_hybrid.py` | calls that select, bind, re-validate and try one instance after the other while every action of the catalog may come between |
| `LocalRegistry` | `core/registry.py` | each locked operation is one action; names, generations, lifecycle, health |
| `Delegation` (over `LocalRegistry`) | `core/delegation/*`, `core/gateway/_local.py`, `_discovery.py`, `_bindings.py`, the budget and path of `core/run_context.py` | the invocations of one tree: loops, their toolboxes and tool calls, the calls they dispatch; registry, deadline and cancellation are the environment |
| `ProviderRegistry` | `core/provider_registry/*` | each locked section is one action; constructors, users, closes and the shutdown pass are processes |
| `ModelCompletion` | `core/provider/execution.py`, `errors.py`, `providers/*` | runs of several turns over one adapter; a try, a response, either timer, a cancellation, a closer's step |
| `A2AHost` | `a2a/lifecycle.py`, `asgi.py`, `transport/tasks.py`, the shielded execution of `a2a/runtime.py` | a step ends where the handler can suspend; guards, sends, cancels, drain, close and sweep are processes |
| `RequestBoundary` | `a2a/hardening.py`, `guard.py` and the limiter of `lifecycle.py` | what a scope may say and what the application sees of it; the pump, the application, the buffer, the guard |
| `A2AMessages` | `a2a/runtime.py` | deliveries, the executions they share, the advertised binding |
| `McpHost` | `mcp/http.py`, `mcp/server.py` | openings, sessions, calls; drain and close of either transport |
| `Invocation` | `core/invocation.py`, `runtime_invocation.py`, `run_context.py`, `model_gateway.py` | a tree of invocations: coroutine, execution task, thread, tracked model call; deadline and cancellation are steps of the environment |
| `AuditEmitter` | `security/audit.py` | one queue per delivery state of a task (its lock and its count of users), the bounded buffer, outcomes of the sink |
| `ApprovalFlow` (over `AuditEmitter`) | `security/approval.py`, `approval_token.py`, `pipeline.py`, the resumptions in `core/runtime_invocation.py` | calls that emit evidence between the decision and the execution it allows |
| `OneShotApproval` | what an approval promises | none, asked, granted, spent or void; at most one execution |
| `TokenExchange` | `security/tokens.py`, `trust.py`, `transport/auth.py` | requests: authenticate, ask, wait in the line of an entry's lock, recheck, acquire; a lock is named by the request that made it and whether it did so when it asked or when it stored a token |
| `DataSources` | `resources/*` | operators' calls in two steps (effect, invalidation), probes, the gate and its cache, readers |
| `ManagedCatalog_proofs`, `ApprovalFlow_proofs`, `Delegation_proofs` | | TLAPS proofs about the module they are named for |
| `CatalogUsers_proofs` | | about what drives the catalog: `HybridGateway`, `Registration` |
| `Providers_proofs` | | about `ProviderRegistry` and `ModelCompletion` |
| `Execution_proofs` | | about an execution and the resources it reads: `Invocation`, `DataSources` |
| `Hosts_proofs` | | about where requests enter: `RequestBoundary`, `McpHost`, `A2AHost` |
| `Inbound_proofs` | | about what an inbound request depends on: `A2AMessages`, `TokenExchange` |
| `MC*` | | values and symmetry; `MCProviders`, `MCHosts`, `MCInbound` also put several modules behind one run |

The last three `MC` modules choose a `part` in their initial states: a behaviour is one of
that part, the others stand still, and fairness is restated for each part. The
parts share no state in the model: what a run of such a module shows, it shows
of each part. `MCDelegation` chooses a `scene`: the same specification, once with
a deep loop over a registry that stands still, once with short loops over one that
changes, as both at a time are too many states. Both scenes only restrict `Next`.

How state maps to code is said at each `VARIABLES` declaration. Some choices
that matter:

- `ManagedCatalog`: a card stands for the digest and versions of an entry, and
  `Upgrades` for what `AdmissionPolicy.validate` accepts. Lease handles are
  unguessable, so a command says only whether it has the right one.
- `Registration`: policy and credentials are a free refusal; a failed card
  retrieval is one answer. An attempt goes on in the service after its client
  gave it up. Step for step the catalog does what `ManagedCatalog` does.
- `HybridGateway`: one capability is asked for, and the card of an agent stands
  for its schema digest. What the gateway does for a local candidate is in
  `Delegation`; here it competes in the selection. A failed attempt says what it
  proves: refused, uncertain or cancelled.
- `Delegation`: the toolbox of a turn is all that discovery may return, for what
  policy, scopes and sizes leave out is what the model never picks; a decision
  that is not admissible is `GivesUp`. The tasks and threads of an execution are
  in `Invocation`.
- `ProviderRegistry`: health predicates, provider types and the number of
  parallel closes are left out; availability is a free choice of `Resolve`.
- `ModelCompletion`: building a request is one step with sending it, reading a
  response with its answer, as the code suspends in neither. `check_readiness`
  is left out. A server gives a call an ID of a small set that all runs share, or
  none, and the adapter takes it as it is. The IDs it makes itself are hashes and
  assumed not to collide, with each other or with those that servers give.
- `A2AHost`: contents of messages are left out, a rejected task counts as
  failed. The repository's lock is never held across a suspension, so lookup
  and claim are one step; `create` suspends in the eviction callback.
- `RequestBoundary`: an address is a peer's, or one that a proxy gives for the
  client it speaks for. Bytes and chunks are one unit; nothing is under the deadline
  once the response is being sent, so `ServingEnds` ends there. An application
  that outlives its request belongs to `A2AHost`.
- `A2AMessages`: the host gives a task one message at a time (`A2AHost`). A
  delivery is refused as a replay also when a message of another task has one of
  its ids. A decision about an approval comes with the authentication, not with
  the fingerprint of the message.
- `Invocation`: arguments, serialization and evidence are free choices between
  the outcomes they can have; a thread, once started, only ends by itself.
- `ApprovalFlow`: calls that are refused without changing anything are left
  out. The model suspends only at evidence and at the capability, as the code
  does; the time of expiry is a step (`Lapse`) of each challenge.
- `TokenExchange`: issuer, client and policy version are one. A principal that
  only has a certificate has no scopes to delegate.
- `DataSources`: the in-memory backend decides what a call does, in one step; the
  awaits around it are those of any backend, so calls and probes overlap. Which
  content is refused is free. A batch that repeats an unchanged item skips it.

## 3. Runs

Every configuration says `CHECK_DEADLOCK FALSE`: clocks, revisions and calls are
bounded, and a closed host, an answered call and a spent token do stop.

| Run | Question | Instance |
|---|---|---|
| `catalog` | Do the two interfaces of the catalog keep one consistent authority under retries, sweeps, fences and lapses? | one agent, two instances, one owner, two principals, two keys, one card; capacity 2, leases of 1 and 2, clock to 2, five mutations |
| `registration` | Has a request one effect, after its intent, and is success told exactly, when evidence fails and attempts overlap? | two clients, the first tries twice; register against renew, drain or deregister; two keys, capacity 2, leases of 1 and 2, clock to 1, two mutations, one service that sweeps |
| `hybrid` | Can failover make two instances accept one call, or lie about it, while the catalog changes? | one agent, two instances, two cards, two calls with a budget of one, failover, two modes; clock to 1, four mutations |
| `delegation` | Do concurrent loops share one budget and reach what they discovered, with honest outcomes, while the registry changes? | two roots, one agent with two capabilities and a replacement, two registrations, a budget of three calls and three tokens for the tree, model calls of one or two tokens, tool calls of one; calls succeed or fail in execution. Registry still: a slot more than the budget allows calls, the loop that must delegate has four turns, two tools, three call IDs and seven tokens, the other two turns. Registry moving: two slots for calls, which loop too, loops of two turns and one tool call, all under one ID |
| `provider_registry` | Can a client be closed under a call, while published or twice? Can an overtaken factory publish? | two references, two clients, one constructor, one user, a shutdown that may reach its deadline, three mutations |
| `providers` | Are a shutdown's report and an error's claims true, do results meet their calls, does everything end? | two references, one client, one constructor, one user, a deadline, two mutations; or conversations of two turns, two over a lent client of the OpenAI-compatible adapter and one, with a deadline, over an owned one of the Ollama adapter; one ID that servers give, to any call; two tries, a cache of two, two closers |
| `a2a_host` | Does every race of sends, cancels, disconnects, deadlines, evictions and the sweep leave tasks in order? | three tasks, room for two, two requests, pages of one |
| `hosts` | Are shares and answers exact, identities sound, and does everything come to rest? | two A2A requests for one task and one slot with a startup check; or two principals, two sessions, two calls with one request id on one place over HTTP or stdio; or two requests at a boundary for two, one of each caller, five forms of scope, two deployments |
| `invocation` | Is every answer true, and is nothing left behind? | a delegating coroutine, its synchronous child, two rivals for the lock of that child (one of another run, without deadline); two of the four begin; two workers |
| `inbound` | Is an approval spent once with its evidence; does a token grow or lapse; does a message run once? | three callers, a challenge for two roles and one for a single role, an approving and a denying token, one task, a buffer of one, two failed deliveries; or three requests over a cache of one token at an agent that asks for certificates, clock to 2, lives to 2, a skew of 1; or three deliveries of three messages that share ids, two generations |
| `data_sources` | Is what is served whole and what was bound, and do verdicts describe it? | two operators, one reader, two configurations, two items, two batches, verdicts that last 1, clock to 1, two revisions |
| `completion_timed_out` | (violation) is a call reported as cancelled only when its caller cancelled it? | as `providers`, with three mutations |

The symmetry of the configurations permutes model values nothing distinguishes,
and only in runs without liveness properties.

The bounds are the smallest at which each race exists: two of whatever
competes, capacity one short of what asks for it, one lapse after a lease, one
failure more than the buffer holds, a second instance to fail over to, a third
request to find what two left in the cache. Conflicts of owners and cards, which
the `catalog` instance has only one of, are covered by the proofs, which hold for
any constants. Each property has a mutant in `PROJECT.json`: a plausible bug in
the mapped definition with which TLC finds the property violated.

### What the properties say

Each is stated above its definition. The ones a reader should look at first:

- *Refinements*: `GrantsFollowAuthority` (the catalog implements
  `InstanceAuthority` for every identity) and `ApprovalsAreOneShot` (approvals
  implement `OneShotApproval`).
- *Repetition*: `ReplayTellsTheTruth`, `ExecutedOnceAfterIntent`,
  `OneExecutionOneAnswer`, `AcceptedOnce`, `RetriesStopInTime`: at five
  places something is tried again, and each says what repeating may not do.
- *Telling the truth*: `SuccessIsTold`, `AnswersSayWhatRan`, `AnswersAreHonest`,
  `SuccessIsHonest`, `SuccessMeansClosed`, `AnsweredOnceAndWhole`.
- *Staleness*: `DiscoveryServesGrants`, `NoOvertakenPublication`,
  `DiscoveredInstanceRuns`, `VerdictsDescribeTheCorpus`, `OnlyWhatWasApprovedRuns`,
  `ServedTokensAreSound`.
- *Accounts*: `LedgerBalances`, `SharesAreExact`, `CallsAreAccounted`.

Some are conjunctions of named parts, as `HostsComeToRest`; the parts are
definitions of the module they are about.

### Fairness

Of each module in its own specification, restated per part in `MCProviders` and
`MCHosts`:

- `ProviderRegistry`: cleanup tasks run, closes that were started end or time
  out, `acquire` and `release` return, deadlines pass, and the shutdown pass goes
  on: all are tasks or timers of a running event loop. With a deadline nothing is
  assumed of factories or of calls that hold leases.
- `ModelCompletion`: what is ready runs, the timer around a try fires (the model
  gateway sets a timeout on every call), a closer whose turn it is goes on, and the
  HTTP client's close ends. Nothing is assumed of servers.
- `A2AHost`: publication, the capability deadline (a timer), the bounded waits of
  drain and close, and the sweep. Executions may run for ever.
- `McpHost`: a cancelled call ends, the grace period passes, `aclose` goes on. Calls
  nobody cancels may run for ever.
- `RequestBoundary`: the guard resumes when its wait is over, and the bounded wait
  for a cancelled application ends. Clients and applications may do nothing.
- `Invocation`: coroutines that can go on do, deadlines are timers, evidence is
  bounded by the timeout of its policy, and a worker gets a cancellation.
  Capabilities, models and threads may take for ever.
- `Registration`: the host calls `expire()` again and again, and the sink accepts an
  expiry that is offered again and again (strong fairness: it may fail in between).
- `ManagedCatalog`, `HybridGateway`, `Delegation`, `DataSources`, `A2AMessages`,
  `TokenExchange`, `ApprovalFlow` have no liveness property.

## 4. What is proved

Eight modules are checked by TLAPS to the last leaf, for every value of the
constants. They assume nothing but the `ASSUME`s of the modules they are about,
which TLC evaluates on every run. `PROJECT.json` lists the theorems, with the
property of a run each one states. What a run shows on a small instance, the
theorem of the same property shows for all; its inductive invariant says why.

- **Catalog** (`ManagedCatalog_proofs`). The types, the mirror of ledger and
  registrations (`LedgerMirrorsCatalog`), the soundness of discovery, the
  refinement of `InstanceAuthority`, the single report of an expiry
  (`ExpiryEvidenceOnce`), the receipt budget (`ReceiptBudget`), the truth of
  replays and the admission of terminal commands. Few of these are inductive
  alone. The argument sorts the steps into kinds (expiring, fencing, commands),
  shows for each identity the steps of its life, and adds that receipts of dead
  identities are terminal and that receipts are current, without which a replay
  could not be judged.
- **Hybrid gateway** (`CatalogUsers_proofs`). `LoopInv` says of a call under way
  that what it tries, what is left to try and what refused it are apart, that
  nothing has accepted it, and that a call that was not charged was sent nowhere;
  each kind of attempt keeps it (`AttemptEnds`), whatever the catalog does.
  `AcceptedOnce` and `AnswersSayWhatRan` follow; with the sum of what is left and
  what was charged, also that a call is charged once however many instances it
  tries (`ChargedOnce`).
- **Registration** (`CatalogUsers_proofs`). Every step of the service is a step of
  `ManagedCatalog` or leaves the catalog alone (`ServiceImplementsCatalog`), so
  every theorem about the catalog holds of the service's. `RegistrationInv` ties
  the ghost count of effects to receipts: an executed request has the receipt of
  its key, that receipt is a success its client accepts, every receipt is of a
  request that was executed once, and no attempt is about to answer "ok" without
  one. The second attempt of a request therefore finds the receipt and cannot have
  a second effect. `ExpiriesAreKept` is the safety core of `ExpiriesAreReported`:
  the evidence of an expiry is with the catalog, in the queue of a service, or
  acknowledged, whatever fails and is cancelled.
- **Provider registry** (`Providers_proofs`). `RegistryInv`: leases are as many as
  the calls that hold them, without which a release could take one from zero; a
  client is closed only by its owner, once, with nobody in it (`ClaimedOnce`);
  references and bindings mirror each other and before a shutdown nothing bound is
  being closed (`Mirrored`, `BoundAreOpen`); what the shutdown pass made of a client
  stays true of it (`Judged`); a construction whose reference was rebound captured an
  older generation (`Dated`). `NothingRetiredIsForgotten` says that an unused client
  of the runtime has a cleanup coming, unless the finding of section 5 took it.
- **Model calls** (`Providers_proofs`). `CompletionInv`: the first try of a call
  follows nothing that was sent, an answered call tries no more, an error that says
  "not attempted" is of a call that sent nothing, and closed means that the pool is.
  The type of errors is part of it. `CacheInv`, proved with it, is about the tool
  call cache: from its oldest to its newest no call is held twice, and behind each
  is exactly what was used since (`Ordered`); what it has forgotten had as many
  others used as it holds (`Forgotten`). It holds only calls that some run was asked
  to make, and of the calls a waiting run answers each was found (`Found`). An ID
  that is made says all of its call, so only a server can give two calls one ID
  (`OneOrReused`), which is the exception that `ToolTurnsCarryTheirCall` names. What `Translated` makes of any number of tool
  results is shown by induction (`TranslatedIsFine`): `SetInduction`, which follows
  from the well-foundedness of `<`, says that a set with zero and every successor
  holds all numbers, and needs no operator as a parameter. The same induction
  shows that the recursive function of `Translated` exists (`TranslationExists`).
- **Invocation** (`Execution_proofs`). Types, honest answers, exclusion of threads
  (`OneAtATime`), the end of waited-for work and the death of a context. The
  inductive invariant is a predicate per invocation that ties the phase of its
  coroutine to the state of its execution task; each action is a lemma about what
  it does to one invocation, and one lemma says the others stay sound.
- **Data sources** (`Execution_proofs`). `SourceInv`: no binding is ahead of its
  source, and one that is level with it was issued for the corpus that is there
  (`Dated`), as revisions are never given out again; a verdict that no mutation has
  overtaken describes the source, with its reader (`JudgedTruly`) and, once every
  mutation was followed by its invalidation, in the cache (`CachedTruly`). What a
  batch does is two lemmas: applying it either changes nothing or leaves an item
  that is accepted and not indexed (`AppliedIs`), and only then may settling keep
  the source INDEXED (`SettledIs`).
- **Delegation** (`Delegation_proofs`). *The tree* (`TypedTree`): slots are taken in
  order, and a loop that waits has a latest call whose answer stays until it is
  taken; the types are not inductive without it. Two lemmas then carry every
  theorem: a step of a slot other than `Dispatch` touches no other slot but the
  answer it takes (`StepLocal`), and `Dispatch` adds one fresh call
  (`DispatchTakes`), which is what the ledger counts. *Promises*: a binding held in
  any toolbox is of the instance its generation names, as generations are never
  given out twice. *Chains*: an admitted frame is not on the path of its loop
  (`ChainsAreFinite`). The budget is never overdrawn because `Dispatch` asks for it in
  the step that takes it. *Books*: what the counters of a loop that has not failed say
  of its results.
- **Approvals** (`ApprovalFlow_proofs`). The inductive invariant has three parts.
  *Types.* *The emitter*: a delivery state that is no longer held, or not the last
  one, ended with a terminal event and an empty queue; joining and leaving the queue
  keep that (`JoinedSound`, `LeftSound`). *Holders*: a call holds its approval from
  the decision that granted it until it answers without having run, or for good once
  it ran; an approval has one holder at most, is `approved` while its holder emits,
  and `completed` from then on. A second execution would need a second holder. From
  these follow the theorems, `ApprovalsSpentOnce` (every step is a step of
  `OneShotApproval` or a stutter) among them.
- **Request boundary** (`Hosts_proofs`). `BoundaryInv`: slots are as many as the
  requests in service, in all and of each caller; the application of a request in
  service sees its scope sanitized; how often a request was answered follows from
  where its guard is, and what a buffer hands on from how its application ended.
- **MCP host** (`Hosts_proofs`). `McpInv`: the places of a session are those of its
  unfinished calls, and a closed host has no table of them; an accepted call is of
  its session's principal; what ran is remembered until the close and no two calls
  ran the same id.
- **A2A host** (`Hosts_proofs`). `HostInv`: a working task has one owner, and whoever
  owns a task works on one that was claimed; what a closed host has left are
  executions that unwind, each a victim of the close as long as that waits, none once
  it saw them all end. `TasksMoveForward` is an action property from the same
  invariant.
- **A2A messages** (`Inbound_proofs`). `MessagesInv`: the replay table and the
  executions mirror each other (`Recorded`), who waits waits for its own message's
  execution and who was answered got its result (`Served`), the host handles one
  message of a task at a time (`OneMessagePerTask`), `cancel` finds the execution
  under way (`Reachable`), and what runs as approved was challenged (`Bound`,
  `Approved`).
- **Tokens** (`Inbound_proofs`). `TokenInv`: an entry of the cache answers the key it
  is found by, whoever put it there; a request acts within the identity its bearer
  gave it; the lines of the locks hold the requests at work, each once, in the line
  of its own lock, although entries and their locks are replaced meanwhile.

Proved but in no run, which the instances would only repeat: the type invariants
and `LedgerMirrorsCatalog`, `ExpiryEvidenceOnce`, `ReceiptBudget`, `OneAtATime`,
`EvidenceInOrder`, `ApprovedIsBeingConsumed`, `ChainsAreFinite`, `ChargedOnce`,
`RetiredClientAwaitsCleanup`, `ClosedMeansPoolClosed`, `ExpiriesAreKept` and the
refinement of the catalog by the service.

Only model-checked: liveness (`DeadlineAnswers`, `ProvidersComeToRest`,
`HostsComeToRest`, `ExpiriesAreReported`), which is beyond the prover. Every
invariant and every action property of the passing runs is a theorem. No module
declares a recursive operator.

Two statements changed because a proof attempt failed. That a delivery is refused
as a replay only when the execution it meets has other arguments, or when it meets
two (`OneExecutionOneAnswer`), is false if a message of another task shares one of
its ids: the property now has that case. And the names of locks in `TokenExchange`
now tell the one a request makes when it asks from the one it makes when it stores.

## 5. Findings

A run shows one disagreement of the code with its own text; `PROJECT.json`
quotes both.

- `completion_timed_out` (`core/provider/execution.py:112`): the timer around a
  try cancels the adapter, which turns the cancellation into
  `ProviderCancellationError`: a call that timed out is reported as cancelled by
  its caller and is never retried.

Others are stated by definitions that no run checks, because the code violates
them; each can be checked by adding it to the cfg of its module's run.

| Definition | Where | What happens |
|---|---|---|
| `EveryResultMeetsItsCall` (`ModelCompletion`) | `providers/_tool_cache.py:33`, against `:14` | the cache is keyed by the ID a server gives, of all runs; one that names two calls alike gets a result behind the message of the later call. The delegation loop refuses a repeated ID, but only its own (`core/delegation/_loop.py:259`) |
| `SentToHealthyInstances` (`HybridGateway`) | `core/gateway/_hybrid.py:410`, against `docs/gateway-and-discovery.md:142` and `:109` | the instances of a bound agent are chosen by deployment and transport; one that a sweep found lapsed or that is draining is still called |
| `CleanupOutlivesItsWaiter` (`ProviderRegistry`) | `core/provider_registry/cleanup.py:228`, against `:50` | cancelling a release before its cleanup task took a step loses the cleanup |
| `NeverRevived` (`A2AHost`) | `a2a/lifecycle.py:204`, against `:183` | `startup` assigns READY after an await during which the host may have been drained or closed |
| `TimedOutWorkIsCancelled` (`Invocation`) | `core/invocation.py:421`, against `docs/runtime-and-invocation.md:80` | a deadline that passed before the first wait raises outside the block that cancels the execution |
| `SequenceOrdersTask` (`AuditEmitter`) | `security/audit.py:331`, against `docs/security-and-governance.md:98` | a terminal event does not end a task, but its numbering |
| `OneAcquisitionPerKey` (`TokenExchange`) | `security/tokens.py:546`, against `:473` | an entry is replaced with a new lock, and another's placeholder evicted, while requests wait for the old lock |
| `SessionsWithinLimit`, `RefusedOnlyAtTheLimit` (`McpHost`) | `mcp/http.py:346`, against `docs/mcp-export.md:175` | the limit is checked before an await and the session added after it; expired sessions stay counted |
| `StaleVerdictsEnd` (`DataSources`) | `resources/readiness.py:334`, against `resources/lifecycle.py:82` | a probe that a mutation overtook is cached after the invalidation |
| `ReadyIsWhole` (`DataSources`) | `resources/adapters/in_memory.py:237`, against `docs/data-source-lifecycle.md:75` | a budget that cuts a batch between two items raises before the state of the source is set: it stays ready over an incomplete corpus |

Met while modelling, with no definition of their own: the slot of a capability
in the A2A host is freed while its shielded execution runs on (`a2a/asgi.py:203`,
against `docs/a2a-server.md:351`); the report of the registry's `aclose` omits a
construction whose reference some client is already bound to
(`core/provider_registry/lifecycle.py:250`); a failed close of `BoundedHttpClient`
is final although a later close is meant to try again (`providers/_http.py:86`, against
`providers/_lifecycle.py`);
`complete_model_call` can let `ProviderCancellationError` replace the caller's
`CancelledError` (`core/model_gateway.py`); and `aclose` of the MCP host
clears the table that calls under way still decrement (`mcp/http.py:450`).

## 6. Not modelled, and the plan

Left out for good: catalog providers and snapshots (they feed entries to the
modelled `register_instance`), provider configuration, container and factory
wiring, decorators and schemas, request parsing, cards, signatures and key
resolution, guardrails, telemetry, transport types and TLS settings, the
orchestrator (a sequence of three modelled calls without state of its own), test
doubles and examples. They are stateless, import-time or pure I/O;
`PROJECT.json` says so for each. Parts of modelled components that are left out
are named in its notes: the fallback between models and structured output of the
model gateway, `select` of the local gateway, reading and streaming of A2A tasks,
the schema translation of MCP.

Done: `ManagedCatalog` with `InstanceAuthority`; `ProviderRegistry`; `A2AHost`;
`Invocation`; `ApprovalFlow` over `AuditEmitter` with `OneShotApproval`;
`Delegation` over `LocalRegistry`; `HybridGateway` and `Registration` over
`ManagedCatalog`; `DataSources`; `McpHost`; `A2AMessages`; `ModelCompletion`;
`TokenExchange`; `RequestBoundary`.

To come: the fallback between models, over `ModelCompletion` and `ProviderRegistry`.
