------------------------------ MODULE McpHost ------------------------------
(***************************************************************************)
(* The MCP adapters (mcp/http.py, mcp/server.py): one host that serves tool  *)
(* calls over authenticated HTTP sessions or over stdio, and its drain and   *)
(* close while calls run.  The SDK's session manager, which mints, expires   *)
(* and ends sessions, is external.                                          *)
(*                                                                         *)
(* Everything runs on one event loop: a step goes from one await to the next.*)
(***************************************************************************)
EXTENDS Integers, FiniteSets

CONSTANTS Transports,      \* the transports a behaviour may use
          Principals, Sessions, RequestIds, Calls, Openings, NoOne,
          MaxSessionsPerPrincipal, MaxConcurrentRequests, MaxReplayIds,
          CancelOnDrain    \* cancel_on_drain of the stdio server

ASSUME McpAssumption ==
  /\ Transports \subseteq {"http", "stdio"} /\ NoOne \notin Principals
  /\ IsFiniteSet(Sessions) /\ IsFiniteSet(Calls)
  /\ {MaxSessionsPerPrincipal, MaxConcurrentRequests, MaxReplayIds} \subseteq Nat \ {0}
  /\ CancelOnDrain \in BOOLEAN

VARIABLES
  transport,   \* the transport of this host
  draining, closed,
  stopping,    \* how far drain() or aclose() is
  bound,       \* _sessions: the authorization of each session
  counted,     \* _principal_sessions
  replayIds,   \* _replay_ids
  inFlight,    \* _in_flight of HTTP: a count per session, Absent without one
  active,      \* _active_calls, or _in_flight of stdio: the tasks of the calls
  alive,       \* SDK: the sessions it serves
  minted,      \* SDK: the sessions it ever opened
  opening,     \* each initialize request
  call,        \* each tools/call request
  ran          \* history: <<session, request id>> of each call that ran, by call

tables == <<bound, counted, replayIds, inFlight>>
life == <<draining, closed, stopping>>
mcpVars == <<transport, life, tables, active, alive, minted, opening, call, ran>>

Absent == -1
NoCall == [stage |-> "idle", principal |-> NoOne, session |-> NoOne, rid |-> NoOne]
Ready == ~draining /\ ~closed
InStage(c, stage) == call[c].stage = stage
Goes(c, stage) == call' = [call EXCEPT ![c].stage = stage]
Ended == {"answered", "refused", "cancelled", "crashed"}
UnfinishedCalls == {c \in Calls : call[c].stage \in {"running", "cancelling"}}

McpInit ==
  /\ transport \in Transports
  /\ draining = FALSE /\ closed = FALSE /\ stopping = "no"
  /\ bound = [s \in Sessions |-> NoOne] /\ counted = [p \in Principals |-> {}]
  /\ replayIds = [s \in Sessions |-> {}] /\ inFlight = [s \in Sessions |-> Absent]
  /\ active = {} /\ alive = {} /\ minted = {}
  /\ opening = [o \in Openings |-> [stage |-> "idle", principal |-> NoOne, kept |-> TRUE]]
  /\ call = [c \in Calls |-> NoCall] /\ ran = [c \in Calls |-> {}]

-----------------------------------------------------------------------------
(* Opening a session over HTTP.                                             *)

\* __call__, up to the awaited authorization resolver.
ArriveOpening(o, p) ==
  /\ transport = "http" /\ opening[o].stage = "idle" /\ Ready
  /\ opening' = [opening EXCEPT ![o] = [stage |-> "authenticating", principal |-> p, kept |-> TRUE]]
  /\ UNCHANGED <<transport, life, tables, active, alive, minted, call, ran>>

\* The limit is checked, then the SDK is awaited.
CheckLimit(o) ==
  /\ opening[o].stage = "authenticating"
  /\ opening' = [opening EXCEPT ![o].stage =
       IF Cardinality(counted[opening[o].principal]) >= MaxSessionsPerPrincipal
       THEN "limited" ELSE "opening"]
  /\ UNCHANGED <<transport, life, tables, active, alive, minted, call, ran>>

\* The SDK opened a session: it is bound, and counted in the set the limit was
\* read from, which aclose() may have dropped meanwhile.
Opened(o, s) ==
  LET p == opening[o].principal IN
  /\ opening[o].stage = "opening" /\ s \notin minted
  /\ minted' = minted \cup {s} /\ alive' = alive \cup {s}
  /\ bound' = [bound EXCEPT ![s] = p]
  /\ counted' = IF opening[o].kept THEN [counted EXCEPT ![p] = @ \cup {s}] ELSE counted
  /\ opening' = [opening EXCEPT ![o].stage = "open"]
  /\ UNCHANGED <<transport, life, replayIds, inFlight, active, call, ran>>

\* The resolver raises, or the SDK refuses: no session header, nothing is bound.
NotOpened(o) ==
  /\ opening[o].stage \in {"authenticating", "opening"}
  /\ opening' = [opening EXCEPT ![o].stage = "failed"]
  /\ UNCHANGED <<transport, life, tables, active, alive, minted, call, ran>>

\* The session is idle for too long, or its client deletes it.
SessionEnds(s) ==
  /\ s \in alive
  /\ \A c \in Calls : call[c].session = s => call[c].stage \in Ended
  /\ alive' = alive \ {s}
  /\ UNCHANGED <<transport, life, tables, active, minted, opening, call, ran>>

-----------------------------------------------------------------------------
(* Tool calls.                                                              *)

\* A request that names a session; stdio has one session and one principal.
ArriveCall(c, p, s, r) ==
  /\ InStage(c, "idle")
  /\ transport = "http" => Ready /\ s \in minted
  /\ call' = [call EXCEPT ![c] =
       IF transport = "stdio" THEN [NoCall EXCEPT !.stage = "accepted"]
       ELSE [stage |-> "authenticating", principal |-> p, session |-> s, rid |-> r]]
  /\ UNCHANGED <<transport, life, tables, active, alive, minted, opening, ran>>

SameIdentity(c) == bound[call[c].session] = call[c].principal

\* The session must be bound to this identity and be one the SDK still serves.
Identify(c) ==
  /\ InStage(c, "authenticating")
  /\ Goes(c, IF SameIdentity(c) /\ call[c].session \in alive THEN "accepted" ELSE "refused")
  /\ UNCHANGED <<transport, life, tables, active, alive, minted, opening, ran>>

InFlightOf(s) == IF inFlight[s] = Absent THEN 0 ELSE inFlight[s]
\* What _on_call_tool of the HTTP server checks, without an await.
Admitted(c) ==
  LET s == call[c].session IN
  /\ bound[s] # NoOne
  /\ call[c].rid \notin replayIds[s] /\ Cardinality(replayIds[s]) < MaxReplayIds
  /\ InFlightOf(s) < MaxConcurrentRequests

\* _on_call_tool, up to the awaited exporter.
Begin(c) ==
  LET s == call[c].session IN
  /\ InStage(c, "accepted") /\ Ready
  /\ IF transport = "stdio" THEN UNCHANGED <<replayIds, inFlight>>
     ELSE /\ Admitted(c)
          /\ replayIds' = [replayIds EXCEPT ![s] = @ \cup {call[c].rid}]
          /\ inFlight' = [inFlight EXCEPT ![s] = InFlightOf(s) + 1]
  /\ active' = active \cup {c}
  /\ ran' = [ran EXCEPT ![c] = IF transport = "http" THEN {<<s, call[c].rid>>} ELSE {}]
  /\ Goes(c, "running")
  /\ UNCHANGED <<transport, life, bound, counted, alive, minted, opening>>

Refuse(c) ==
  /\ InStage(c, "accepted") /\ (~Ready \/ (transport = "http" /\ ~Admitted(c)))
  /\ Goes(c, "refused")
  /\ UNCHANGED <<transport, life, tables, active, alive, minted, opening, ran>>

\* Mutant: a call that fails keeps its place.
KeepsItsPlace(c, outcome) ==
  /\ inFlight' = [inFlight EXCEPT ![call[c].session] = IF outcome = "cancelled" THEN @ ELSE @ - 1]
  /\ active' = active \ {c} /\ Goes(c, outcome) /\ UNCHANGED replayIds
\* The finally block.  After aclose() cleared the table it has no entry to
\* decrement: KeyError takes the place of the outcome and the task stays listed.
Finally(c, outcome) ==
  LET s == call[c].session IN
  /\ UNCHANGED replayIds
  /\ IF transport = "http" /\ inFlight[s] = Absent
     THEN Goes(c, "crashed") /\ UNCHANGED <<inFlight, active>>
     ELSE /\ transport = "http" => inFlight' = [inFlight EXCEPT ![s] = @ - 1]
          /\ transport = "stdio" => UNCHANGED inFlight
          /\ active' = active \ {c} /\ Goes(c, outcome)

\* The exporter returns or raises; the task was cancelled, and obeys or not.
EndCall(c) ==
  /\ InStage(c, "running") /\ Finally(c, "answered")
  /\ UNCHANGED <<transport, life, bound, counted, alive, minted, opening, ran>>
EndCancelled(c) ==
  /\ InStage(c, "cancelling") /\ \E outcome \in {"answered", "cancelled"} : Finally(c, outcome)
  /\ UNCHANGED <<transport, life, bound, counted, alive, minted, opening, ran>>
\* The client cancels its request, or disconnects.
ClientCancels(c) ==
  /\ InStage(c, "running") /\ Goes(c, "cancelling")
  /\ UNCHANGED <<transport, life, tables, active, alive, minted, opening, ran>>

-----------------------------------------------------------------------------
(* drain and aclose.                                                        *)

CancelledCall(tasks) ==
  [c \in Calls |-> IF c \in tasks /\ InStage(c, "running") THEN [call[c] EXCEPT !.stage = "cancelling"]
                   ELSE call[c]]

\* Over HTTP drain() sets the flag and returns.
HttpDrain ==
  /\ transport = "http" /\ ~draining /\ draining' = TRUE
  /\ UNCHANGED <<transport, closed, stopping, tables, active, alive, minted, opening, call, ran>>

HttpClose ==
  /\ transport = "http" /\ ~closed
  /\ draining' = TRUE /\ closed' = TRUE /\ stopping' = "gathering"
  /\ bound' = [s \in Sessions |-> NoOne] /\ counted' = [p \in Principals |-> {}]
  /\ replayIds' = [s \in Sessions |-> {}] /\ inFlight' = [s \in Sessions |-> Absent]
  /\ opening' = [o \in Openings |-> [opening[o] EXCEPT !.kept = @ /\ opening[o].stage # "opening"]]
  /\ call' = CancelledCall(active)
  /\ UNCHANGED <<transport, active, alive, minted, ran>>

AllOver == UnfinishedCalls = {}
HttpClosed ==
  /\ transport = "http" /\ stopping = "gathering" /\ AllOver
  /\ stopping' = "closed"
  /\ UNCHANGED <<transport, draining, closed, tables, active, alive, minted, opening, call, ran>>

\* Stdio: drain() waits, by itself or for aclose().
StdioDrain(closing) ==
  /\ transport = "stdio" /\ ~closed
  /\ stopping \in {"no", "drained"} \/ (stopping = "draining" /\ closing)
  /\ draining' = TRUE
  /\ stopping' = IF closing THEN "closing" ELSE "draining"
  /\ UNCHANGED <<transport, closed, tables, active, alive, minted, opening, call, ran>>

\* The calls are over, or the grace period is and they are cancelled if the
\* policy says so.  aclose() goes on to cancel the task that serves them.
GraceOver ==
  /\ stopping \in {"draining", "closing"}
  /\ call' = IF CancelOnDrain \/ stopping = "closing" THEN CancelledCall(active) ELSE call
  /\ closed' = (stopping = "closing")
  /\ stopping' = IF stopping = "closing" THEN "gathering" ELSE "drained"
  /\ UNCHANGED <<transport, draining, tables, active, alive, minted, opening, ran>>

\* The task that serves ends when its calls did.
StdioClosed ==
  /\ transport = "stdio" /\ stopping = "gathering" /\ AllOver
  /\ stopping' = "closed"
  /\ UNCHANGED <<transport, draining, closed, tables, active, alive, minted, opening, call, ran>>

-----------------------------------------------------------------------------
McpNext ==
  \/ \E o \in Openings : \/ CheckLimit(o) \/ NotOpened(o)
                         \/ (\E p \in Principals : ArriveOpening(o, p))
                         \/ (\E s \in Sessions : Opened(o, s))
  \/ \E s \in Sessions : SessionEnds(s)
  \/ \E c \in Calls : \/ Identify(c) \/ Begin(c) \/ Refuse(c) \/ EndCall(c) \/ EndCancelled(c)
                      \/ ClientCancels(c)
                      \/ (\E p \in Principals, s \in Sessions, r \in RequestIds : ArriveCall(c, p, s, r))
  \/ HttpDrain \/ HttpClose \/ HttpClosed
  \/ (\E closing \in BOOLEAN : StdioDrain(closing)) \/ GraceOver \/ StdioClosed

\* A cancelled call ends, the grace period ends, aclose() goes on; a call that
\* nobody cancels may run for ever.
McpFairness ==
  /\ \A c \in Calls : WF_mcpVars(EndCancelled(c))
  /\ WF_mcpVars(GraceOver) /\ WF_mcpVars(HttpClosed) /\ WF_mcpVars(StdioClosed)
McpSpec == McpInit /\ [][McpNext]_mcpVars /\ McpFairness

-----------------------------------------------------------------------------
(* Properties.                                                              *)

\* Until the host closes, _in_flight counts the calls that run in a session,
\* however they end: a session never loses a place or gains one.
PlacesAreReturned ==
  transport = "http" /\ ~closed =>
    \A s \in Sessions :
      InFlightOf(s) = Cardinality({c \in UnfinishedCalls : call[c].session = s})

\* A request id runs once in a session, however its first call ended.
IdsRunOnce ==
  transport = "http" =>
    \A c, d \in Calls : c # d => ran[c] \cap ran[d] = {}

\* A call that runs is made by the principal its session was opened for.
Owner(s) == {opening[o].principal : o \in {x \in Openings : opening[x].stage = "open"}}
SessionsServeTheirPrincipal ==
  transport = "http" =>
    \A c \in UnfinishedCalls : closed \/ bound[call[c].session] = call[c].principal

\* When aclose() has returned no call runs and none begins.
ClosedMeansOver == stopping = "closed" => UnfinishedCalls = {}

\* Failed, cancelled and repeated calls leave the accounts of a session right,
\* and a closed host has none left.
CallsAreAccounted ==
  PlacesAreReturned /\ IdsRunOnce /\ SessionsServeTheirPrincipal /\ ClosedMeansOver

\* aclose() returns, and drain() of a cancelling stdio host ends its calls.
ClosesCome == stopping \in {"gathering", "closing"} ~> stopping = "closed"
DrainedWorkEnds == transport = "stdio" /\ draining /\ CancelOnDrain ~> UnfinishedCalls = {}

\* A principal is refused a session only while it has as many as it may.
RefusedOnlyAtTheLimit ==
  [][\A o \in Openings :
       opening[o].stage = "authenticating" /\ opening'[o].stage = "limited" =>
         Cardinality({s \in alive : bound[s] = opening[o].principal}) >= MaxSessionsPerPrincipal]_mcpVars
\* It never has more.
SessionsWithinLimit ==
  \A p \in Principals : Cardinality({s \in alive : bound[s] = p}) <= MaxSessionsPerPrincipal
=============================================================================
