---------------------------- MODULE HybridGateway ----------------------------
(***************************************************************************)
(* HybridAgentGateway: discovery in the local registry and the remote       *)
(* catalog, and the dispatch of a remote binding with its failover          *)
(* (core/gateway/_hybrid.py), over ManagedCatalog.                          *)
(*                                                                         *)
(* The gateway reads the catalog twice, at discovery and when the binding   *)
(* is used, and goes on with what it read the second time while it tries    *)
(* one instance after the other.  The catalog changes in between: other     *)
(* threads and tasks register, renew, drain, expire and remove.             *)
(*                                                                         *)
(* One capability is asked for.  The card of an agent stands for the schema *)
(* digest of that capability.  What the gateway does for a local candidate  *)
(* is in Delegation; here it only competes in the selection.                *)
(***************************************************************************)
EXTENDS ManagedCatalog

CONSTANTS Calls,        \* the calls of one delegation tree
          LocalAgents,  \* agents of the local registry that match the query
          Preferred,    \* preferred_agents for the capability
          Modes,        \* GatewaySelectionMode of the gateways
          Reachable,    \* instances whose transport and deployment are allowed
          Failover,     \* allow_pre_acceptance_failover
          BindingTTL,   \* binding_ttl
          CallBudget,   \* DelegationBudget.calls
          NoBinding, NoTarget

SelectionModes == {"ambiguous", "local_preferred", "remote_preferred", "round_robin", "sticky"}
ASSUME GatewayAssumption ==
  /\ IsFiniteSet(Calls) /\ LocalAgents \cap Agents = {} /\ Reachable \subseteq Instances
  /\ Modes \subseteq SelectionModes /\ Failover \in BOOLEAN
  /\ BindingTTL \in Nat \ {0} /\ CallBudget \in Nat
  /\ NoTarget \notin Instances

VARIABLES
  stage,     \* where each call is
  binding,   \* the remote binding it holds
  target,    \* the instance transport.invoke is awaited for
  todo,      \* ordered_instances behind it
  refused,   \* history: instances that provably did not accept the call
  accepted,  \* history: instances that accepted the call
  answer,    \* its result
  remaining, \* the calls left in the shared budget
  charged    \* history: the calls the budget was charged for

callState == <<stage, binding, target, todo, refused, accepted, answer, remaining, charged>>
gatewayVars == <<callState, vars>>

BindingRecord ==
  [agent : Agents, generation : Nat, card : Cards, expires : Nat]
AnswerCodes == {"none", "local", "no_match", "no_eligible", "ambiguous", "denied", "timeout",
            "policy_failed", "binding_failure", "stale", "unavailable", "schema_mismatch", "exhausted",
            "result", "failure", "cancelled"}

GatewayTypeOK ==
  /\ TypeOK
  /\ stage \in [Calls -> {"new", "bound", "dispatching", "done"}]
  /\ \A c \in Calls : binding[c] \in BindingRecord \/ binding[c] = NoBinding
  /\ target \in [Calls -> Instances \cup {NoTarget}]
  /\ todo \in [Calls -> SUBSET Instances]
  /\ refused \in [Calls -> SUBSET Instances] /\ accepted \in [Calls -> SUBSET Instances]
  /\ answer \in [Calls -> AnswerCodes]
  /\ remaining \in Nat /\ charged \subseteq Calls

GatewayInit ==
  /\ Init
  /\ stage = [c \in Calls |-> "new"]
  /\ binding = [c \in Calls |-> NoBinding]
  /\ target = [c \in Calls |-> NoTarget] /\ todo = [c \in Calls |-> {}]
  /\ refused = [c \in Calls |-> {}] /\ accepted = [c \in Calls |-> {}]
  /\ answer = [c \in Calls |-> "none"]
  /\ remaining = CallBudget /\ charged = {}

-----------------------------------------------------------------------------
(* Discovery and selection.                                                 *)

\* _eligible_instances of what snapshot() lists, by the clock it read.
Offered(a, t) == {i \in Reachable : <<a, i>> \in Discoverable(t)}
RemoteMatches(t) == {a \in Agents : Offered(a, t) # {}}
\* snapshot() lists the agent, but none of its instances may be used.
Ineligible(t) == {a \in Agents : /\ Offered(a, t) = {}
                                 /\ \E i \in Instances : <<a, i>> \in Discoverable(t)}

Ends(c, result) ==
  /\ stage' = [stage EXCEPT ![c] = "done"]
  /\ answer' = [answer EXCEPT ![c] = result]
  /\ target' = [target EXCEPT ![c] = NoTarget]
  /\ todo' = [todo EXCEPT ![c] = {}]

Binds(c, a) ==
  /\ stage' = [stage EXCEPT ![c] = "bound"]
  /\ binding' = [binding EXCEPT ![c] =
       [agent |-> a, generation |-> agents[a].generation, card |-> agents[a].card,
        expires |-> now + BindingTTL]]
  /\ UNCHANGED <<target, todo, answer>>

\* _select_match and the choices before it; round robin and hashing may come
\* to any candidate.
PickFrom(matches, mode) ==
  LET from(side) == IF matches \cap side # {} THEN matches \cap side ELSE matches IN
  IF Cardinality(matches) = 1 THEN matches
  ELSE IF Preferred \in matches THEN {Preferred}
  ELSE CASE mode = "ambiguous" -> {}
         [] mode = "local_preferred" -> from(LocalAgents)
         [] mode = "remote_preferred" -> from(Agents)
         [] OTHER -> matches

\* select: policy and scopes may leave out any candidate, or fail.
Select(c, t, mode, permitted) ==
  LET matches == (RemoteMatches(t) \cup LocalAgents) \cap permitted
      picks == PickFrom(matches, mode)
  IN
  /\ stage[c] = "new"
  /\ IF matches = {}
     THEN /\ \E code \in IF Ineligible(t) # {} THEN {"no_eligible"}
                         ELSE {"no_match", "denied", "policy_failed"} : Ends(c, code)
          /\ UNCHANGED binding
     ELSE IF picks = {} THEN Ends(c, "ambiguous") /\ UNCHANGED binding
     ELSE \E a \in picks :
            IF a \in Agents THEN Binds(c, a) ELSE Ends(c, "local") /\ UNCHANGED binding
  /\ UNCHANGED <<refused, accepted, remaining, charged, vars>>

\* discover: a binding for each match; the caller uses one of them.
Discover(c, t, a) ==
  /\ stage[c] = "new" /\ a \in RemoteMatches(t)
  /\ Binds(c, a)
  /\ UNCHANGED <<refused, accepted, remaining, charged, vars>>

-----------------------------------------------------------------------------
(* invoke: the binding is judged by the registration of this moment.        *)

RevalidateCode(c) ==
  LET b == binding[c]  ag == agents[b.agent] IN
  IF now >= b.expires THEN "binding_failure"
  ELSE IF ~Registered(b.agent) THEN "stale"
  ELSE IF ag.lifecycle # "active" THEN "unavailable"
  ELSE IF ag.generation # b.generation THEN "stale"
  ELSE IF ag.card # b.card THEN "schema_mismatch"
  ELSE "ok"

\* Authorization, policies and the deadline of the run are judged anew, too.
Refuse(c) ==
  /\ stage[c] = "bound"
  /\ \/ RevalidateCode(c) # "ok" /\ Ends(c, RevalidateCode(c))
     \/ RevalidateCode(c) = "ok" /\ \E code \in {"denied", "policy_failed", "timeout"} : Ends(c, code)
  /\ UNCHANGED <<binding, refused, accepted, remaining, charged, vars>>

Charge(c) == remaining' = remaining - 1 /\ charged' = charged \cup {c}

\* _eligible_instances of what get() returns: health and lease play no part.
Dispatchable(a) == {i \in Reachable : agents[a].instances[i].present}

\* The budget is reserved before the instances are looked at.
Dispatch(c) ==
  LET instances == Dispatchable(binding[c].agent) IN
  /\ stage[c] = "bound" /\ RevalidateCode(c) = "ok"
  /\ IF remaining = 0 THEN Ends(c, "exhausted") /\ UNCHANGED <<remaining, charged>>
     ELSE /\ Charge(c)
          /\ IF instances = {} THEN Ends(c, "unavailable")
             ELSE \E i \in instances :   \* _order_instances: any may come first
                    /\ stage' = [stage EXCEPT ![c] = "dispatching"]
                    /\ target' = [target EXCEPT ![c] = i]
                    /\ todo' = [todo EXCEPT ![c] = instances \ {i}]
                    /\ UNCHANGED answer
  /\ UNCHANGED <<binding, refused, accepted, vars>>

-----------------------------------------------------------------------------
(* transport.invoke: what comes of the attempt with the current instance.   *)

\* The instance accepted the call and its result, of whatever kind, came back.
Answered(c) ==
  /\ stage[c] = "dispatching"
  /\ accepted' = [accepted EXCEPT ![c] = @ \cup {target[c]}]
  /\ Ends(c, "result")
  /\ UNCHANGED <<binding, refused, remaining, charged, vars>>

\* Mutant: the loop's end is reported as if no instance had been tried.
NoneEligible == "unavailable"
GivenUp == "failure"

\* A RemoteTransportError, or a cancellation while the call was out.
\* Mutant: any transport error may be retried.
RetriesAll(c, proven) == Failover /\ todo[c] # {}
CanRetry(c, proven) == Failover /\ proven /\ todo[c] # {}

Fails(c, proven, reached, cancelled) ==
  /\ stage[c] = "dispatching"
  /\ proven => ~reached
  /\ refused' = [refused EXCEPT ![c] = IF proven THEN @ \cup {target[c]} ELSE @]
  /\ accepted' = [accepted EXCEPT ![c] = IF reached THEN @ \cup {target[c]} ELSE @]
  /\ IF cancelled THEN Ends(c, "cancelled")
     ELSE IF CanRetry(c, proven)
     THEN \E i \in todo[c] : /\ target' = [target EXCEPT ![c] = i]
                             /\ todo' = [todo EXCEPT ![c] = @ \ {i}]
                             /\ UNCHANGED <<stage, answer>>
     ELSE Ends(c, GivenUp)
  /\ UNCHANGED <<binding, remaining, charged, vars>>

-----------------------------------------------------------------------------
GatewayStep ==
  \E c \in Calls :
    \/ \E t \in 0 .. now, mode \in Modes, permitted \in SUBSET (Agents \cup LocalAgents) :
         Select(c, t, mode, permitted)
    \/ \E t \in 0 .. now, a \in Agents : Discover(c, t, a)
    \/ Refuse(c)
    \/ Dispatch(c)
    \/ Answered(c)
    \/ \E proven, reached, cancelled \in BOOLEAN : Fails(c, proven, reached, cancelled)
CatalogStep == Next /\ UNCHANGED callState

GatewayNext == GatewayStep \/ CatalogStep
GatewaySpec == GatewayInit /\ [][GatewayNext]_gatewayVars

-----------------------------------------------------------------------------
(* Properties.                                                              *)

\* Failover never runs a call twice: whatever the catalog does meanwhile, one
\* instance at most accepts it, and never one that had provably refused it.
AcceptedOnce ==
  \A c \in Calls : Cardinality(accepted[c]) <= 1 /\ accepted[c] \cap refused[c] = {}

\* The shared budget counts each remote call once, however many instances it
\* was tried with and whoever races for the last unit; what no charged call
\* made was never sent.
ChargedOnce ==
  /\ remaining + Cardinality(charged) = CallBudget
  /\ \A c \in Calls \ charged : accepted[c] \cup refused[c] = {} /\ stage[c] # "dispatching"

\* What a call is told: a result means that one instance accepted it, and a
\* refusal before the dispatch that no instance saw it.
AnswersSayWhatRan ==
  \A c \in Calls : stage[c] = "done" =>
    /\ answer[c] = "result" => accepted[c] # {}
    /\ answer[c] \notin {"result", "failure", "cancelled"} => accepted[c] \cup refused[c] = {}

\* A call under way holds a binding, and failover stays inside what was
\* validated: the target and what is left are distinct from what refused it.
AttemptsAreDistinct ==
  \A c \in Calls : stage[c] = "dispatching" =>
    /\ target[c] \notin refused[c] \cup todo[c] /\ todo[c] \cap refused[c] = {}
    /\ {target[c]} \cup todo[c] \cup refused[c] \subseteq Reachable

\* docs/gateway-and-discovery.md: invocation re-checks "current lifecycle and
\* health", and only "another healthy instance" may be tried; so what a call is
\* first sent to is healthy then.  No run checks it: _eligible_instances asks
\* for deployments and transports only.
SentToHealthyInstances ==
  [][\A c \in Calls : stage[c] = "bound" /\ stage'[c] = "dispatching" =>
       agents[binding[c].agent].instances[target'[c]].healthy]_gatewayVars
=============================================================================
