------------------------- MODULE CatalogUsers_proofs -------------------------
(***************************************************************************)
(* Proofs about the two components that drive the catalog of ManagedCatalog: *)
(* HybridGateway, for every catalog, every finite set of calls and every     *)
(* budget: a call is accepted once and charged once, and it is told what     *)
(* ran; and Registration, for every set of clients, requests and services:   *)
(* a request is executed once, its client is told the truth, no expiry is    *)
(* lost, and the catalog stays one ManagedCatalog describes.                 *)
(***************************************************************************)
EXTENDS ManagedCatalog_proofs, HybridGateway, Registration, SequenceTheorems

-----------------------------------------------------------------------------
(* HybridGateway.                                                           *)

CallType ==
  /\ stage \in [Calls -> {"new", "bound", "dispatching", "done"}]
  /\ target \in [Calls -> Instances \cup {NoTarget}]
  /\ todo \in [Calls -> SUBSET Instances]
  /\ refused \in [Calls -> SUBSET Instances] /\ accepted \in [Calls -> SUBSET Instances]
  /\ answer \in [Calls -> AnswerCodes]
  /\ remaining \in Nat /\ charged \subseteq Calls

(***************************************************************************)
(* What the loop over the instances keeps: until a call is dispatched nobody *)
(* saw it; while it is, nobody accepted it, and the target is not one of    *)
(* those that refused or are still to come; afterwards one accepted it at   *)
(* most, and the answer goes with that.                                     *)
(***************************************************************************)
Told(c) ==
  /\ answer[c] = "result" => accepted[c] # {}
  /\ answer[c] \notin {"result", "failure", "cancelled"} => accepted[c] \cup refused[c] = {}

LoopOf(c) ==
  \/ stage[c] \in {"new", "bound"} /\ accepted[c] = {} /\ refused[c] = {}
  \/ /\ stage[c] = "dispatching" /\ c \in charged /\ accepted[c] = {}
     /\ target[c] \in Instances
     /\ target[c] \notin refused[c] \cup todo[c] /\ todo[c] \cap refused[c] = {}
  \/ /\ stage[c] = "done" /\ Told(c)
     /\ \A i, j \in accepted[c] : i = j
     /\ accepted[c] \cap refused[c] = {}
     /\ accepted[c] \cup refused[c] # {} => c \in charged

UnchargedYet(c) == stage[c] \in {"new", "bound"} => c \notin charged

LoopInv == CallType /\ \A c \in Calls : LoopOf(c) /\ UnchargedYet(c)
BudgetInv == remaining + Cardinality(charged) = CallBudget

LEMMA LoopInitially == GatewayInit => LoopInv
<1> SUFFICES ASSUME GatewayInit PROVE LoopInv
  OBVIOUS
<1>1. CallType
  BY GatewayAssumption DEF GatewayInit, CallType, AnswerCodes
<1> QED  BY <1>1 DEF GatewayInit, LoopInv, LoopOf, UnchargedYet

\* A step of a call leaves every other call as it is.
LEMMA OthersKeep ==
  ASSUME LoopInv, NEW c \in Calls, charged \subseteq charged', charged' \subseteq charged \cup {c},
         \A d \in Calls \ {c} :
           /\ stage'[d] = stage[d] /\ target'[d] = target[d] /\ todo'[d] = todo[d]
           /\ refused'[d] = refused[d] /\ accepted'[d] = accepted[d] /\ answer'[d] = answer[d]
  PROVE  \A d \in Calls \ {c} : LoopOf(d)' /\ UnchargedYet(d)'
BY DEF LoopInv, LoopOf, Told, UnchargedYet

LEMMA SelectKeepsLoop ==
  ASSUME LoopInv, NEW c \in Calls, stage[c] \in {"new", "bound"},
         NEW code \in AnswerCodes \ {"result", "failure", "cancelled"}, Ends(c, code),
         UNCHANGED <<refused, accepted, remaining, charged>>
  PROVE  LoopInv'
<1>1. CallType'
  BY DEF LoopInv, CallType, Ends
<1>2. LoopOf(c)' /\ UnchargedYet(c)'
  BY DEF LoopInv, CallType, LoopOf, Told, UnchargedYet, Ends
<1>3. \A d \in Calls \ {c} : LoopOf(d)' /\ UnchargedYet(d)'
  <2>1. \A d \in Calls \ {c} : /\ stage'[d] = stage[d] /\ target'[d] = target[d]
                               /\ todo'[d] = todo[d] /\ answer'[d] = answer[d]
    BY DEF LoopInv, CallType, Ends
  <2> QED  BY <2>1, OthersKeep
<1> QED  BY <1>1, <1>2, <1>3 DEF LoopInv

LEMMA BindsKeepsLoop ==
  ASSUME LoopInv, NEW c \in Calls, stage[c] = "new", NEW a, Binds(c, a),
         UNCHANGED <<refused, accepted, remaining, charged>>
  PROVE  LoopInv'
<1>1. CallType'
  BY DEF LoopInv, CallType, Binds
<1>2. \A d \in Calls : LoopOf(d)' /\ UnchargedYet(d)'
  BY DEF LoopInv, CallType, LoopOf, Told, UnchargedYet, Binds
<1> QED  BY <1>1, <1>2 DEF LoopInv

LEMMA DispatchKeepsLoop ==
  ASSUME LoopInv, NEW c \in Calls, Dispatch(c)
  PROVE  LoopInv'
<1> DEFINE instances == Dispatchable(binding[c].agent)
<1>0. instances \subseteq Instances
  BY GatewayAssumption DEF Dispatchable
<1>1. stage[c] = "bound" /\ accepted[c] = {} /\ refused[c] = {} /\ UNCHANGED <<refused, accepted>>
  BY DEF Dispatch, LoopInv, LoopOf
<1> HIDE DEF instances
<1>2. CASE remaining = 0
  <2>1. Ends(c, "exhausted") /\ UNCHANGED <<refused, accepted, remaining, charged>>
    BY <1>2 DEF Dispatch
  <2> QED  BY <1>1, <2>1, SelectKeepsLoop DEF AnswerCodes
<1>3. CASE remaining # 0
  <2>1. remaining' = remaining - 1 /\ charged' = charged \cup {c} /\ remaining' \in Nat
    BY <1>3 DEF Dispatch, Charge, LoopInv, CallType
  <2>2. CASE instances = {}
    <3>1. Ends(c, "unavailable")
      BY <1>3, <2>2 DEF Dispatch, instances
    <3>2. CallType'
      BY <1>1, <2>1, <3>1 DEF LoopInv, CallType, Ends, AnswerCodes
    <3>3. LoopOf(c)' /\ UnchargedYet(c)'
      BY <1>1, <3>1 DEF LoopInv, CallType, LoopOf, Told, UnchargedYet, Ends
    <3>4. \A d \in Calls \ {c} : /\ stage'[d] = stage[d] /\ target'[d] = target[d]
                                 /\ todo'[d] = todo[d] /\ answer'[d] = answer[d]
      BY <3>1 DEF LoopInv, CallType, Ends
    <3> QED  BY <1>1, <2>1, <3>2, <3>3, <3>4, OthersKeep DEF LoopInv
  <2>3. CASE instances # {}
    <3>1. PICK i \in instances : /\ stage' = [stage EXCEPT ![c] = "dispatching"]
                                 /\ target' = [target EXCEPT ![c] = i]
                                 /\ todo' = [todo EXCEPT ![c] = instances \ {i}]
                                 /\ answer' = answer
      BY <1>3, <2>3 DEF Dispatch, instances
    <3>2. CallType'
      BY <1>0, <1>1, <2>1, <3>1 DEF LoopInv, CallType
    <3>3. LoopOf(c)' /\ UnchargedYet(c)'
      BY <1>0, <1>1, <2>1, <3>1 DEF LoopInv, CallType, LoopOf, UnchargedYet
    <3>4. \A d \in Calls \ {c} : /\ stage'[d] = stage[d] /\ target'[d] = target[d]
                                 /\ todo'[d] = todo[d] /\ answer'[d] = answer[d]
      BY <3>1 DEF LoopInv, CallType
    <3> QED  BY <1>1, <2>1, <3>2, <3>3, <3>4, OthersKeep DEF LoopInv
  <2> QED  BY <2>2, <2>3
<1> QED  BY <1>2, <1>3

\* The end of an attempt: what the instance did, and how the call ends.
LEMMA AttemptEnds ==
  ASSUME LoopInv, NEW c \in Calls, stage[c] = "dispatching", NEW code \in AnswerCodes,
         NEW took \in SUBSET {target[c]}, NEW not \in SUBSET {target[c]}, took \cap not = {},
         accepted' = [accepted EXCEPT ![c] = @ \cup took],
         refused' = [refused EXCEPT ![c] = @ \cup not],
         Ends(c, code), code \in {"result", "failure", "cancelled"},
         code = "result" => took # {},
         UNCHANGED <<remaining, charged>>
  PROVE  LoopInv'
<1>1. /\ accepted[c] = {} /\ c \in charged /\ target[c] \in Instances
      /\ target[c] \notin refused[c]
  BY DEF LoopInv, LoopOf
<1>2. accepted'[c] = took /\ refused'[c] = refused[c] \cup not
  BY <1>1 DEF LoopInv, CallType
<1>3. CallType'
  BY <1>1 DEF LoopInv, CallType, Ends
<1>4. LoopOf(c)' /\ UnchargedYet(c)'
  BY <1>1, <1>2 DEF LoopInv, CallType, LoopOf, Told, UnchargedYet, Ends
<1>5. \A d \in Calls \ {c} :
        /\ stage'[d] = stage[d] /\ target'[d] = target[d] /\ todo'[d] = todo[d]
        /\ refused'[d] = refused[d] /\ accepted'[d] = accepted[d] /\ answer'[d] = answer[d]
  BY DEF LoopInv, CallType, Ends
<1> QED  BY <1>3, <1>4, <1>5, OthersKeep DEF LoopInv

LEMMA FailsKeepsLoop ==
  ASSUME LoopInv, NEW c \in Calls, NEW proven \in BOOLEAN, NEW reached \in BOOLEAN,
         NEW cancelled \in BOOLEAN, Fails(c, proven, reached, cancelled)
  PROVE  LoopInv'
<1> DEFINE took == IF reached THEN {target[c]} ELSE {}
           not == IF proven THEN {target[c]} ELSE {}
<1>1. /\ stage[c] = "dispatching" /\ took \cap not = {}
      /\ accepted' = [accepted EXCEPT ![c] = @ \cup took]
      /\ refused' = [refused EXCEPT ![c] = @ \cup not]
      /\ UNCHANGED <<remaining, charged>>
  <2>1. accepted' = [accepted EXCEPT ![c] = @ \cup took]
    BY DEF Fails, LoopInv, CallType
  <2>2. refused' = [refused EXCEPT ![c] = @ \cup not]
    BY DEF Fails, LoopInv, CallType
  <2> QED  BY <2>1, <2>2 DEF Fails
<1>2. CASE cancelled \/ ~CanRetry(c, proven)
  <2>1. PICK code \in {"failure", "cancelled"} : Ends(c, code)
    BY <1>2 DEF Fails, GivenUp
  <2> HIDE DEF took, not
  <2>2. took \in SUBSET {target[c]} /\ not \in SUBSET {target[c]}
    BY DEF took, not
  <2> QED  BY <1>1, <2>1, <2>2, AttemptEnds DEF AnswerCodes
<1>3. CASE ~cancelled /\ CanRetry(c, proven)
  <2>1. proven /\ ~reached /\ took = {} /\ not = {target[c]}
    BY <1>3 DEF CanRetry, Fails
  <2>2. PICK i \in todo[c] : /\ target' = [target EXCEPT ![c] = i]
                             /\ todo' = [todo EXCEPT ![c] = @ \ {i}]
                             /\ UNCHANGED <<stage, answer>>
    BY <1>3 DEF Fails
  <2> HIDE DEF took, not
  <2>3. /\ accepted[c] = {} /\ c \in charged /\ target[c] \in Instances
        /\ target[c] \notin refused[c] \cup todo[c] /\ todo[c] \cap refused[c] = {}
    BY <1>1 DEF LoopInv, LoopOf
  <2>4. CallType'
    BY <1>1, <2>1, <2>2, <2>3 DEF LoopInv, CallType
  <2>5. LoopOf(c)' /\ UnchargedYet(c)'
    BY <1>1, <2>1, <2>2, <2>3 DEF LoopInv, CallType, LoopOf, UnchargedYet
  <2>6. \A d \in Calls \ {c} :
          /\ stage'[d] = stage[d] /\ target'[d] = target[d] /\ todo'[d] = todo[d]
          /\ refused'[d] = refused[d] /\ accepted'[d] = accepted[d] /\ answer'[d] = answer[d]
    BY <1>1, <2>2 DEF LoopInv, CallType
  <2> QED  BY <1>1, <2>4, <2>5, <2>6, OthersKeep DEF LoopInv
<1> QED  BY <1>2, <1>3

LEMMA LoopStep == LoopInv /\ [GatewayNext]_gatewayVars => LoopInv'
<1> SUFFICES ASSUME LoopInv, [GatewayNext]_gatewayVars PROVE LoopInv'
  OBVIOUS
<1>1. CASE UNCHANGED callState
  BY <1>1 DEF LoopInv, CallType, LoopOf, Told, UnchargedYet, callState
<1>2. CASE GatewayStep
  <2>1. PICK c \in Calls :
          \/ \E t \in 0 .. now, mode \in Modes, permitted \in SUBSET (Agents \cup LocalAgents) :
               Select(c, t, mode, permitted)
          \/ \E t \in 0 .. now, a \in Agents : Discover(c, t, a)
          \/ Refuse(c)
          \/ Dispatch(c)
          \/ Answered(c)
          \/ \E proven, reached, cancelled \in BOOLEAN : Fails(c, proven, reached, cancelled)
    BY <1>2 DEF GatewayStep
  <2>2. ASSUME NEW t, NEW mode, NEW permitted, Select(c, t, mode, permitted)
        PROVE  LoopInv'
    <3>1. stage[c] = "new" /\ UNCHANGED <<refused, accepted, remaining, charged>>
      BY <2>2 DEF Select
    <3>2. \/ \E code \in {"no_eligible", "no_match", "denied", "policy_failed", "ambiguous",
                           "local"} : Ends(c, code)
          \/ \E a \in Agents : Binds(c, a)
      BY <2>2 DEF Select
    <3>3. ASSUME NEW code \in {"no_eligible", "no_match", "denied", "policy_failed", "ambiguous",
                               "local"}, Ends(c, code)
          PROVE  LoopInv'
      BY <3>1, <3>3, SelectKeepsLoop DEF AnswerCodes
    <3>4. ASSUME NEW a \in Agents, Binds(c, a) PROVE LoopInv'
      BY <3>1, <3>4, BindsKeepsLoop
    <3> QED  BY <3>2, <3>3, <3>4
  <2>3. ASSUME NEW t, NEW a, Discover(c, t, a) PROVE LoopInv'
    <3>1. /\ stage[c] = "new" /\ Binds(c, a)
          /\ UNCHANGED <<refused, accepted, remaining, charged>>
      BY <2>3 DEF Discover
    <3> QED  BY <3>1, BindsKeepsLoop
  <2>4. CASE Refuse(c)
    <3>1. stage[c] = "bound" /\ UNCHANGED <<refused, accepted, remaining, charged>>
      BY <2>4 DEF Refuse
    <3>2. \E code \in {"denied", "policy_failed", "timeout", "binding_failure", "stale",
                       "unavailable", "schema_mismatch"} : Ends(c, code)
      BY <2>4 DEF Refuse, RevalidateCode
    <3> QED  BY <3>1, <3>2, SelectKeepsLoop DEF AnswerCodes
  <2>5. CASE Dispatch(c)
    BY <2>5, DispatchKeepsLoop
  <2>6. CASE Answered(c)
    <3>1. /\ stage[c] = "dispatching" /\ Ends(c, "result")
          /\ accepted' = [accepted EXCEPT ![c] = @ \cup {target[c]}]
          /\ UNCHANGED <<refused, remaining, charged>>
      BY <2>6 DEF Answered
    <3>2. refused' = [refused EXCEPT ![c] = @ \cup {}]
      BY <3>1 DEF LoopInv, CallType
    <3>3. {target[c]} \cap {} = {} /\ {target[c]} # {} /\ "result" \in AnswerCodes
      BY DEF AnswerCodes
    <3> QED  BY <3>1, <3>2, <3>3, AttemptEnds
  <2>7. ASSUME NEW proven \in BOOLEAN, NEW reached \in BOOLEAN, NEW cancelled \in BOOLEAN,
               Fails(c, proven, reached, cancelled)
        PROVE  LoopInv'
    BY <2>7, FailsKeepsLoop
  <2> QED  BY <2>1, <2>2, <2>3, <2>4, <2>5, <2>6, <2>7
<1> QED  BY <1>1, <1>2 DEF GatewayNext, CatalogStep, gatewayVars

LEMMA LoopHolds == GatewaySpec => []LoopInv
<1> QED  BY LoopInitially, LoopStep, PTL DEF GatewaySpec

\* AcceptedOnce: failover never runs a remote call on two instances, nor on one
\* that provably refused it (_invoke_remote_binding).
THEOREM RemoteCallsAcceptedOnce == GatewaySpec => []AcceptedOnce
<1>1. LoopInv => AcceptedOnce
  <2> SUFFICES ASSUME LoopInv, NEW c \in Calls
               PROVE  Cardinality(accepted[c]) <= 1 /\ accepted[c] \cap refused[c] = {}
    BY DEF AcceptedOnce
  <2>1. /\ \A i, j \in accepted[c] : i = j
        /\ accepted[c] \cap refused[c] = {}
    BY DEF LoopInv, LoopOf
  <2>2. CASE accepted[c] = {}
    BY <2>1, <2>2, FS_EmptySet
  <2>3. CASE accepted[c] # {}
    <3>1. PICK i : accepted[c] = {i}
      BY <2>1, <2>3
    <3> QED  BY <2>1, <3>1, FS_Singleton
  <2> QED  BY <2>2, <2>3
<1> QED  BY <1>1, LoopHolds, PTL

\* AnswersSayWhatRan: a refusal before the dispatch means that no instance saw
\* the call, and a result that one accepted it.
THEOREM RemoteAnswersSayWhatRan == GatewaySpec => []AnswersSayWhatRan
<1>1. LoopInv => AnswersSayWhatRan
  BY DEF LoopInv, LoopOf, Told, AnswersSayWhatRan
<1> QED  BY <1>1, LoopHolds, PTL

\* ChargedOnce: the budget shared by the tree counts each remote call once.
THEOREM RemoteCallsChargedOnce == GatewaySpec => []ChargedOnce
<1>1. GatewayInit => BudgetInv
  BY FS_EmptySet, GatewayAssumption DEF GatewayInit, BudgetInv
<1>2. LoopInv /\ BudgetInv /\ [GatewayNext]_gatewayVars => BudgetInv'
  <2> SUFFICES ASSUME LoopInv, BudgetInv, [GatewayNext]_gatewayVars PROVE BudgetInv'
    OBVIOUS
  <2>1. CASE UNCHANGED <<remaining, charged>>
    BY <2>1 DEF BudgetInv
  <2>2. ASSUME NEW c \in Calls, Dispatch(c), remaining # 0 PROVE BudgetInv'
    <3>1. c \notin charged /\ remaining' = remaining - 1 /\ charged' = charged \cup {c}
      BY <2>2 DEF Dispatch, Charge, LoopInv, UnchargedYet
    <3>2. IsFiniteSet(charged) /\ remaining \in Nat
      BY FS_Subset, GatewayAssumption DEF LoopInv, CallType
    <3>3. Cardinality(charged') = Cardinality(charged) + 1 /\ Cardinality(charged) \in Nat
      BY <3>1, <3>2, FS_AddElement, FS_CardinalityType
    <3> QED  BY <3>1, <3>2, <3>3 DEF BudgetInv
  <2>3. \/ UNCHANGED <<remaining, charged>>
        \/ \E c \in Calls : Dispatch(c) /\ remaining # 0
    <3>1. CASE CatalogStep \/ UNCHANGED gatewayVars
      BY <3>1 DEF CatalogStep, gatewayVars, callState
    <3>2. ASSUME NEW c \in Calls, NEW t, NEW x, NEW permitted,
                 Select(c, t, x, permitted) \/ Discover(c, t, x) \/ Refuse(c) \/ Answered(c)
          PROVE  UNCHANGED <<remaining, charged>>
      BY <3>2 DEF Select, Discover, Refuse, Answered
    <3>3. ASSUME NEW c \in Calls, NEW proven, NEW reached, NEW cancelled,
                 Fails(c, proven, reached, cancelled)
          PROVE  UNCHANGED <<remaining, charged>>
      BY <3>3 DEF Fails
    <3>4. ASSUME NEW c \in Calls, Dispatch(c), remaining = 0 PROVE UNCHANGED <<remaining, charged>>
      BY <3>4 DEF Dispatch
    <3> QED  BY <3>1, <3>2, <3>3, <3>4 DEF GatewayNext, GatewayStep
  <2> QED  BY <2>1, <2>2, <2>3
<1>3. LoopInv /\ BudgetInv => ChargedOnce
  BY DEF LoopInv, LoopOf, BudgetInv, ChargedOnce
<1> QED  BY <1>1, <1>2, <1>3, LoopHolds, PTL DEF GatewaySpec

-----------------------------------------------------------------------------
(* Registration.                                                            *)

Codes == {"none", "ok", "identity_conflict", "invalid_handle", "expired", "inactive", "not_found",
          "idempotency_conflict", "replay_rejected", "stale_generation", "capacity_exceeded",
          "invalid_card", "invalid_lease", "unauthorized", "card_unavailable",
          "audit_unavailable", "service_unavailable"}
Stages == {"none", "received", "requesting", "retrieving", "completing", "answered", "over"}
States == Live \cup Terminal \cup {"absent"}
AnswerRecord == [code : Codes, generation : Nat, state : States, lease : Nat]

RegistrationTypeOK ==
  /\ request \in [Clients -> RequestRecord \cup {NoRequest}]
  /\ attempt \in [Clients -> Nat] /\ \A c \in Clients : attempt[c] <= MaxAttempts[c]
  /\ told \in [Clients -> AnswerRecord]
  /\ handling \in [Attempts -> [stage : Stages, answer : AnswerRecord]]
  /\ events \in [Clients -> SUBSET {"requested", "completed"}]
  /\ executed \in [Clients -> Nat]

(***************************************************************************)
(* The inductive invariant.  A request that was executed has the receipt of  *)
(* its key, whose result is a success its client accepts; a receipt is of a  *)
(* request that was executed, for no two requests share a key; and what an   *)
(* attempt is about to answer says as much.                                  *)
(***************************************************************************)
Asked(c) == request[c] # NoRequest
ReceiptOf(c) == ReceiptKey(request[c].cmd)

OwnKeys == \A c, d \in Clients :
  Asked(c) /\ Asked(d) /\ c # d => request[c].cmd.key # request[d].cmd.key
ReceiptsAreOfClients == \A k \in Stored :
  \E c \in Clients : Asked(c) /\ ReceiptOf(c) = k /\ executed[c] = 1

Recorded(c) ==
  /\ Asked(c) /\ receipts[ReceiptOf(c)] # NoReceipt
  /\ "requested" \in events[c] /\ ValidSuccess(c, receipts[ReceiptOf(c)].result)
ClientSound(c) ==
  /\ attempt[c] > 0 <=> Asked(c)
  /\ Asked(c) => request[c].issued <= now
  /\ executed[c] # 0 => executed[c] = 1 /\ Recorded(c)
  /\ told[c].code = "ok" => executed[c] = 1 /\ {"requested", "completed"} \subseteq events[c]
AttemptSound(h) ==
  /\ handling[h].stage # "none" => Asked(h[1])
  /\ handling[h].stage = "retrieving" => "requested" \in events[h[1]]
  /\ handling[h].answer.code = "ok" =>
       /\ handling[h].stage \in {"completing", "answered"}
       /\ executed[h[1]] = 1 /\ ValidSuccess(h[1], handling[h].answer)
       /\ handling[h].stage = "answered" => {"requested", "completed"} \subseteq events[h[1]]

Counted == \A id \in Identities : Managed(id) => ledger[id].generation > 0
RegistrationInv ==
  /\ TypeOK /\ Counted
  /\ RegistrationTypeOK /\ OwnKeys /\ ReceiptsAreOfClients
  /\ \A c \in Clients : ClientSound(c)
  /\ \A h \in Attempts : AttemptSound(h)

-----------------------------------------------------------------------------
(* What the catalog does for an attempt.                                     *)

\* A generation counts from the first grant of an identity.
LEMMA GenerationsCount ==
  ASSUME TypeOK, Counted, [Next]_vars
  PROVE  Counted'
<1> SUFFICES ASSUME NEW id \in Identities, ledger'[id].state # "absent"
             PROVE  ledger'[id].generation > 0
  BY DEF Counted, Managed
<1>1. ledger[id].generation \in Nat
  BY DEF TypeOK, ManagedRecord
<1>2. CASE ledger[id].state # "absent"
  <2>1. ledger[id].generation > 0
    BY <1>2 DEF Counted, Managed
  <2>2. ledger'[id].generation \in {ledger[id].generation, ledger[id].generation + 1}
    BY <1>2, ResultMoves
  <2> QED BY <1>1, <2>1, <2>2
<1>3. CASE ledger[id].state = "absent"
  <2>1. LifeStep(GrantOf(ledger[id]), GrantOf(ledger'[id]))
    BY StepIsLife
  <2> QED BY <1>3, <2>1 DEF LifeStep, GrantOf, Authority!Grant, Authority!Extend,
      Authority!Drain, Authority!Retire, Authority!Fenced, Authority!Live
<1> QED BY <1>2, <1>3

LEMMA RequestTypes ==
  ASSUME RegistrationTypeOK, NEW c \in Clients, Asked(c)
  PROVE  /\ request[c] \in RequestRecord /\ request[c].issued \in Nat
         /\ request[c].cmd \in Commands /\ request[c].cmd \in CommandRecord
         /\ request[c].cmd.id \in Identities /\ ReceiptOf(c) \in ReceiptKeys
<1>1. request[c] \in RequestRecord /\ request[c].cmd \in Commands
  BY RegistrationAssumption DEF RegistrationTypeOK, Asked, RequestRecord
<1> QED BY <1>1, CommandTypes
    DEF RequestRecord, CommandRecord, ReceiptOf, ReceiptKey, ReceiptKeys

\* The codes of the catalog.
LEMMA CatalogCodes ==
  ASSUME NEW cmd
  PROVE  ManageCode(cmd) \in Codes
<1>1. AuthError(cmd) \in Codes
  BY DEF AuthError, Codes
<1>2. StateError(cmd.id) \in Codes
  BY DEF StateError, Codes
<1>3. CheckManaged(cmd) \in Codes
  BY <1>1, <1>2 DEF CheckManaged
<1>4. LookupCode(cmd) \in Codes
  BY <1>1, <1>2 DEF LookupCode, Codes
<1>5. RegisterCode(cmd) \in Codes
  BY DEF RegisterCode, Codes
<1>6. ExecuteCode(cmd) \in Codes
  BY <1>3, <1>5 DEF ExecuteCode, Codes
<1> QED BY <1>4, <1>6 DEF ManageCode

\* What an executed command stores passes the test its client makes.
OkOf(result) == [code |-> "ok", generation |-> result.generation,
                 state |-> result.state, lease |-> result.lease]
Executes(h) ==
  /\ receipts[ReceiptOf(h[1])] = NoReceipt
  /\ executed' = [executed EXCEPT ![h[1]] = @ + 1]
  /\ \E r \in ReceiptRecord :
       /\ receipts' = [receipts EXCEPT ![ReceiptOf(h[1])] = r]
       /\ ValidSuccess(h[1], r.result)
       /\ Handles(h, "completing", OkOf(r.result))
Repeats(h) ==
  /\ receipts[ReceiptOf(h[1])] # NoReceipt
  /\ UNCHANGED <<executed, receipts>>
  /\ Handles(h, "completing", OkOf(receipts[ReceiptOf(h[1])].result))
Refuses(h) ==
  /\ UNCHANGED <<executed, receipts>>
  /\ \E code \in Codes \ {"ok"} : Handles(h, "completing", Failure(code))

\* The checks of an executed command, beyond those of ExecutedCommand.
LEMMA ExecutedChecks ==
  ASSUME NEW cmd, Applies(cmd)
  PROVE  /\ Managed(cmd.id) => AuthError(cmd) = "none" /\ ~Lapsed(cmd.id)
         /\ cmd.op = "register" => cmd.expected = 0
         /\ cmd.op \notin {"register", "status"} => cmd.expected = ledger[cmd.id].generation
         /\ cmd.op \in {"register", "renew"} => cmd.lease # 0
<1>1. ExecuteCode(cmd) = "ok" /\ CheckManaged(cmd) # "ok"
  BY DEF Applies, CheckManaged, AuthError, StateError
<1>2. Managed(cmd.id) => CheckManaged(cmd) = "none"
  BY <1>1 DEF ExecuteCode
<1>3. CheckManaged(cmd) = "none" => AuthError(cmd) = "none" /\ StateError(cmd.id) = "none"
  BY DEF CheckManaged
<1>4. StateError(cmd.id) = "none" => ~Lapsed(cmd.id)
  BY DEF StateError
<1>5. ~(Managed(cmd.id) /\ CheckManaged(cmd) # "none")
  BY <1>2
<1>6. /\ cmd.op = "register" => cmd.expected = 0
      /\ cmd.op \notin {"register", "status"} => cmd.expected = ledger[cmd.id].generation
      /\ cmd.op \in {"register", "renew"} => cmd.lease # 0
  BY <1>1, <1>5 DEF ExecuteCode
<1> QED BY <1>2, <1>3, <1>4, <1>6

LEMMA MovedFields ==
  ASSUME NEW m \in ManagedRecord, NEW s \in Live \cup Terminal, NEW inst \in InstanceRecord
  PROVE  /\ Moved(m, s, inst) \in ManagedRecord /\ Moved(m, s, inst).state = s
         /\ Moved(m, s, inst).generation = m.generation + 1 /\ Moved(m, s, inst).instance = inst
         /\ m.generation \in Nat /\ inst.lease \in Nat
BY DEF ManagedRecord, Moved, InstanceRecord

\* What a record must say of an executed command to pass for its success.
Succeeds(cmd, m) ==
  /\ m \in ManagedRecord /\ m.state # "absent" /\ m.generation > 0
  /\ m.state = "active" => m.instance.lease > now
  /\ cmd.op \in {"register", "renew"} => m.state = "active" /\ m.generation > cmd.expected
  /\ cmd.op = "drain" => m.state = "draining" /\ m.generation >= cmd.expected
  /\ cmd.op \in TerminalOps => m.state = TerminalState(cmd.op) /\ m.generation > cmd.expected

\* An executed command leaves such a record of its identity.
LEMMA ExecutedSucceeds ==
  ASSUME TypeOK, Counted, NEW cmd \in CommandRecord, Applies(cmd),
         \/ ManageRegister(cmd) \/ ManageRenew(cmd) \/ ManageDrain(cmd)
         \/ ManageRead(cmd) \/ ManageTerminate(cmd)
  PROVE  Succeeds(cmd, ledger'[cmd.id])
<1>1. /\ cmd.id \in Identities /\ cmd.expected \in Nat /\ cmd.lease \in Nat
      /\ cmd.owner \in Owners /\ cmd.principal \in Principals
  BY DEF CommandRecord
<1>2. ledger[cmd.id] \in ManagedRecord /\ now \in Nat
  BY <1>1 DEF TypeOK
<1>3. /\ ledger[cmd.id].instance \in InstanceRecord /\ ledger[cmd.id].instance.lease \in Nat
      /\ ledger[cmd.id].generation \in Nat
  BY <1>2 DEF ManagedRecord, InstanceRecord
<1>4. cmd.op # "register" => /\ ledger[cmd.id].state \in Live /\ ledger[cmd.id].state # "absent"
                             /\ ledger[cmd.id].generation > 0 /\ ~Lapsed(cmd.id)
  <2>1. cmd.op # "register" => ledger[cmd.id].state \in Live /\ ledger[cmd.id].state # "absent"
    BY ExecutedCommand DEF Live
  <2> QED BY <1>1, <2>1, ExecutedChecks DEF Counted, Managed
<1>5. /\ cmd.op = "register" => cmd.expected = 0
      /\ cmd.op \notin {"register", "status"} => cmd.expected = ledger[cmd.id].generation
      /\ cmd.op \in {"register", "renew"} => cmd.lease # 0
  BY ExecutedChecks
<1>6. CASE ManageRegister(cmd)
  <2>1. cmd.op = "register" /\ ledger'[cmd.id] =
          [state |-> "active", owner |-> cmd.owner, principal |-> cmd.principal,
           generation |-> 1, instance |-> Serving(now + cmd.lease)]
    BY <1>1, <1>6 DEF ManageRegister, TypeOK
  <2>2. Serving(now + cmd.lease) \in InstanceRecord /\ Serving(now + cmd.lease).lease = now + cmd.lease
    BY <1>1, <1>2 DEF Serving, InstanceRecord
  <2>3. ledger'[cmd.id] \in ManagedRecord
    BY <1>1, <2>1, <2>2 DEF ManagedRecord, Live
  <2> QED BY <1>1, <1>2, <1>5, <2>1, <2>2, <2>3 DEF Succeeds, TerminalOps
<1>7. CASE ManageRenew(cmd)
  <2>1. cmd.op = "renew" /\ ledger'[cmd.id] = Moved(ledger[cmd.id], "active", Renewed(cmd))
    BY <1>1, <1>7 DEF ManageRenew, Mutates, Publish, LedgerAfter, Change
  <2>2. Renewed(cmd) \in InstanceRecord /\ Renewed(cmd).lease >= now + cmd.lease
    BY <1>1, <1>2, <1>3 DEF Renewed, Longer, InstanceRecord
  <2>3. /\ ledger'[cmd.id] \in ManagedRecord /\ ledger'[cmd.id].state = "active"
        /\ ledger'[cmd.id].generation = ledger[cmd.id].generation + 1
        /\ ledger'[cmd.id].instance.lease >= now + cmd.lease
        /\ ledger'[cmd.id].instance.lease \in Nat
    BY <1>2, <2>1, <2>2, MovedFields DEF Live
  <2> QED BY <1>1, <1>2, <1>3, <1>5, <2>1, <2>3 DEF Succeeds, TerminalOps
<1>8. CASE ManageDrain(cmd)
  <2>1. cmd.op = "drain"
        /\ ledger'[cmd.id] = Moved(ledger[cmd.id], "draining", Unhealthy(ledger[cmd.id].instance))
    BY <1>1, <1>8 DEF ManageDrain, Mutates, Publish, LedgerAfter, Change
  <2>2. /\ ledger'[cmd.id] \in ManagedRecord /\ ledger'[cmd.id].state = "draining"
        /\ ledger'[cmd.id].generation = ledger[cmd.id].generation + 1
    BY <1>2, <1>3, <2>1, MovedFields, UnhealthyType DEF Live
  <2> QED BY <1>1, <1>3, <1>5, <2>1, <2>2 DEF Succeeds, TerminalOps
<1>9. CASE ManageRead(cmd)
  <2>1. ledger'[cmd.id] = ledger[cmd.id]
        /\ (cmd.op = "status" \/ (cmd.op = "drain" /\ ledger[cmd.id].state = "draining"))
    BY <1>9 DEF ManageRead
  <2>2. now < ledger[cmd.id].instance.lease
    BY <1>2, <1>3, <1>4, <2>1 DEF Lapsed
  <2> QED BY <1>1, <1>2, <1>3, <1>4, <1>5, <2>1, <2>2 DEF Succeeds, TerminalOps
<1>10. CASE ManageTerminate(cmd)
  <2>1. cmd.op \in TerminalOps /\ ledger'[cmd.id] =
          Moved(ledger[cmd.id], TerminalState(cmd.op), Unhealthy(ledger[cmd.id].instance))
    BY <1>1, <1>10 DEF ManageTerminate, Mutates, Publish, LedgerAfter, Retirement
  <2>2. /\ TerminalState(cmd.op) \in Terminal /\ TerminalState(cmd.op) \notin {"absent", "active"}
        /\ cmd.op \notin {"register", "renew", "drain", "status"}
    BY <2>1 DEF TerminalOps, TerminalState, Terminal
  <2>3. /\ ledger'[cmd.id] \in ManagedRecord /\ ledger'[cmd.id].state = TerminalState(cmd.op)
        /\ ledger'[cmd.id].generation = ledger[cmd.id].generation + 1
    <3>1. Unhealthy(ledger[cmd.id].instance) \in InstanceRecord
      BY <1>3, UnhealthyType
    <3> QED BY <1>2, <2>1, <2>2, <3>1, MovedFields
  <2> QED BY <1>1, <1>3, <1>5, <2>1, <2>2, <2>3 DEF Succeeds
<1> QED BY <1>6, <1>7, <1>8, <1>9, <1>10

\* What an attempt that asks the catalog does, and what it will answer.
ResultFor(cmd) == IF Applies(cmd) THEN ResultOf(ledger'[cmd.id]) ELSE receipts[ReceiptKey(cmd)].result
Asks(cmd) ==
  \/ ManageLapse(cmd) \/ ManageRegister(cmd) \/ ManageRenew(cmd) \/ ManageDrain(cmd)
  \/ ManageRead(cmd) \/ ManageTerminate(cmd)
  \/ ~Applies(cmd) /\ UNCHANGED vars
LEMMA ManagesSays ==
  ASSUME NEW h \in Attempts, Manages(h)
  PROVE  /\ Asks(request[h[1]].cmd)
         /\ executed' = [executed EXCEPT ![h[1]] = IF Applies(request[h[1]].cmd) THEN @ + 1 ELSE @]
         /\ Handles(h, "completing",
              IF ManageCode(request[h[1]].cmd) = "ok" THEN OkOf(ResultFor(request[h[1]].cmd))
              ELSE Failure(ManageCode(request[h[1]].cmd)))
BY Zenon DEF Manages, Asks, ResultFor, OkOf

\* So what it stores is a result its client accepts, whatever became of the
\* clock and the identity since the request was made.
LEMMA ExecutionSucceeds ==
  ASSUME TypeOK, Counted, RegistrationTypeOK, NEW h \in Attempts, Asked(h[1]),
         request[h[1]].issued <= now, Manages(h), Applies(request[h[1]].cmd)
  PROVE  Executes(h)
<1> DEFINE c == h[1]
           cmd == request[c].cmd
           m == ledger'[cmd.id]
           r == [fingerprint |-> Fingerprint(cmd), id |-> cmd.id, result |-> ResultOf(m)]
<1>1. c \in Clients
  BY DEF Attempts
<1>2. /\ cmd \in CommandRecord /\ cmd.id \in Identities
      /\ request[c].issued \in Nat /\ ReceiptOf(c) \in ReceiptKeys /\ now \in Nat
  BY <1>1, RequestTypes DEF TypeOK
<1>3. receipts[ReceiptOf(c)] = NoReceipt
  BY DEF Applies, HasReceipt, ReceiptOf
<1>4. \/ ManageRegister(cmd) \/ ManageRenew(cmd) \/ ManageDrain(cmd)
      \/ ManageRead(cmd) \/ ManageTerminate(cmd)
  <2>1. ~ManageLapse(cmd)
    BY ExecutedChecks DEF ManageLapse, Observes
  <2> QED BY <2>1, ManagesSays DEF Asks
<1>5. Remember(cmd)
  BY <1>4 DEF ManageRegister, ManageRenew, ManageDrain, ManageRead, ManageTerminate, Mutates
<1>6. Succeeds(cmd, m)
  <2> HIDE DEF cmd
  <2> QED BY <1>2, <1>4, ExecutedSucceeds DEF cmd
<1>7. r \in ReceiptRecord /\ m.instance.lease \in Nat
  <2>1. ResultOf(m) \in ResultRecord /\ m.instance.lease \in Nat
    <3> HIDE DEF m, cmd
    <3> QED BY <1>6 DEF Succeeds, ResultOf, ResultRecord, ManagedRecord, InstanceRecord
  <2>2. Fingerprint(cmd) \in FingerprintRecord
    <3> HIDE DEF cmd
    <3> QED BY <1>2 DEF Fingerprint, FingerprintRecord, CommandRecord
  <2> QED BY <1>2, <2>1, <2>2 DEF ReceiptRecord
<1>8. ValidSuccess(c, r.result)
  <2> HIDE DEF m
  <2>1. /\ r.result.generation = m.generation /\ r.result.state = m.state
        /\ r.result.lease = m.instance.lease
    BY DEF ResultOf
  <2> HIDE DEF r
  <2>2. m.state = "active" => r.result.lease > request[c].issued
    BY <1>2, <1>6, <1>7, <2>1 DEF Succeeds
  <2> QED BY <1>6, <2>1, <2>2 DEF Succeeds, ValidSuccess
<1>9. receipts' = [receipts EXCEPT ![ReceiptOf(c)] = r]
  BY <1>5 DEF Remember, ReceiptOf
<1>10. executed' = [executed EXCEPT ![c] = @ + 1]
  BY ManagesSays
<1>11. Handles(h, "completing", OkOf(r.result))
  <2>1. ManageCode(cmd) = "ok"
    BY DEF ManageCode, Applies
  <2> QED BY <2>1, ManagesSays DEF ResultFor
<1> HIDE DEF r
<1> QED BY <1>3, <1>7, <1>8, <1>9, <1>10, <1>11 DEF Executes

\* An attempt that asks the catalog executes its request, is answered from the
\* receipt, or is refused.
LEMMA ManagingIs ==
  ASSUME TypeOK, Counted, RegistrationTypeOK, NEW h \in Attempts, Asked(h[1]),
         request[h[1]].issued <= now, Manages(h)
  PROVE  Executes(h) \/ Repeats(h) \/ Refuses(h)
<1> DEFINE c == h[1]
           cmd == request[c].cmd
<1>1. CASE Applies(cmd)
  BY <1>1, ExecutionSucceeds
<1>2. CASE ~Applies(cmd)
  <2>1. UNCHANGED receipts
    <3>1. Asks(cmd)
      BY ManagesSays
    <3> HIDE DEF cmd
    <3> QED BY <1>2, <3>1 DEF Asks, ManageLapse, ManageRegister, ManageRenew, ManageDrain,
        ManageRead, ManageTerminate, Mutates, vars
  <2>2. UNCHANGED executed
    BY <1>2, ManagesSays DEF RegistrationTypeOK, Attempts
  <2>3. CASE ManageCode(cmd) = "ok"
    <3>1. HasReceipt(cmd)
      BY <1>2, <2>3 DEF ManageCode, Applies
    <3>2. Handles(h, "completing", OkOf(receipts[ReceiptKey(cmd)].result))
      BY <1>2, <2>3, ManagesSays DEF ResultFor
    <3> QED BY <2>1, <2>2, <3>1, <3>2 DEF Repeats, HasReceipt, ReceiptOf
  <2>4. CASE ManageCode(cmd) # "ok"
    <3>1. Handles(h, "completing", Failure(ManageCode(cmd)))
      BY <2>4, ManagesSays
    <3>2. ManageCode(cmd) \in Codes
      BY CatalogCodes
    <3> QED BY <2>1, <2>2, <2>4, <3>1, <3>2 DEF Refuses, Stages
  <2> QED BY <2>3, <2>4
<1> QED BY <1>1, <1>2

-----------------------------------------------------------------------------
(* What a step leaves as it was.                                             *)

\* Every step is one of the catalog or leaves it alone, so all that is proved
\* of the catalog holds of it here; and the clock does not go back.
LEMMA CatalogSteps ==
  ASSUME RegistrationTypeOK, TypeOK, \A h \in Attempts : AttemptSound(h),
         [RegistrationNext]_registrationVars
  PROVE  [Next]_vars /\ now \in Nat /\ now' \in Nat /\ now <= now'
<1>1. now \in Nat
  BY DEF TypeOK
<1>2. ASSUME NEW h \in Attempts, Manages(h), Asked(h[1])
      PROVE  [Next]_vars /\ now' = now
  <2> DEFINE cmd == request[h[1]].cmd
  <2>1. h[1] \in Clients
    BY DEF Attempts
  <2>2. cmd \in Commands
    BY <1>2, <2>1, RequestTypes
  <2>3. /\ cmd.op = "register" => cmd \in Registers
        /\ cmd.op = "renew" => cmd \in Renews
        /\ cmd.op \in {"drain", "status"} \cup TerminalOps => cmd \in Others
    BY <2>2 DEF Commands, Registers, Renews, Others, Command, TerminalOps
  <2>4. ManageLapse(cmd) => ManageInstance /\ now' = now
    BY <2>2 DEF ManageInstance, ManageLapse
  <2>5. ManageRegister(cmd) => ManageInstance /\ now' = now
    BY <2>3 DEF ManageInstance, ManageRegister
  <2>6. ManageRenew(cmd) => ManageInstance /\ now' = now
    BY <2>3 DEF ManageInstance, ManageRenew, Mutates
  <2>7. ManageDrain(cmd) => ManageInstance /\ now' = now
    BY <2>3 DEF ManageInstance, ManageDrain, Mutates
  <2>8. ManageRead(cmd) => ManageInstance /\ now' = now
    BY <2>3 DEF ManageInstance, ManageRead
  <2>9. ManageTerminate(cmd) => ManageInstance /\ now' = now
    BY <2>3 DEF ManageInstance, ManageTerminate, Mutates
  <2>10. UNCHANGED vars => now' = now
    BY DEF vars
  <2>11. Asks(cmd)
    BY <1>2, ManagesSays
  <2> HIDE DEF cmd
  <2> QED BY <2>4, <2>5, <2>6, <2>7, <2>8, <2>9, <2>10, <2>11 DEF Asks, Next
<1>3. ASSUME NEW h \in Attempts, handling[h].stage # "none"
      PROVE  Asked(h[1])
  BY <1>3 DEF AttemptSound
<1>4. CASE \E h \in Attempts : Proceed(h) \/ Retrieved(h)
  <2>1. PICK h \in Attempts : Proceed(h) \/ Retrieved(h)
    BY <1>4
  <2>2. Asked(h[1])
    BY <1>3, <2>1 DEF Proceed, Retrieved
  <2>3. Manages(h) \/ UNCHANGED vars
    BY <2>1 DEF Proceed, Retrieved, FreshlyManages
  <2> QED BY <1>1, <1>2, <2>2, <2>3 DEF vars
<1>5. CASE \E s \in Services : Sweep(s)
  <2>1. ExpireManagedInstances \/ UNCHANGED vars
    BY <1>5 DEF Sweep
  <2> QED BY <1>1, <2>1 DEF Next, ExpireManagedInstances, vars
<1>6. CASE Elsewhere
  <2>1. Tick \/ \E a \in Agents : Remove(a)
    BY <1>6 DEF Elsewhere
  <2>2. now' \in Nat /\ now <= now'
    BY <1>1, <2>1 DEF Tick, Remove
  <2> QED BY <1>1, <2>1, <2>2 DEF Next, Legacy
<1>7. CASE UNCHANGED registrationVars
  BY <1>1, <1>7 DEF registrationVars, vars
<1>8. CASE \E c \in Clients : (\E cmd \in Requests : Start(c, cmd)) \/ Receive(c) \/ GiveUp(c)
  BY <1>1, <1>8 DEF Start, Receive, GiveUp, vars
<1>9. CASE \E h \in Attempts : Admit(h) \/ Complete(h) \/ EvidenceFails(h) \/ TimesOut(h)
  BY <1>1, <1>9 DEF Admit, Complete, EvidenceFails, TimesOut, vars
<1>10. CASE \E s \in Services : ExpiryDelivered(s) \/ SweepFails(s)
  BY <1>1, <1>10 DEF ExpiryDelivered, SweepFails, vars
<1> QED BY <1>4, <1>5, <1>6, <1>7, <1>8, <1>9, <1>10 DEF RegistrationNext

\* Time and evidence only add to what a client may rely on.
Grows ==
  /\ now \in Nat /\ now' \in Nat /\ now <= now'
  /\ events' \in [Clients -> SUBSET {"requested", "completed"}]
  /\ \A c \in Clients : events[c] \subseteq events'[c]
  /\ \A k \in Stored : receipts'[k] = receipts[k]

LEMMA ClientStands ==
  ASSUME RegistrationInv, Grows, NEW c \in Clients, request'[c] = request[c],
         attempt'[c] > 0 <=> attempt[c] > 0, executed'[c] = executed[c],
         told'[c].code = "ok" =>
           told[c].code = "ok" \/ (executed[c] = 1 /\ {"requested", "completed"} \subseteq events[c])
  PROVE  ClientSound(c)'
<1>1. ClientSound(c)
  BY DEF RegistrationInv
<1>2. Asked(c)' <=> Asked(c)
  BY DEF Asked
<1>3. Asked(c) => request[c].issued \in Nat /\ ReceiptOf(c) \in ReceiptKeys /\ ReceiptOf(c)' = ReceiptOf(c)
  BY RequestTypes DEF RegistrationInv, ReceiptOf, ReceiptKey
<1>4. Recorded(c) => Recorded(c)'
  <2> SUFFICES ASSUME Recorded(c) PROVE Recorded(c)'
    OBVIOUS
  <2>1. ReceiptOf(c) \in Stored /\ Asked(c)
    BY <1>3 DEF Recorded, Stored
  <2>2. receipts'[ReceiptOf(c)'] = receipts[ReceiptOf(c)] /\ "requested" \in events'[c]
    BY <1>3, <2>1 DEF Recorded, Grows
  <2> QED BY <1>2, <2>1, <2>2 DEF Recorded, ValidSuccess
<1>5. Asked(c) => (request[c].issued <= now => request'[c].issued <= now')
  BY <1>3 DEF Grows
<1> QED BY <1>1, <1>2, <1>4, <1>5 DEF ClientSound, Grows

LEMMA AttemptStands ==
  ASSUME RegistrationInv, Grows, NEW h \in Attempts, handling'[h] = handling[h],
         request'[h[1]] = request[h[1]] \/ ~Asked(h[1]),
         executed'[h[1]] = executed[h[1]] \/ executed[h[1]] = 0
  PROVE  AttemptSound(h)'
<1>1. h[1] \in Clients /\ AttemptSound(h)
  BY DEF Attempts, RegistrationInv
<1>2. events[h[1]] \subseteq events'[h[1]]
  BY <1>1 DEF Grows
<1>3. CASE ~Asked(h[1])
  BY <1>1, <1>3 DEF AttemptSound
<1>4. CASE Asked(h[1]) /\ request'[h[1]] = request[h[1]]
  BY <1>1, <1>2, <1>4 DEF AttemptSound, Asked, ValidSuccess
<1> QED BY <1>3, <1>4

\* An attempt that starts, or whose answer nobody waits for, promises nothing.
LEMMA NothingPromised ==
  ASSUME NEW h \in Attempts, Asked(h[1])', handling'[h].answer = NoAnswer,
         handling'[h].stage # "retrieving"
  PROVE  AttemptSound(h)'
BY DEF AttemptSound, NoAnswer

\* A step of one attempt that leaves the catalog's receipts alone.
LEMMA AttemptStep ==
  ASSUME RegistrationInv, [Next]_vars, Grows, NEW h \in Attempts,
         NEW v \in [stage : Stages, answer : AnswerRecord],
         handling' = [handling EXCEPT ![h] = v], AttemptSound(h)',
         UNCHANGED <<clientState, executed, receipts>>
  PROVE  RegistrationInv'
<1>1. TypeOK' /\ Counted'
  BY TypeStep, GenerationsCount DEF RegistrationInv
<1>2. RegistrationTypeOK'
  BY DEF RegistrationInv, RegistrationTypeOK, Grows, clientState
<1>3. OwnKeys' /\ ReceiptsAreOfClients'
  BY DEF RegistrationInv, OwnKeys, ReceiptsAreOfClients, Asked, ReceiptOf, ReceiptKey, Stored, clientState
<1>4. \A c \in Clients : ClientSound(c)'
  BY ClientStands DEF clientState
<1>5. ASSUME NEW g \in Attempts PROVE AttemptSound(g)'
  <2>1. g # h => handling'[g] = handling[g]
    BY DEF RegistrationInv, RegistrationTypeOK
  <2> QED BY <2>1, AttemptStands DEF clientState
<1> QED BY <1>1, <1>2, <1>3, <1>4, <1>5 DEF RegistrationInv

\* An answer made of a success its client accepts is one.
LEMMA OkIsSuccess ==
  ASSUME RegistrationInv, NEW c \in Clients, NEW result \in ResultRecord
  PROVE  /\ OkOf(result) \in AnswerRecord /\ OkOf(result).code = "ok"
         /\ ValidSuccess(c, OkOf(result)) <=> ValidSuccess(c, result)
BY DEF OkOf, AnswerRecord, ResultRecord, Codes, States, ValidSuccess

\* Executing a request: it had not been executed, for it had no receipt, and
\* the new receipt is its own.
LEMMA ExecutesKeeps ==
  ASSUME RegistrationInv, [Next]_vars, Grows, NEW h \in Attempts, Asked(h[1]),
         "requested" \in events'[h[1]], Executes(h), UNCHANGED clientState
  PROVE  RegistrationInv'
<1> DEFINE c == h[1]
<1>1. PICK r \in ReceiptRecord :
        /\ receipts' = [receipts EXCEPT ![ReceiptOf(c)] = r]
        /\ ValidSuccess(c, r.result) /\ Handles(h, "completing", OkOf(r.result))
  BY DEF Executes
<1>2. /\ c \in Clients /\ ClientSound(c) /\ ReceiptOf(c) \in ReceiptKeys
      /\ r.result \in ResultRecord /\ r # NoReceipt
  BY RequestTypes, NoReceiptAssumption DEF Attempts, RegistrationInv, ReceiptRecord
<1>3. /\ executed[c] = 0 /\ executed' = [executed EXCEPT ![c] = 1]
      /\ receipts[ReceiptOf(c)] = NoReceipt
  <2>1. executed[c] = 0 /\ receipts[ReceiptOf(c)] = NoReceipt
    BY <1>2 DEF Executes, ClientSound, Recorded
  <2> QED BY <2>1 DEF Executes
<1>4. /\ request' = request /\ attempt' = attempt /\ told' = told
      /\ executed' \in [Clients -> Nat] /\ executed'[c] = 1
      /\ \A d \in Clients : d # c => executed'[d] = executed[d]
      /\ receipts \in [ReceiptKeys -> ReceiptRecord \cup {NoReceipt}]
  BY <1>2, <1>3 DEF clientState, RegistrationInv, RegistrationTypeOK, TypeOK
<1>5. /\ receipts'[ReceiptOf(c)] = r
      /\ \A k \in ReceiptKeys : k # ReceiptOf(c) => receipts'[k] = receipts[k]
  BY <1>1, <1>2, <1>4
<1>6. /\ handling' = [handling EXCEPT ![h] = [stage |-> "completing", answer |-> OkOf(r.result)]]
      /\ handling'[h] = [stage |-> "completing", answer |-> OkOf(r.result)]
      /\ OkOf(r.result) \in AnswerRecord /\ OkOf(r.result).code = "ok"
      /\ ValidSuccess(c, OkOf(r.result))
  BY <1>1, <1>2, OkIsSuccess DEF Handles, RegistrationInv, RegistrationTypeOK
<1>7. TypeOK' /\ Counted'
  BY TypeStep, GenerationsCount DEF RegistrationInv
<1>8. RegistrationTypeOK'
  BY <1>4, <1>6 DEF RegistrationInv, RegistrationTypeOK, Grows, Stages
<1>9. OwnKeys'
  BY <1>4 DEF RegistrationInv, OwnKeys, Asked
<1>10. ReceiptsAreOfClients'
  <2> SUFFICES ASSUME NEW k \in Stored'
               PROVE  \E d \in Clients : Asked(d)' /\ ReceiptOf(d)' = k /\ executed'[d] = 1
    BY DEF ReceiptsAreOfClients
  <2>1. CASE k = ReceiptOf(c)
    BY <1>2, <1>4, <2>1 DEF Asked, ReceiptOf, ReceiptKey
  <2>2. CASE k # ReceiptOf(c)
    <3>1. k \in Stored
      BY <1>5, <2>2 DEF Stored
    <3>2. PICK d \in Clients : Asked(d) /\ ReceiptOf(d) = k /\ executed[d] = 1
      BY <3>1 DEF RegistrationInv, ReceiptsAreOfClients
    <3> QED BY <1>3, <1>4, <2>2, <3>2 DEF Asked, ReceiptOf, ReceiptKey
  <2> QED BY <2>1, <2>2
<1>11. ASSUME NEW d \in Clients PROVE ClientSound(d)'
  <2>1. CASE d # c
    BY <1>4, <2>1, ClientStands
  <2>2. CASE d = c
    <3>1. Asked(c)' /\ ReceiptOf(c)' = ReceiptOf(c) /\ request[c].issued \in Nat
      BY <1>2, <1>4, RequestTypes DEF Asked, ReceiptOf, ReceiptKey, RegistrationInv
    <3>2. Recorded(c)'
      BY <1>1, <1>2, <1>4, <1>5, <3>1 DEF Recorded, ValidSuccess
    <3>3. told[c].code # "ok"
      BY <1>2, <1>3 DEF ClientSound
    <3>4. request'[c].issued <= now'
      BY <1>2, <1>4, <3>1 DEF ClientSound, Grows
    <3> QED BY <1>2, <1>4, <2>2, <3>1, <3>2, <3>3, <3>4 DEF ClientSound
  <2> QED BY <2>1, <2>2
<1>12. ASSUME NEW g \in Attempts PROVE AttemptSound(g)'
  <2>1. CASE g = h
    <3>1. Asked(c)' /\ executed'[c] = 1
      BY <1>4 DEF Asked
    <3>2. ValidSuccess(c, handling[h].answer)'
      BY <1>4, <1>6 DEF ValidSuccess
    <3> QED BY <1>6, <2>1, <3>1, <3>2 DEF AttemptSound
  <2>2. CASE g # h
    <3>1. handling'[g] = handling[g] /\ g[1] \in Clients
      BY <1>6, <2>2 DEF RegistrationInv, RegistrationTypeOK, Attempts
    <3> QED BY <1>3, <1>4, <3>1, AttemptStands
  <2> QED BY <2>1, <2>2
<1> QED BY <1>7, <1>8, <1>9, <1>10, <1>11, <1>12 DEF RegistrationInv

\* Asking the catalog, however it answers.
LEMMA ManagingKeeps ==
  ASSUME RegistrationInv, [Next]_vars, Grows, NEW h \in Attempts, Asked(h[1]),
         "requested" \in events'[h[1]], Manages(h), UNCHANGED clientState
  PROVE  RegistrationInv'
<1> DEFINE c == h[1]
<1>1. c \in Clients /\ ClientSound(c) /\ ReceiptOf(c) \in ReceiptKeys
  BY RequestTypes DEF Attempts, RegistrationInv
<1>2. Executes(h) \/ Repeats(h) \/ Refuses(h)
  BY <1>1, ManagingIs DEF RegistrationInv, ClientSound
<1>3. CASE Executes(h)
  BY <1>3, ExecutesKeeps
<1>4. CASE Repeats(h)
  <2> DEFINE result == receipts[ReceiptOf(c)].result
             v == [stage |-> "completing", answer |-> OkOf(result)]
  <2>1. ReceiptOf(c) \in Stored /\ result \in ResultRecord
    BY <1>1, <1>4 DEF Repeats, Stored, RegistrationInv, TypeOK, ReceiptRecord
  <2>2. executed[c] = 1
    <3>1. PICK d \in Clients : Asked(d) /\ ReceiptOf(d) = ReceiptOf(c) /\ executed[d] = 1
      BY <2>1 DEF RegistrationInv, ReceiptsAreOfClients
    <3>2. d = c
      BY <1>1, <3>1 DEF RegistrationInv, OwnKeys, ReceiptOf, ReceiptKey
    <3> QED BY <3>1, <3>2
  <2>3. ValidSuccess(c, result)
    BY <1>1, <2>2 DEF ClientSound, Recorded
  <2>4. /\ v \in [stage : Stages, answer : AnswerRecord] /\ v.answer.code = "ok"
        /\ ValidSuccess(c, v.answer)
    BY <1>1, <2>1, <2>3, OkIsSuccess DEF Stages
  <2>5. handling' = [handling EXCEPT ![h] = v] /\ handling'[h] = v
    BY <1>4 DEF Repeats, Handles, RegistrationInv, RegistrationTypeOK
  <2>6. AttemptSound(h)'
    BY <1>4, <2>2, <2>4, <2>5 DEF AttemptSound, Repeats, Asked, clientState, ValidSuccess
  <2> HIDE DEF v
  <2> QED BY <1>4, <2>4, <2>5, <2>6, AttemptStep DEF Repeats
<1>5. CASE Refuses(h)
  <2>1. PICK code \in Codes :
          /\ code # "ok" /\ UNCHANGED <<executed, receipts>>
          /\ Handles(h, "completing", Failure(code))
    BY <1>5 DEF Refuses
  <2> DEFINE v == [stage |-> "completing", answer |-> Failure(code)]
  <2>2. v \in [stage : Stages, answer : AnswerRecord] /\ v.answer.code # "ok"
    BY <2>1 DEF Failure, NoAnswer, AnswerRecord, Stages, States
  <2>3. handling' = [handling EXCEPT ![h] = v] /\ handling'[h] = v
    BY <2>1 DEF Handles, RegistrationInv, RegistrationTypeOK
  <2>4. AttemptSound(h)'
    BY <2>1, <2>2, <2>3 DEF AttemptSound, Asked, clientState
  <2> HIDE DEF v
  <2> QED BY <2>1, <2>2, <2>3, <2>4, AttemptStep
<1> QED BY <1>2, <1>3, <1>4, <1>5

-----------------------------------------------------------------------------
(* The actions.                                                              *)

LEMMA Growing ==
  ASSUME RegistrationInv, [RegistrationNext]_registrationVars
  PROVE  [Next]_vars /\ Grows
<1>1. [Next]_vars /\ now \in Nat /\ now' \in Nat /\ now <= now'
  BY CatalogSteps DEF RegistrationInv
<1>2. \A k \in Stored : receipts'[k] = receipts[k]
  <2>1. ExpiringStep \/ FencingStep \/ CommandStep \/ UNCHANGED receipts
    BY <1>1, StepKinds DEF RegistrationInv
  <2>2. CASE CommandStep
    <3>1. PICK cmd \in CommandRecord : Applies(cmd) /\ Remember(cmd)
      BY <2>2 DEF CommandStep
    <3>2. receipts[ReceiptKey(cmd)] = NoReceipt
      BY <3>1 DEF Applies, HasReceipt
    <3> QED BY <3>1, <3>2 DEF Remember, Stored, RegistrationInv, TypeOK
  <2> QED BY <2>1, <2>2 DEF ExpiringStep, FencingStep
<1>3. /\ events' \in [Clients -> SUBSET {"requested", "completed"}]
      /\ \A c \in Clients : events[c] \subseteq events'[c]
  <2>1. events \in [Clients -> SUBSET {"requested", "completed"}]
    BY DEF RegistrationInv, RegistrationTypeOK
  <2>2. UNCHANGED events \/ \E h \in Attempts, event \in {"requested", "completed"} :
                               Acknowledged(h[1], event)
    BY DEF RegistrationNext, registrationVars, Start, Receive, GiveUp, Admit, Proceed, Retrieved,
       Complete, EvidenceFails, TimesOut, Sweep, ExpiryDelivered, SweepFails, Elsewhere
  <2> QED BY <2>1, <2>2 DEF Acknowledged, Attempts
<1> QED BY <1>1, <1>2, <1>3 DEF Grows

\* An attempt that goes on without an answer of success.
LEMMA HandlesKeeps ==
  ASSUME RegistrationInv, [Next]_vars, Grows, NEW h \in Attempts, Asked(h[1]),
         NEW s \in Stages, NEW reply \in AnswerRecord, reply.code # "ok", Handles(h, s, reply),
         s = "retrieving" => "requested" \in events'[h[1]],
         UNCHANGED <<clientState, executed, receipts>>
  PROVE  RegistrationInv'
<1> DEFINE v == [stage |-> s, answer |-> reply]
<1>1. v \in [stage : Stages, answer : AnswerRecord] /\ v.answer.code # "ok" /\ v.stage = s
  OBVIOUS
<1>2. handling' = [handling EXCEPT ![h] = v] /\ handling'[h] = v
  BY DEF Handles, RegistrationInv, RegistrationTypeOK
<1>3. AttemptSound(h)'
  BY <1>1, <1>2 DEF AttemptSound, Asked, clientState
<1> HIDE DEF v
<1> QED BY <1>1, <1>2, <1>3, AttemptStep

\* An answer that is sent, or dropped, is sound if it tells the truth.
LEMMA AnswersKeep ==
  ASSUME RegistrationInv, [Next]_vars, Grows, NEW h \in Attempts, Asked(h[1]),
         NEW reply \in AnswerRecord, Answers(h, reply),
         reply.code = "ok" => /\ executed[h[1]] = 1 /\ ValidSuccess(h[1], reply)
                              /\ {"requested", "completed"} \subseteq events'[h[1]],
         UNCHANGED <<clientState, executed, receipts>>
  PROVE  RegistrationInv'
<1>1. CASE Handles(h, "answered", reply)
  <2> DEFINE v == [stage |-> "answered", answer |-> reply]
  <2>1. v \in [stage : Stages, answer : AnswerRecord] /\ v.answer = reply /\ v.stage = "answered"
    BY DEF Stages
  <2>2. handling' = [handling EXCEPT ![h] = v] /\ handling'[h] = v
    BY <1>1 DEF Handles, RegistrationInv, RegistrationTypeOK
  <2>3. AttemptSound(h)'
    BY <2>1, <2>2 DEF AttemptSound, Asked, clientState, ValidSuccess
  <2> HIDE DEF v
  <2> QED BY <2>1, <2>2, <2>3, AttemptStep
<1>2. CASE handling' = [handling EXCEPT ![h] = Over]
  <2>1. Over \in [stage : Stages, answer : AnswerRecord]
    BY DEF Over, NoAnswer, Stages, AnswerRecord, Codes, States
  <2>2. handling'[h] = Over
    BY <1>2 DEF RegistrationInv, RegistrationTypeOK
  <2>3. AttemptSound(h)'
    BY <2>2, NothingPromised DEF Over, Asked, clientState
  <2> QED BY <1>2, <2>1, <2>3, AttemptStep
<1> QED BY <1>1, <1>2 DEF Answers

\* A failure is an answer that is not "ok".
LEMMA FailureTypes ==
  /\ NoAnswer \in AnswerRecord /\ NoAnswer.code # "ok"
  /\ \A code \in Codes : Failure(code) \in AnswerRecord /\ Failure(code).code = code
BY DEF NoAnswer, Failure, AnswerRecord, Codes, States

LEMMA AttemptsKeep ==
  ASSUME RegistrationInv, [Next]_vars, Grows, NEW h \in Attempts,
         Admit(h) \/ Proceed(h) \/ Retrieved(h) \/ Complete(h) \/ EvidenceFails(h) \/ TimesOut(h)
  PROVE  RegistrationInv'
<1> USE FailureTypes
<1>1. h[1] \in Clients /\ AttemptSound(h)
  BY DEF Attempts, RegistrationInv
<1>2. Asked(h[1])
  BY <1>1 DEF AttemptSound, Admit, Proceed, Retrieved, Complete, EvidenceFails, TimesOut
<1>3. handling[h] \in [stage : Stages, answer : AnswerRecord]
  BY DEF RegistrationInv, RegistrationTypeOK
<1>4. {"none", "completing", "requesting", "retrieving"} \subseteq Stages
      /\ {"replay_rejected", "unauthorized", "card_unavailable", "audit_unavailable",
          "service_unavailable"} \subseteq Codes
  BY DEF Stages, Codes
<1>5. \A event \in {"requested", "completed"} : Acknowledged(h[1], event) => event \in events'[h[1]]
  BY <1>1 DEF Acknowledged, RegistrationInv, RegistrationTypeOK
<1>6. CASE FreshlyManages(h) /\ "requested" \in events'[h[1]] /\ UNCHANGED clientState
  <2>1. CASE Manages(h)
    BY <1>2, <1>6, <2>1, ManagingKeeps
  <2>2. CASE Handles(h, "completing", Failure("replay_rejected")) /\ UNCHANGED <<vars, executed>>
    BY <1>2, <1>4, <1>6, <2>2, HandlesKeeps DEF vars
  <2> QED BY <1>6, <2>1, <2>2 DEF FreshlyManages
<1>7. CASE Admit(h)
  <2>1. UNCHANGED <<clientState, executed, receipts>>
    BY <1>7 DEF Admit, vars
  <2>2. \/ Handles(h, "completing", Failure("replay_rejected"))
        \/ Handles(h, "requesting", NoAnswer)
        \/ Handles(h, "completing", Failure("unauthorized"))
    BY <1>7 DEF Admit
  <2> QED BY <1>2, <1>4, <2>1, <2>2, HandlesKeeps
<1>8. CASE Proceed(h)
  <2>1. "requested" \in events'[h[1]] /\ UNCHANGED clientState
    BY <1>5, <1>8 DEF Proceed
  <2>2. CASE Manages(h)
    BY <1>2, <2>1, <2>2, ManagingKeeps
  <2>3. CASE Handles(h, "retrieving", NoAnswer) /\ UNCHANGED <<vars, executed>>
    BY <1>2, <1>4, <2>1, <2>3, HandlesKeeps DEF vars
  <2> QED BY <1>6, <1>8, <2>1, <2>2, <2>3 DEF Proceed
<1>9. CASE Retrieved(h)
  <2>1. "requested" \in events'[h[1]] /\ UNCHANGED clientState
    BY <1>1, <1>9 DEF Retrieved, AttemptSound
  <2>2. CASE Handles(h, "completing", Failure("card_unavailable")) /\ UNCHANGED <<vars, executed>>
    BY <1>2, <1>4, <2>1, <2>2, HandlesKeeps DEF vars
  <2> QED BY <1>6, <1>9, <2>1, <2>2 DEF Retrieved
<1>10. CASE Complete(h)
  <2>1. UNCHANGED <<clientState, executed, receipts>> /\ "completed" \in events'[h[1]]
    BY <1>5, <1>10 DEF Complete, vars
  <2>2. handling[h].answer.code = "ok" =>
          /\ executed[h[1]] = 1 /\ ValidSuccess(h[1], handling[h].answer)
          /\ {"requested", "completed"} \subseteq events'[h[1]]
    <3>1. executed[h[1]] = 1 => "requested" \in events'[h[1]]
      <4>1. ClientSound(h[1]) /\ events[h[1]] \subseteq events'[h[1]]
        BY <1>1 DEF RegistrationInv, Grows
      <4> QED BY <4>1 DEF ClientSound, Recorded
    <3> QED BY <1>1, <2>1, <3>1 DEF AttemptSound
  <2> QED BY <1>2, <1>3, <1>10, <2>1, <2>2, AnswersKeep DEF Complete
<1>11. CASE EvidenceFails(h) \/ TimesOut(h)
  <2>1. UNCHANGED <<clientState, executed, receipts>>
    BY <1>11 DEF EvidenceFails, TimesOut, vars
  <2>2. \E code \in {"audit_unavailable", "service_unavailable"} : Answers(h, Failure(code))
    BY <1>11 DEF EvidenceFails, TimesOut, WithoutEvidence
  <2>3. PICK code \in {"audit_unavailable", "service_unavailable"} : Answers(h, Failure(code))
    BY <2>2
  <2> QED BY <1>2, <1>4, <2>1, <2>3, AnswersKeep
<1> QED BY <1>7, <1>8, <1>9, <1>10, <1>11

\* The attempt a client waits for is one of its attempts.
LEMMA CurrentAttempt ==
  ASSUME RegistrationInv, NEW c \in Clients, attempt[c] > 0
  PROVE  /\ Current(c) \in Attempts /\ Current(c)[1] = c
         /\ handling[Current(c)] \in [stage : Stages, answer : AnswerRecord]
         /\ Asked(c)
<1>1. attempt[c] \in Nat /\ attempt[c] <= MaxAttempts[c] /\ MaxAttempts[c] \in 1 .. 3
  BY RegistrationAssumption DEF RegistrationInv, RegistrationTypeOK
<1>2. Current(c) \in Attempts /\ Current(c)[1] = c
  BY <1>1 DEF Current, Attempts
<1> QED BY <1>2 DEF RegistrationInv, RegistrationTypeOK, ClientSound

\* Taking an answer, or giving its attempt up, leaves nothing promised.
LEMMA HandedSound ==
  ASSUME RegistrationInv, NEW h \in Attempts
  PROVE  /\ Handed(h) \in [stage : Stages, answer : AnswerRecord]
         /\ Handed(h) = handling[h] \/ Handed(h) = Over
BY FailureTypes DEF RegistrationInv, RegistrationTypeOK, Handed, Over, Stages

\* Sending again, after the answer or the timeout of the attempt before.
LEMMA SendsKeep ==
  ASSUME RegistrationInv, Grows, NEW c \in Clients, Sends(c), Asked(c)',
         attempt[c] < MaxAttempts[c], UNCHANGED executed,
         \A d \in Clients : request'[d] = request[d] \/ ~Asked(d)
  PROVE  /\ handling' \in [Attempts -> [stage : Stages, answer : AnswerRecord]]
         /\ attempt' \in [Clients -> Nat] /\ \A d \in Clients : attempt'[d] <= MaxAttempts[d]
         /\ attempt'[c] > 0 /\ \A d \in Clients \ {c} : attempt'[d] = attempt[d]
         /\ \A h \in Attempts : AttemptSound(h)'
<1> DEFINE received == [stage |-> "received", answer |-> NoAnswer]
<1>1. /\ attempt \in [Clients -> Nat] /\ \A d \in Clients : attempt[d] <= MaxAttempts[d]
      /\ MaxAttempts \in [Clients -> 1 .. 3]
      /\ handling \in [Attempts -> [stage : Stages, answer : AnswerRecord]]
  BY RegistrationAssumption DEF RegistrationInv, RegistrationTypeOK
<1>2. /\ attempt' \in [Clients -> Nat] /\ attempt'[c] = attempt[c] + 1
      /\ \A d \in Clients \ {c} : attempt'[d] = attempt[d]
  BY <1>1 DEF Sends
<1>3. \A d \in Clients : attempt'[d] <= MaxAttempts[d]
  BY <1>1, <1>2
<1>4. received \in [stage : Stages, answer : AnswerRecord]
  BY FailureTypes DEF Stages
<1>5. handling' = [h \in Attempts |->
        IF h = <<c, attempt[c] + 1>> THEN received
        ELSE IF h = Current(c) THEN Handed(h) ELSE handling[h]]
  BY DEF Sends
<1>6. handling' \in [Attempts -> [stage : Stages, answer : AnswerRecord]]
  <2> HIDE DEF received
  <2> QED BY <1>1, <1>4, <1>5, HandedSound
<1>7. ASSUME NEW h \in Attempts PROVE AttemptSound(h)'
  <2>1. CASE handling'[h] = handling[h]
    <3>1. h[1] \in Clients
      BY DEF Attempts
    <3> QED BY <2>1, <3>1, AttemptStands
  <2>2. CASE h[1] = c /\ (handling'[h] = received \/ handling'[h] = Over)
    BY <2>2, NothingPromised DEF Over, Asked
  <2>3. handling'[h] = handling[h] \/ (h[1] = c /\ (handling'[h] = received \/ handling'[h] = Over))
    <3>1. CASE h = <<c, attempt[c] + 1>>
      BY <1>5, <3>1
    <3>2. CASE h # <<c, attempt[c] + 1>> /\ h = Current(c)
      <4>1. h[1] = c
        BY <3>2 DEF Current
      <4> HIDE DEF received
      <4> QED BY <1>5, <3>2, <4>1, HandedSound
    <3>3. CASE h # <<c, attempt[c] + 1>> /\ h # Current(c)
      BY <1>5, <3>3
    <3> QED BY <3>1, <3>2, <3>3
  <2> QED BY <2>1, <2>2, <2>3
<1> QED BY <1>1, <1>2, <1>3, <1>6, <1>7

\* A client that starts names a key of its own.
LEMMA StartKeeps ==
  ASSUME RegistrationInv, [Next]_vars, Grows, NEW c \in Clients, NEW cmd \in Requests, Start(c, cmd)
  PROVE  RegistrationInv'
<1> DEFINE asks == [cmd |-> cmd, issued |-> now]
<1>1. /\ asks \in RequestRecord /\ asks # NoRequest
      /\ request \in [Clients -> RequestRecord \cup {NoRequest}]
  BY RegistrationAssumption DEF RequestRecord, Grows, RegistrationInv, RegistrationTypeOK
<1>2. /\ ~Asked(c) /\ request' = [request EXCEPT ![c] = asks] /\ request'[c] = asks
      /\ \A d \in Clients \ {c} : request'[d] = request[d]
      /\ \A d \in Clients : Asked(d) => request[d].cmd.key # asks.cmd.key
      /\ UNCHANGED <<told, events, executed, receipts>>
  BY <1>1 DEF Start, Asked, vars
<1> HIDE DEF asks
<1>3. Asked(c)' /\ \A d \in Clients : request'[d] = request[d] \/ ~Asked(d)
  BY <1>1, <1>2 DEF Asked
<1>4. attempt[c] = 0 /\ executed[c] = 0 /\ told[c].code # "ok" /\ attempt[c] < MaxAttempts[c]
  <2>1. ClientSound(c) /\ attempt[c] \in Nat /\ MaxAttempts[c] \in 1 .. 3
    BY RegistrationAssumption DEF RegistrationInv, RegistrationTypeOK
  <2> QED BY <1>2, <2>1 DEF ClientSound, Recorded
<1>5. /\ handling' \in [Attempts -> [stage : Stages, answer : AnswerRecord]]
      /\ attempt' \in [Clients -> Nat] /\ \A d \in Clients : attempt'[d] <= MaxAttempts[d]
      /\ attempt'[c] > 0 /\ \A d \in Clients \ {c} : attempt'[d] = attempt[d]
      /\ \A h \in Attempts : AttemptSound(h)'
  BY <1>2, <1>3, <1>4, SendsKeep DEF Start
<1>6. TypeOK' /\ Counted'
  BY TypeStep, GenerationsCount DEF RegistrationInv
<1>7. RegistrationTypeOK'
  BY <1>1, <1>2, <1>5 DEF RegistrationInv, RegistrationTypeOK
<1>8. OwnKeys'
  BY <1>2 DEF RegistrationInv, OwnKeys, Asked
<1>9. ReceiptsAreOfClients'
  <2> SUFFICES ASSUME NEW k \in Stored'
               PROVE  \E d \in Clients : Asked(d)' /\ ReceiptOf(d)' = k /\ executed'[d] = 1
    BY DEF ReceiptsAreOfClients
  <2>1. k \in Stored
    BY <1>2 DEF Stored
  <2>2. PICK d \in Clients : Asked(d) /\ ReceiptOf(d) = k /\ executed[d] = 1
    BY <2>1 DEF RegistrationInv, ReceiptsAreOfClients
  <2> QED BY <1>2, <2>2 DEF Asked, ReceiptOf, ReceiptKey
<1>10. ASSUME NEW d \in Clients PROVE ClientSound(d)'
  <2>1. CASE d = c
    <3>1. request'[c].issued <= now'
      BY <1>2 DEF asks, Grows
    <3> QED BY <1>2, <1>3, <1>4, <1>5, <2>1, <3>1 DEF ClientSound
  <2>2. CASE d # c
    BY <1>2, <1>5, <2>2, ClientStands
  <2> QED BY <2>1, <2>2
<1> QED BY <1>5, <1>6, <1>7, <1>8, <1>9, <1>10 DEF RegistrationInv

\* A client that waits takes an answer, tries again or gives up.
LEMMA LoopKeeps ==
  ASSUME RegistrationInv, [Next]_vars, Grows, NEW c \in Clients, Receive(c) \/ GiveUp(c)
  PROVE  RegistrationInv'
<1>1. /\ UNCHANGED <<request, events, executed, receipts>> /\ attempt[c] > 0 /\ told[c] = NoAnswer
  BY DEF Receive, GiveUp, Waiting, vars
<1>2. /\ Current(c) \in Attempts /\ Current(c)[1] = c /\ Asked(c)
      /\ handling[Current(c)] \in [stage : Stages, answer : AnswerRecord]
  BY <1>1, CurrentAttempt
<1>3. \/ attempt[c] < MaxAttempts[c] /\ Sends(c) /\ UNCHANGED told
      \/ \E reply \in AnswerRecord :
           /\ Returns(c, reply)
           /\ reply.code = "ok" => handling[Current(c)] = [stage |-> "answered", answer |-> reply]
  <2>1. "service_unavailable" \in Codes
    BY DEF Codes
  <2>2. CASE GiveUp(c)
    BY <2>1, <2>2, FailureTypes DEF GiveUp
  <2>3. CASE Receive(c)
    <3> DEFINE got == handling[Current(c)].answer
               reply == IF got.code = "ok" /\ ~ValidSuccess(c, got)
                        THEN Failure("service_unavailable") ELSE got
    <3>1. reply \in AnswerRecord /\ (reply.code = "ok" => reply = got)
      BY <1>2, <2>1, FailureTypes
    <3>2. \/ attempt[c] < MaxAttempts[c] /\ Sends(c) /\ UNCHANGED told
          \/ Returns(c, reply)
      BY <2>3 DEF Receive
    <3>3. handling[Current(c)] = [stage |-> "answered", answer |-> got]
      BY <1>2, <2>3 DEF Receive
    <3> HIDE DEF reply, got
    <3> QED BY <3>1, <3>2, <3>3
  <2> QED BY <2>2, <2>3
<1>4. TypeOK' /\ Counted' /\ OwnKeys' /\ ReceiptsAreOfClients'
  <2>1. TypeOK' /\ Counted'
    BY TypeStep, GenerationsCount DEF RegistrationInv
  <2> QED BY <1>1, <2>1
      DEF RegistrationInv, OwnKeys, ReceiptsAreOfClients, Asked, ReceiptOf, ReceiptKey, Stored
<1>5. CASE attempt[c] < MaxAttempts[c] /\ Sends(c) /\ UNCHANGED told
  <2>1. Asked(c)'
    BY <1>1, <1>2 DEF Asked
  <2>2. /\ handling' \in [Attempts -> [stage : Stages, answer : AnswerRecord]]
        /\ attempt' \in [Clients -> Nat] /\ \A d \in Clients : attempt'[d] <= MaxAttempts[d]
        /\ attempt'[c] > 0 /\ \A d \in Clients \ {c} : attempt'[d] = attempt[d]
        /\ \A h \in Attempts : AttemptSound(h)'
    BY <1>1, <1>5, <2>1, SendsKeep
  <2>3. RegistrationTypeOK'
    BY <1>1, <1>5, <2>2 DEF RegistrationInv, RegistrationTypeOK
  <2>4. ASSUME NEW d \in Clients PROVE ClientSound(d)'
    BY <1>1, <1>5, <2>2, ClientStands
  <2> QED BY <1>4, <2>2, <2>3, <2>4 DEF RegistrationInv
<1>6. ASSUME NEW reply \in AnswerRecord, Returns(c, reply),
             reply.code = "ok" => handling[Current(c)] = [stage |-> "answered", answer |-> reply]
      PROVE  RegistrationInv'
  <2>1. /\ told' = [told EXCEPT ![c] = reply] /\ attempt' = attempt
        /\ handling' = [handling EXCEPT ![Current(c)] = Handed(Current(c))]
    BY <1>6 DEF Returns
  <2>2. RegistrationTypeOK'
    BY <1>1, <1>2, <2>1, HandedSound DEF RegistrationInv, RegistrationTypeOK
  <2>3. reply.code = "ok" => executed[c] = 1 /\ {"requested", "completed"} \subseteq events[c]
    <3>1. AttemptSound(Current(c))
      BY <1>2 DEF RegistrationInv
    <3> QED BY <1>2, <1>6, <3>1 DEF AttemptSound
  <2>4. ASSUME NEW d \in Clients PROVE ClientSound(d)'
    <3>1. told'[d] = IF d = c THEN reply ELSE told[d]
      BY <2>1 DEF RegistrationInv, RegistrationTypeOK
    <3> QED BY <1>1, <2>1, <2>3, <3>1, ClientStands
  <2>5. ASSUME NEW h \in Attempts PROVE AttemptSound(h)'
    <3>1. handling'[h] = IF h = Current(c) THEN Handed(h) ELSE handling[h]
      BY <2>1 DEF RegistrationInv, RegistrationTypeOK
    <3>2. CASE handling'[h] = handling[h]
      BY <1>1, <3>2, AttemptStands
    <3>3. CASE h = Current(c) /\ handling'[h] = Over
      <4>1. Asked(h[1])'
        BY <1>1, <1>2, <3>3 DEF Asked
      <4> QED BY <3>3, <4>1, NothingPromised DEF Over
    <3> QED BY <3>1, <3>2, <3>3, HandedSound
  <2> QED BY <1>4, <2>2, <2>4, <2>5 DEF RegistrationInv
<1> QED BY <1>3, <1>5, <1>6

-----------------------------------------------------------------------------
(* The theorems.                                                             *)

LEMMA RegistrationInitially == RegistrationInit => RegistrationInv
<1> SUFFICES ASSUME RegistrationInit PROVE RegistrationInv
  OBVIOUS
<1> USE DEF RegistrationInit
<1>1. TypeOK
  BY BoundsAssumption DEF Init, TypeOK, NoAgent, AgentRecord, InstanceRecord, NoInstance,
     Unmanaged, ManagedRecord
<1>2. Counted
  BY DEF Counted, Managed, Init, Unmanaged
<1>3. RegistrationTypeOK
  BY RegistrationAssumption, FailureTypes DEF RegistrationTypeOK, Stages
<1>4. OwnKeys
  BY DEF OwnKeys, Asked
<1>5. ReceiptsAreOfClients
  BY DEF ReceiptsAreOfClients, Stored, Init
<1>6. ASSUME NEW c \in Clients PROVE ClientSound(c)
  BY FailureTypes DEF ClientSound, Asked
<1>7. ASSUME NEW h \in Attempts PROVE AttemptSound(h)
  BY FailureTypes DEF AttemptSound
<1> QED BY <1>1, <1>2, <1>3, <1>4, <1>5, <1>6, <1>7 DEF RegistrationInv

\* Steps of the sweep, of time and of trusted code move no request.
LEMMA OthersStandStill ==
  ASSUME RegistrationInv, [Next]_vars, Grows, UNCHANGED <<clientState, handling, executed, receipts>>
  PROVE  RegistrationInv'
<1>1. TypeOK' /\ Counted'
  BY TypeStep, GenerationsCount DEF RegistrationInv
<1>2. RegistrationTypeOK'
  BY DEF RegistrationInv, RegistrationTypeOK, clientState, Grows
<1>3. OwnKeys' /\ ReceiptsAreOfClients'
  BY DEF RegistrationInv, OwnKeys, ReceiptsAreOfClients, Asked, ReceiptOf, ReceiptKey, Stored, clientState
<1>4. \A c \in Clients : ClientSound(c)'
  BY ClientStands DEF clientState
<1>5. \A h \in Attempts : AttemptSound(h)'
  BY AttemptStands DEF clientState
<1> QED BY <1>1, <1>2, <1>3, <1>4, <1>5 DEF RegistrationInv

LEMMA RegistrationKeeps == RegistrationInv /\ [RegistrationNext]_registrationVars => RegistrationInv'
<1> SUFFICES ASSUME RegistrationInv, [RegistrationNext]_registrationVars PROVE RegistrationInv'
  OBVIOUS
<1>1. [Next]_vars /\ Grows
  BY Growing
<1>2. ASSUME NEW c \in Clients, NEW cmd \in Requests, Start(c, cmd) PROVE RegistrationInv'
  BY <1>1, <1>2, StartKeeps
<1>3. ASSUME NEW c \in Clients, Receive(c) \/ GiveUp(c) PROVE RegistrationInv'
  BY <1>1, <1>3, LoopKeeps
<1>4. ASSUME NEW h \in Attempts,
             Admit(h) \/ Proceed(h) \/ Retrieved(h) \/ Complete(h) \/ EvidenceFails(h) \/ TimesOut(h)
      PROVE  RegistrationInv'
  BY <1>1, <1>4, AttemptsKeep
<1>5. CASE \/ \E s \in Services : Sweep(s) \/ ExpiryDelivered(s) \/ SweepFails(s)
           \/ Elsewhere \/ UNCHANGED registrationVars
  <2>1. UNCHANGED <<clientState, handling, executed>>
    BY <1>5 DEF Sweep, ExpiryDelivered, SweepFails, Elsewhere, registrationVars
  <2>2. UNCHANGED receipts
    BY <1>5 DEF Sweep, ExpireManagedInstances, ExpiryDelivered, SweepFails, Elsewhere, Tick, Remove,
       registrationVars, vars
  <2> QED BY <1>1, <2>1, <2>2, OthersStandStill
<1> QED BY <1>2, <1>3, <1>4, <1>5 DEF RegistrationNext

\* The types of a registration service with its clients.
THEOREM RegistrationTypes == RegistrationSpec => []RegistrationTypeOK
<1>1. RegistrationInv => RegistrationTypeOK
  BY DEF RegistrationInv
<1> QED BY <1>1, RegistrationInitially, RegistrationKeeps, PTL DEF RegistrationSpec

\* Overlapping and repeated attempts of a request make the catalog execute it at
\* most once, and never before the intent of an attempt was acknowledged.
THEOREM RequestsExecuteOnce == RegistrationSpec => []ExecutedOnceAfterIntent
<1>1. RegistrationInv => ExecutedOnceAfterIntent
  BY DEF RegistrationInv, RegistrationTypeOK, ExecutedOnceAfterIntent, ClientSound, Recorded
<1> QED BY <1>1, RegistrationInitially, RegistrationKeeps, PTL DEF RegistrationSpec

\* A client is told of success only with effect and evidence, and what the
\* service answers as a success is one to the client.
THEOREM SuccessIsToldExactly == RegistrationSpec => []SuccessIsTold
<1>1. RegistrationInv => SuccessIsTold
  BY DEF RegistrationInv, SuccessIsTold, OkIsExecutedAndRecorded, SuccessesAreAccepted,
     ClientSound, AttemptSound
<1> QED BY <1>1, RegistrationInitially, RegistrationKeeps, PTL DEF RegistrationSpec

\* The service does nothing to the catalog that ManagedCatalog does not do: what
\* is proved of every catalog holds of the one behind a service, its
\* refinement of InstanceAuthority first.
THEOREM ServiceImplementsCatalog == RegistrationSpec => Spec
<1>1. RegistrationInit => Init
  BY DEF RegistrationInit
<1>2. RegistrationInv /\ [RegistrationNext]_registrationVars => [Next]_vars
  BY Growing
<1> QED BY <1>1, <1>2, RegistrationInitially, RegistrationKeeps, PTL DEF RegistrationSpec, Spec

-----------------------------------------------------------------------------
(* The evidence of expiries.                                                 *)

Queued(s) == {queue[s][i] : i \in DOMAIN queue[s]}
SweepTypeOK ==
  /\ queue \in [Services -> Seq(Identities)]
  /\ sweeping \in [Services -> BOOLEAN] /\ \A s \in Services : sweeping[s] => queue[s] # <<>>

\* Whoever noticed an expiry, its evidence is with the catalog, in the queue of a
\* service, or acknowledged: a sink that fails and a sweep that is cancelled
\* lose none.
ExpiriesAreKept ==
  \A id \in Identities : ledger[id].state = "expired" =>
    id \in pending \cup expiries \cup UNION {Queued(s) : s \in Services}

\* A batch is all of the evidence, in some order.
LEMMA BatchIsAll ==
  ASSUME NEW ids, IsFiniteSet(ids), ids \subseteq Identities, NEW batch \in Orders(ids)
  PROVE  batch \in Seq(Identities) /\ \A id \in ids : \E i \in DOMAIN batch : batch[i] = id
<1> DEFINE n == Cardinality(ids)
<1>1. n \in Nat /\ IsFiniteSet(1 .. n) /\ Cardinality(1 .. n) = n
  BY FS_CardinalityType, FS_Interval
<1>2. batch \in [1 .. n -> ids] /\ \A i, j \in DOMAIN batch : batch[i] = batch[j] => i = j
  BY DEF Orders
<1>3. batch \in Injection(1 .. n, ids)
  BY <1>2 DEF Injection, IsInjective
<1>4. batch \in Surjection(1 .. n, ids)
  <2> HIDE DEF n
  <2> QED BY <1>1, <1>3, FS_Injection DEF n
<1>5. \A id \in ids : \E i \in 1 .. n : batch[i] = id
  BY <1>4 DEF Surjection
<1>6. batch \in Seq(Identities)
  <2>1. batch \in [1 .. n -> Identities]
    BY <1>2
  <2> QED BY <1>1, <2>1, SeqDef
<1> QED BY <1>2, <1>5, <1>6

\* What joins a queue, and what the rest of it is.
LEMMA QueueJoins ==
  ASSUME NEW q \in Seq(Identities), NEW b \in Seq(Identities)
  PROVE  /\ q \o b \in Seq(Identities)
         /\ {(q \o b)[i] : i \in DOMAIN (q \o b)} = {q[i] : i \in DOMAIN q} \cup {b[i] : i \in DOMAIN b}
<1>1. /\ q \o b \in Seq(Identities) /\ DOMAIN q = 1 .. Len(q) /\ DOMAIN b = 1 .. Len(b)
      /\ DOMAIN (q \o b) = 1 .. Len(q) + Len(b) /\ Len(q) \in Nat /\ Len(b) \in Nat
      /\ \A i \in 1 .. Len(q) + Len(b) : (q \o b)[i] = IF i <= Len(q) THEN q[i] ELSE b[i - Len(q)]
  BY ConcatProperties, LenProperties
<1>2. ASSUME NEW i \in DOMAIN (q \o b)
      PROVE  (q \o b)[i] \in {q[j] : j \in DOMAIN q} \cup {b[j] : j \in DOMAIN b}
  <2>1. CASE i <= Len(q)
    BY <1>1, <1>2, <2>1
  <2>2. CASE ~(i <= Len(q))
    <3>1. i - Len(q) \in DOMAIN b
      BY <1>1, <1>2, <2>2
    <3> QED BY <1>1, <1>2, <2>2, <3>1
  <2> QED BY <2>1, <2>2
<1>3. ASSUME NEW i \in DOMAIN q PROVE \E j \in DOMAIN (q \o b) : (q \o b)[j] = q[i]
  BY <1>1, <1>3
<1>4. ASSUME NEW i \in DOMAIN b PROVE \E j \in DOMAIN (q \o b) : (q \o b)[j] = b[i]
  <2>1. Len(q) + i \in DOMAIN (q \o b) /\ (q \o b)[Len(q) + i] = b[i]
    BY <1>1, <1>4
  <2> QED BY <2>1
<1> QED BY <1>1, <1>2, <1>3, <1>4

LEMMA QueueLeaves ==
  ASSUME NEW q \in Seq(Identities), q # <<>>
  PROVE  /\ Tail(q) \in Seq(Identities)
         /\ {q[i] : i \in DOMAIN q} \subseteq {Head(q)} \cup {Tail(q)[i] : i \in DOMAIN Tail(q)}
<1>1. /\ Tail(q) \in Seq(Identities) /\ DOMAIN q = 1 .. Len(q) /\ Len(q) \in Nat
      /\ DOMAIN Tail(q) = 1 .. Len(q) - 1
      /\ \A i \in 1 .. Len(q) - 1 : Tail(q)[i] = q[i + 1]
  BY HeadTailProperties, LenProperties
<1>2. ASSUME NEW i \in DOMAIN q PROVE q[i] = Head(q) \/ \E j \in DOMAIN Tail(q) : Tail(q)[j] = q[i]
  <2>1. CASE i = 1
    BY <2>1
  <2>2. CASE i # 1
    <3>1. i - 1 \in DOMAIN Tail(q) /\ Tail(q)[i - 1] = q[i]
      BY <1>1, <1>2, <2>2
    <3> QED BY <3>1
  <2> QED BY <2>1, <2>2
<1> QED BY <1>1, <1>2

\* Whatever does not hand the evidence out adds every expiry to it.
LEMMA NoticedIsPending ==
  ASSUME TypeOK, [Next]_vars, UNCHANGED reported
  PROVE  /\ pending \subseteq pending'
         /\ \A id \in Identities : ledger'[id].state = "expired" =>
              ledger[id].state = "expired" \/ id \in pending'
<1>1. CASE ExpiringStep
  <2>1. PICK ids \in SUBSET Identities :
          /\ Retires(ids, "expired")
          /\ \/ pending' = Evidence(ids)
             \/ reported' = [x \in Identities |->
                  reported[x] + IF x \in Evidence(ids) THEN 1 ELSE 0]
    BY <1>1 DEF ExpiringStep
  <2>2. CASE pending' = Evidence(ids)
    BY <2>1, <2>2 DEF Retires, Evidence
  <2>3. CASE reported' = [x \in Identities |-> reported[x] + IF x \in Evidence(ids) THEN 1 ELSE 0]
    <3>1. ASSUME NEW x \in Identities PROVE x \notin Evidence(ids)
      BY <2>3 DEF TypeOK
    <3>2. pending = {} /\ ids = {}
      BY <3>1 DEF Evidence, TypeOK
    <3> QED BY <2>1, <3>2 DEF Retires
  <2> QED BY <2>1, <2>2, <2>3
<1>2. CASE FencingStep
  BY <1>2 DEF FencingStep, Retires
<1>3. CASE CommandStep
  BY <1>3 DEF CommandStep
<1>4. CASE UNCHANGED <<ledger, receipts, pending, reported>>
  BY <1>4
<1> QED BY <1>1, <1>2, <1>3, <1>4, StepKinds

\* A sweep queues all that is handed out.
LEMMA SweepKeeps ==
  ASSUME TypeOK, SweepTypeOK, ExpiriesAreKept, NEW s \in Services, Sweep(s)
  PROVE  SweepTypeOK' /\ ExpiriesAreKept'
<1> DEFINE ids == Evidence(LapsedIds)
<1>1. ids \subseteq Identities /\ IsFiniteSet(ids)
  BY FiniteIdentities, FS_Subset DEF Evidence, LapsedIds, TypeOK
<1>2. PICK batch \in Orders(ids) :
        queue' = [queue EXCEPT ![s] = @ \o batch] /\ queue'[s] # <<>>
  BY DEF Sweep
<1>3. batch \in Seq(Identities) /\ \A id \in ids : \E i \in DOMAIN batch : batch[i] = id
  <2> HIDE DEF ids
  <2> QED BY <1>1, BatchIsAll
<1>4. queue[s] \in Seq(Identities) /\ queue'[s] = queue[s] \o batch
  BY <1>2 DEF SweepTypeOK
<1>5. /\ queue'[s] \in Seq(Identities)
      /\ {queue'[s][i] : i \in DOMAIN queue'[s]} = Queued(s) \cup {batch[i] : i \in DOMAIN batch}
  <2> DEFINE q == queue[s]
  <2>1. q \o batch \in Seq(Identities)
        /\ {(q \o batch)[i] : i \in DOMAIN (q \o batch)}
             = {q[i] : i \in DOMAIN q} \cup {batch[i] : i \in DOMAIN batch}
    <3>1. q \in Seq(Identities)
      BY <1>4
    <3> HIDE DEF q
    <3> QED BY <1>3, <3>1, QueueJoins
  <2> QED BY <1>4, <2>1 DEF Queued
<1>6. SweepTypeOK'
  BY <1>2, <1>5 DEF SweepTypeOK, Sweep
<1>7. /\ ids \subseteq Queued(s)' /\ Queued(s) \subseteq Queued(s)'
      /\ \A t \in Services \ {s} : Queued(t)' = Queued(t)
  <2>1. ids \subseteq {batch[i] : i \in DOMAIN batch}
    <3> HIDE DEF ids
    <3> QED BY <1>3
  <2>2. \A t \in Services \ {s} : queue'[t] = queue[t]
    BY <1>2 DEF SweepTypeOK
  <2>3. Queued(s)' = {queue'[s][i] : i \in DOMAIN queue'[s]}
    BY DEF Queued
  <2> QED BY <1>5, <2>1, <2>2, <2>3 DEF Queued
<1>8. ASSUME NEW id \in Identities, ledger'[id].state = "expired"
      PROVE  ledger[id].state = "expired" \/ id \in ids
  <2>1. CASE UNCHANGED vars
    BY <1>8, <2>1 DEF vars
  <2>2. CASE ExpireManagedInstances
    <3>1. Retires(LapsedIds, "expired")
      BY <2>2, RetirementRetires DEF ExpireManagedInstances, Expire, Publish, LapsedIds, Lapsed, Terminal
    <3> QED BY <1>8, <3>1 DEF Retires, Evidence
  <2> QED BY <2>1, <2>2 DEF Sweep
<1>9. pending \subseteq ids /\ UNCHANGED expiries
  BY DEF Evidence, Sweep
<1>10. ASSUME NEW id \in Identities, ledger'[id].state = "expired"
       PROVE  id \in expiries' \cup UNION {Queued(t)' : t \in Services}
  <2>1. id \in ids => id \in Queued(s)'
    BY <1>7
  <2>2. id \notin ids => id \in expiries \/ \E t \in Services : id \in Queued(t)
    BY <1>8, <1>9, <1>10 DEF ExpiriesAreKept
  <2> QED BY <1>7, <1>9, <2>1, <2>2
<1> QED BY <1>6, <1>10 DEF ExpiriesAreKept

\* An expiry that is acknowledged leaves the queue; one that is not stays.
LEMMA DeliveryKeeps ==
  ASSUME SweepTypeOK, ExpiriesAreKept, NEW s \in Services, ExpiryDelivered(s) \/ SweepFails(s)
  PROVE  SweepTypeOK' /\ ExpiriesAreKept'
<1>1. queue[s] \in Seq(Identities) /\ queue[s] # <<>> /\ UNCHANGED <<ledger, pending>>
  BY DEF SweepTypeOK, ExpiryDelivered, SweepFails, vars
<1>2. Tail(queue[s]) \in Seq(Identities)
      /\ Queued(s) \subseteq {Head(queue[s])} \cup {Tail(queue[s])[i] : i \in DOMAIN Tail(queue[s])}
  BY <1>1, QueueLeaves DEF Queued
<1>3. CASE ExpiryDelivered(s)
  <2>1. /\ queue' = [queue EXCEPT ![s] = Tail(queue[s])] /\ expiries' = expiries \cup {Head(queue[s])}
        /\ sweeping' = [sweeping EXCEPT ![s] = queue'[s] # <<>>]
    BY <1>3 DEF ExpiryDelivered
  <2>2. SweepTypeOK'
    BY <1>2, <2>1 DEF SweepTypeOK
  <2>3. queue'[s] = Tail(queue[s]) /\ \A t \in Services \ {s} : queue'[t] = queue[t]
    BY <2>1 DEF SweepTypeOK
  <2>4. /\ Queued(s) \subseteq {Head(queue[s])} \cup Queued(s)'
        /\ \A t \in Services \ {s} : Queued(t)' = Queued(t)
    BY <1>2, <2>3 DEF Queued
  <2> QED BY <1>1, <2>1, <2>2, <2>4 DEF ExpiriesAreKept
<1>4. CASE SweepFails(s)
  <2>1. queue' = queue /\ UNCHANGED expiries /\ sweeping' = [sweeping EXCEPT ![s] = FALSE]
    BY <1>1, <1>4 DEF SweepFails, Kept, SweepTypeOK
  <2> QED BY <1>1, <2>1 DEF ExpiriesAreKept, SweepTypeOK, Queued
<1> QED BY <1>3, <1>4

\* No expiry is lost on its way from the catalog to the sink, which is what the
\* liveness of ExpiriesAreReported rests on.
THEOREM ExpiriesAreNeverLost == RegistrationSpec => []ExpiriesAreKept
<1>1. RegistrationInit => SweepTypeOK /\ ExpiriesAreKept
  BY EmptySeq DEF RegistrationInit, SweepTypeOK, ExpiriesAreKept, Init, Unmanaged
<1>2. RegistrationInv /\ SweepTypeOK /\ ExpiriesAreKept /\ [RegistrationNext]_registrationVars
        => (SweepTypeOK /\ ExpiriesAreKept)'
  <2> SUFFICES ASSUME RegistrationInv, SweepTypeOK, ExpiriesAreKept,
                      [RegistrationNext]_registrationVars
               PROVE  SweepTypeOK' /\ ExpiriesAreKept'
    OBVIOUS
  <2>1. TypeOK /\ [Next]_vars
    BY Growing DEF RegistrationInv
  <2>2. CASE \E s \in Services : Sweep(s)
    BY <2>1, <2>2, SweepKeeps
  <2>3. CASE \E s \in Services : ExpiryDelivered(s) \/ SweepFails(s)
    BY <2>3, DeliveryKeeps
  <2>4. CASE UNCHANGED reported /\ UNCHANGED sweepState
    <3>1. pending \subseteq pending' /\ \A id \in Identities : ledger'[id].state = "expired" =>
            ledger[id].state = "expired" \/ id \in pending'
      BY <2>1, <2>4, NoticedIsPending
    <3> QED BY <2>4, <3>1 DEF sweepState, SweepTypeOK, ExpiriesAreKept, Queued
  <2>5. \A h \in Attempts : Manages(h) => UNCHANGED reported
    <3>1. ASSUME NEW cmd, Asks(cmd) PROVE UNCHANGED reported
      BY <3>1 DEF Asks, ManageLapse, ManageRegister, ManageRenew, ManageDrain, ManageRead,
         ManageTerminate, Mutates, vars
    <3> QED BY <3>1, ManagesSays
  <2>6. CASE \E h \in Attempts : \/ Admit(h) \/ Proceed(h) \/ Retrieved(h)
                                 \/ Complete(h) \/ EvidenceFails(h) \/ TimesOut(h)
    <3>1. UNCHANGED reported
      BY <2>5, <2>6 DEF Admit, Proceed, Retrieved, FreshlyManages, Complete, EvidenceFails, TimesOut, vars
    <3>2. UNCHANGED sweepState
      BY <2>6 DEF Admit, Proceed, Retrieved, Complete, EvidenceFails, TimesOut
    <3> QED BY <2>4, <3>1, <3>2
  <2>7. CASE \/ \E c \in Clients : (\E cmd \in Requests : Start(c, cmd)) \/ Receive(c) \/ GiveUp(c)
             \/ Elsewhere \/ UNCHANGED registrationVars
    <3>1. UNCHANGED reported /\ UNCHANGED sweepState
      BY <2>7 DEF Start, Receive, GiveUp, Elsewhere, Tick, Remove, registrationVars, vars
    <3> QED BY <2>4, <3>1
  <2> QED BY <2>2, <2>3, <2>6, <2>7 DEF RegistrationNext
<1> QED BY <1>1, <1>2, RegistrationInitially, RegistrationKeeps, PTL DEF RegistrationSpec
=============================================================================
