-------------------------- MODULE Delegation_proofs --------------------------
(***************************************************************************)
(* Proofs about Delegation, for every set of agents, capabilities and       *)
(* identifiers, every number of invocations and every budget: types, one    *)
(* ledger per tree, the instance that was discovered, chains that end and   *)
(* outcomes that are honest.  Each invariant rests on the ones before it.   *)
(***************************************************************************)
EXTENDS Delegation, FiniteSetTheorems, TLAPS

(***************************************************************************)
(* Types.  A loop takes the answer of its latest call: that it is a status  *)
(* needs that the call, once it returned, keeps its answer for its caller.  *)
(***************************************************************************)
InOrder ==
  /\ \A s \in Roots : phase[s] # "free"
  /\ \A d, e \in Slots : d < e /\ phase[e] # "free" => phase[d] # "free"

Latest(s, c) ==
  /\ c \in Dispatched /\ caller[c] = s
  /\ \A d \in Dispatched : caller[d] = s => d <= c

Awaited ==
  \A s \in Slots : phase[s] = "waiting" =>
    \E c \in Slots : Latest(s, c) /\ (phase[c] = "returned" => answer[c] # "none")

\* A loop whose call was admitted, or is under way, remembers it.
Open(s) == phase[s] \in {"accepted", "waiting"}
Held == \A s \in Slots : Open(s) => picked[s] # NoCall

TypedTree == TypeOK /\ InOrder /\ Awaited /\ Held

(***************************************************************************)
(* What a binding of a toolbox, or an admitted call, promises.              *)
(***************************************************************************)
Fulfillable(b) ==
  /\ b.generation <= generation
  /\ Registered(b.name) /\ epoch[b.name] = b.generation => agent[b.name] = b.of

Promises ==
  /\ \A n \in Names : epoch[n] <= generation
  /\ \A s \in Slots : \A b \in box[s] : Fulfillable(b)
  /\ \A s \in Slots : phase[s] = "accepted" =>
       picked[s].admitted = picked[s].binding.of
  /\ DiscoveredInstanceRuns

(***************************************************************************)
(* A chain is injective, and what is admitted may be added to it.           *)
(***************************************************************************)
Extensible(s) ==
  /\ Frame(picked[s].binding) \notin Path(s)
  /\ Len(path[s]) < TreeDepth

Distinct(s) == \A i, j \in DOMAIN path[s] : path[s][i] = path[s][j] => i = j

Chained ==
  /\ \A s \in Slots : phase[s] = "accepted" => Extensible(s)
  /\ \A s \in Slots : phase[s] # "free" => Distinct(s)
  /\ \A s \in Dispatched : caller[s] \in Slots /\ phase[caller[s]] # "free"
  /\ ChainsAreFinite

(***************************************************************************)
(* The books of a loop that did not fail.                                   *)
(***************************************************************************)
Unfailed(s) == outcome[s] \in {"none", "success", "fallback_success"}

Books(s) ==
  LET n == Len(results[s]) IN
  /\ \A i \in 1..(n - 1) : Succeeded(s, i)
  /\ n > 0 => results[s][n].status \in Fallback \cup {"success"}
  /\ fallback[s] <=> n > 0 /\ ~Succeeded(s, n)
  /\ \A i, j \in 1..n : results[s][i].id = results[s][j].id => i = j
  /\ IF Open(s) THEN /\ tools[s] = n + 1
                     /\ spent[s] + ToolTokens <= LoopTokens
                ELSE /\ tools[s] = n
                     /\ spent[s] <= LoopTokens
  /\ tools[s] <= MaxTools
  /\ outcome[s] # "none" => (outcome[s] = "success" <=> ~fallback[s])
  /\ outcome[s] # "none" /\ s \in Required => tools[s] > 0

Balanced ==
  \A s \in Slots :
    /\ outcome[s] # "none" => phase[s] = "working"
    /\ Unfailed(s) => Books(s)
    /\ Open(s) => ~fallback[s] /\ picked[s].id \notin Seen(s)

-----------------------------------------------------------------------------
(***************************************************************************)
(* The types of a step.                                                     *)
(***************************************************************************)
LEMMA RegistryTyped ==
  ASSUME RegistryTypeOK, RegistryNext
  PROVE  RegistryTypeOK'
<1>1. ASSUME NEW o \in Objects, NEW replace \in BOOLEAN, NEW exclusive \in BOOLEAN,
             Register(o, replace, exclusive)
      PROVE  RegistryTypeOK'
  <2>1. NameOf[o] \in Names /\ NextGeneration(NameOf[o]) \in Nat
    BY RegistryAssumption DEF RegistryTypeOK, NextGeneration
  <2> QED
    BY <1>1, <2>1, RegistryAssumption DEF Register, RegistryTypeOK
<1>2. ASSUME NEW n \in Names, NEW state \in Lifecycles, SetLifecycle(n, state)
      PROVE  RegistryTypeOK'
  BY <1>2 DEF SetLifecycle, RegistryTypeOK
<1>3. ASSUME NEW n \in Names, NEW up \in BOOLEAN, SetHealth(n, up)
      PROVE  RegistryTypeOK'
  BY <1>3 DEF SetHealth, RegistryTypeOK
<1>4. ASSUME NEW gone \in SUBSET Names, Withdraw(gone)
      PROVE  RegistryTypeOK'
  BY <1>4, RegistryAssumption DEF Withdraw, RegistryTypeOK
<1>5. ASSUME NEW n \in Names, Remove(n)
      PROVE  RegistryTypeOK'
  BY <1>4, <1>5 DEF Remove
<1>6. ASSUME Clear
      PROVE  RegistryTypeOK'
  BY <1>4, <1>6 DEF Clear
<1> QED
  BY <1>1, <1>2, <1>3, <1>5, <1>6 DEF RegistryNext

LEMMA SameRegistry ==
  ASSUME RegistryTypeOK, UNCHANGED registryVars
  PROVE  RegistryTypeOK'
BY DEF RegistryTypeOK, registryVars

LEMMA StatusTypes ==
  /\ Fallback \subseteq Statuses
  /\ Answers \subseteq Statuses
  /\ "none" \notin Statuses
  /\ {"success", "denied", "timeout", "cancellation", "budget_rejected",
      "stale_target", "unavailable", "cycle_rejected", "depth_rejected",
      "result_too_large"} \subseteq Statuses
BY DelegationAssumption DEF Statuses

LEMMA SlotTypes ==
  /\ Roots \subseteq Slots
  /\ Slots \subseteq Nat \ {0}
BY DelegationAssumption DEF Roots, Slots

Calls == [id : CallIds, status : Statuses]

LEMMA LoopTypes ==
  ASSUME TypeOK
  PROVE  /\ turns \in [Slots -> Nat] /\ tools \in [Slots -> Nat] /\ spent \in [Slots -> Nat]
         /\ results \in [Slots -> Seq(Calls)] /\ fallback \in [Slots -> BOOLEAN]
BY DEF TypeOK, Calls

LEMMA SettleTyped ==
  ASSUME TypeOK, NEW s \in Slots, NEW id \in CallIds, NEW status \in Statuses,
         NEW used \in Nat, Settle(s, id, status, used)
  PROVE  /\ phase' \in [Slots -> {"free", "working", "turn", "model", "accepted", "waiting",
                                  "returned"}]
         /\ spent' \in [Slots -> Nat] /\ fallback' \in [Slots -> BOOLEAN]
         /\ results' \in [Slots -> Seq(Calls)]
         /\ outcome' \in [Slots -> Outcomes]
<1>1. [id |-> id, status |-> status] \in Calls
  BY DEF Calls
<1>2. results[s] \in Seq(Calls) /\ Append(results[s], [id |-> id, status |-> status]) \in Seq(Calls)
  BY <1>1, LoopTypes
<1>3. FallbackAfter(s, status) \in BOOLEAN
  BY DEF FallbackAfter, TypeOK
<1>4. used + ToolTokens \in Nat
  BY DelegationAssumption
<1>5. {"success", "failure", "cancellation"} \subseteq Outcomes
  BY DEF Outcomes
<1>6. CASE cancelled
  <2>1. /\ Finish(s, "cancellation") /\ spent' = [spent EXCEPT ![s] = used]
        /\ UNCHANGED <<results, fallback>>
    BY <1>6 DEF Settle
  <2>2. phase' = [phase EXCEPT ![s] = "working"] /\ outcome' = [outcome EXCEPT ![s] = "cancellation"]
    BY <2>1 DEF Finish, Goes
  <2> QED  BY <2>1, <2>2, <1>5, LoopTypes DEF TypeOK
<1>7. CASE ~cancelled
  <2>1. results' = [results EXCEPT ![s] = Append(results[s], [id |-> id, status |-> status])]
    BY <1>7 DEF Settle
  <2>2. results' \in [Slots -> Seq(Calls)]
    BY <1>2, <2>1, LoopTypes
  <2>3. CASE Continues(status)
    <3>1. /\ phase' = [phase EXCEPT ![s] = "turn"] /\ outcome' = outcome
          /\ spent' = [spent EXCEPT ![s] = used + ToolTokens]
          /\ fallback' = [fallback EXCEPT ![s] = FallbackAfter(s, status)]
      BY <1>7, <2>3 DEF Settle, Goes
    <3> QED  BY <2>2, <3>1, <1>3, <1>4, LoopTypes DEF TypeOK
  <2>4. CASE ~Continues(status)
    <3>1. PICK code \in {"cancellation", "failure"} :
            /\ phase' = [phase EXCEPT ![s] = "working"] /\ outcome' = [outcome EXCEPT ![s] = code]
            /\ spent' = [spent EXCEPT ![s] = used] /\ fallback' = fallback
      BY <1>7, <2>4 DEF Settle, Finish, Goes
    <3>2. code \in Outcomes
      BY <1>5
    <3> QED  BY <2>2, <3>1, <3>2, LoopTypes DEF TypeOK
  <2> QED  BY <2>3, <2>4
<1> QED  BY <1>6, <1>7

LEMMA ReturnTyped ==
  ASSUME TypeOK, NEW s \in Slots, NEW status \in Statuses, Return(s, status)
  PROVE  TypeOK'
<1>1. RegistryTypeOK'
  BY SameRegistry DEF Return, TypeOK
<1>2. NoCall \in Picks /\ "none" \in Outcomes
  BY DEF Picks, Outcomes
<1>3. results' \in [Slots -> Seq(Calls)]
  BY LoopTypes DEF Return
<1>4. /\ turns' \in [Slots -> Nat] /\ tools' \in [Slots -> Nat]
      /\ spent' \in [Slots -> Nat] /\ fallback' \in [Slots -> BOOLEAN]
  BY LoopTypes DEF Return
<1>5. answer' \in [Slots -> Statuses \cup {"none"}]
  BY DEF Return, TypeOK
<1>6. /\ phase' \in [Slots -> {"free", "working", "turn", "model", "accepted", "waiting",
                               "returned"}]
      /\ box' \in [Slots -> SUBSET Bindings] /\ picked' \in [Slots -> Picks]
      /\ outcome' \in [Slots -> Outcomes]
  BY <1>2 DEF Return, Goes, Discard, TypeOK
<1>7. /\ target' \in [Slots -> Objects \cup {NoAgent}]
      /\ promise' \in [Slots -> Objects \cup {NoAgent}]
      /\ UNCHANGED <<caller, path, treeVars>>
  BY DEF Return, TypeOK
<1> QED
  BY <1>1, <1>3, <1>4, <1>5, <1>6, <1>7 DEF TypeOK, treeVars, Calls

LEMMA BindingTypes ==
  ASSUME TypeOK, NEW s \in Slots
  PROVE  /\ \A f \in Eligible(s) : Bound(f) \in Bindings
         /\ \A b \in Bindings : /\ Frame(b) \in Frames /\ b.of \in Objects
                                /\ b.name \in Names /\ b.generation \in Nat
         /\ \A p \in Picks : p # NoCall =>
              p.id \in CallIds /\ p.binding \in Bindings /\ p.admitted \in Objects \cup {NoAgent}
<1>1. ASSUME NEW f \in Eligible(s)
      PROVE  Bound(f) \in Bindings
  <2>1. f[1] \in Names /\ f[2] \in Capabilities /\ Registered(f[1])
    BY DEF Eligible, Servable
  <2>2. agent[f[1]] \in Objects /\ epoch[f[1]] \in Nat
    BY <2>1 DEF TypeOK, RegistryTypeOK, Registered
  <2> QED  BY <2>1, <2>2 DEF Bound, Bindings
<1>2. \A b \in Bindings : /\ Frame(b) \in Frames /\ b.of \in Objects
                          /\ b.name \in Names /\ b.generation \in Nat
  BY DEF Bindings, Frame, Frames
<1>3. \A p \in Picks : p # NoCall =>
        p.id \in CallIds /\ p.binding \in Bindings /\ p.admitted \in Objects \cup {NoAgent}
  BY DEF Picks
<1> QED  BY <1>1, <1>2, <1>3

LEMMA VerdictTypes ==
  ASSUME NEW s \in Slots, NEW b \in Bindings
  PROVE  Verdicts(s, b) \subseteq Statuses
BY StatusTypes DEF Verdicts, Verdict

\* The latest call is the one the loop waits for.
LEMMA ChildIsLatest ==
  ASSUME NEW s \in Slots, NEW c \in Slots, Latest(s, c)
  PROVE  Child(s) = c
<1>1. \A d : d \in Dispatched /\ caller[d] = s /\ (\A e \in Dispatched : caller[e] = s => e <= d)
             => d = c
  <2> SUFFICES ASSUME NEW d, d \in Dispatched, caller[d] = s,
                      \A e \in Dispatched : caller[e] = s => e <= d
               PROVE  d = c
    OBVIOUS
  <2>1. d <= c /\ c <= d
    BY DEF Latest
  <2>2. d \in Nat /\ c \in Nat
    BY SlotTypes DEF Dispatched
  <2> QED  BY <2>1, <2>2
<1> QED  BY <1>1 DEF Child, Latest

LEMMA ChildAnswers ==
  ASSUME TypedTree, NEW s \in Slots, phase[s] = "waiting", ~ChildLives(s)
  PROVE  Child(s) \in Dispatched /\ caller[Child(s)] = s /\ answer[Child(s)] \in Statuses
<1>1. PICK c \in Slots : Latest(s, c) /\ (phase[c] = "returned" => answer[c] # "none")
  BY DEF TypedTree, Awaited
<1>2. Child(s) = c /\ phase[c] = "returned"
  BY <1>1, ChildIsLatest DEF ChildLives
<1> QED  BY <1>1, <1>2 DEF Latest, TypedTree, TypeOK

LEMMA LoopStepTypes ==
  ASSUME TypedTree, NEW s \in Slots,
         \/ StartLoop(s) \/ TurnStarts(s) \/ GivesUp(s)
         \/ \E usage \in Usages : TerminalDecision(s, usage)
  PROVE  TypeOK'
<1> USE DEF TypedTree
<1>1. CASE StartLoop(s)
  <2>1. RegistryTypeOK'
    BY <1>1, SameRegistry DEF StartLoop, TypeOK
  <2>2. phase' = [phase EXCEPT ![s] = "turn"]
    BY <1>1 DEF StartLoop, Goes
  <2> QED  BY <1>1, <2>1, <2>2 DEF StartLoop, TypeOK, loopVars, callVars, treeVars
<1>2. CASE TurnStarts(s)
  <2>1. RegistryTypeOK'
    BY <1>2, SameRegistry DEF TurnStarts, TypeOK
  <2>2. turns' \in [Slots -> Nat]
    BY <1>2, LoopTypes DEF TurnStarts
  <2>3. box' \in [Slots -> SUBSET Bindings]
    <3>1. {Bound(f) : f \in Eligible(s)} \subseteq Bindings
      BY BindingTypes
    <3>2. box' = [box EXCEPT ![s] = {Bound(f) : f \in Eligible(s)}]
      BY <1>2 DEF TurnStarts, Discovered
    <3>3. box \in [Slots -> SUBSET Bindings]
      BY DEF TypeOK
    <3> HIDE DEF TypedTree
    <3> QED  BY <3>1, <3>2, <3>3
  <2>4. phase' = [phase EXCEPT ![s] = "model"]
    BY <1>2 DEF TurnStarts, Goes
  <2> QED  BY <1>2, <2>1, <2>2, <2>3, <2>4, LoopTypes DEF TurnStarts, TypeOK, callVars, treeVars, Calls
<1>3. CASE GivesUp(s)
  <2>1. RegistryTypeOK'
    BY <1>3, SameRegistry DEF GivesUp, TypeOK
  <2>2. PICK code \in {"failure", "cancellation"} : Finish(s, code)
    BY <1>3 DEF GivesUp
  <2>3. code \in Outcomes
    BY DEF Outcomes
  <2> QED
    BY <1>3, <2>1, <2>2, <2>3, LoopTypes
       DEF GivesUp, Finish, Goes, Discard, TypeOK, callVars, treeVars, Calls
<1>4. ASSUME NEW usage \in Usages, TerminalDecision(s, usage)
      PROVE  TypeOK'
  <2>1. RegistryTypeOK'
    BY <1>4, SameRegistry DEF TerminalDecision, TypeOK
  <2>2. spent' \in [Slots -> Nat]
    BY <1>4, LoopTypes, DelegationAssumption DEF TerminalDecision
  <2>3. "success" \in Outcomes /\ "fallback_success" \in Outcomes
    BY DEF Outcomes
  <2>4. outcome' \in [Slots -> Outcomes] /\ phase' = [phase EXCEPT ![s] = "working"]
    BY <1>4, <2>3 DEF TerminalDecision, Finish, Goes, TypeOK
  <2> QED
    BY <1>4, <2>1, <2>2, <2>4, LoopTypes
       DEF TerminalDecision, Discard, TypeOK, callVars, treeVars, Calls
<1> QED  BY <1>1, <1>2, <1>3, <1>4

LEMMA CallStepTypes ==
  ASSUME TypedTree, NEW s \in Slots,
         NEW usage \in Usages, NEW id \in CallIds, NEW b \in box[s], CallTool(s, usage, id, b)
  PROVE  TypeOK'
<1> USE DEF TypedTree
<1>1. RegistryTypeOK'
  BY SameRegistry DEF CallTool, TypeOK
<1>2. b \in Bindings /\ b.name \in Names
  BY BindingTypes DEF TypeOK
<1>3. tools' \in [Slots -> Nat] /\ spent[s] + usage \in Nat
  <2>1. usage \in Nat /\ spent[s] \in Nat
    BY LoopTypes, DelegationAssumption
  <2>2. tools' = [tools EXCEPT ![s] = tools[s] + 1]
    BY DEF CallTool
  <2> QED  BY <2>1, <2>2, LoopTypes
<1>4. /\ phase' \in [Slots -> {"free", "working", "turn", "model", "accepted", "waiting",
                               "returned"}]
      /\ spent' \in [Slots -> Nat] /\ fallback' \in [Slots -> BOOLEAN]
      /\ results' \in [Slots -> Seq(Calls)] /\ outcome' \in [Slots -> Outcomes]
      /\ picked' \in [Slots -> Picks]
  <2>1. PICK verdict \in Verdicts(s, b) :
          IF verdict = "success"
          THEN /\ Goes(s, "accepted")
               /\ spent' = [spent EXCEPT ![s] = @ + usage]
               /\ picked' = [picked EXCEPT ![s] = [id |-> id, binding |-> b, admitted |-> agent[b.name]]]
               /\ UNCHANGED <<results, fallback, outcome>>
          ELSE Settle(s, id, verdict, spent[s] + usage) /\ UNCHANGED picked
    BY DEF CallTool
  <2>2. CASE verdict = "success"
    <3>1. agent[b.name] \in Objects \cup {NoAgent}
      BY <1>2 DEF TypeOK, RegistryTypeOK
    <3>2. [id |-> id, binding |-> b, admitted |-> agent[b.name]] \in Picks
      BY <1>2, <3>1 DEF Picks
    <3>3. spent' = [spent EXCEPT ![s] = spent[s] + usage]
      BY <2>1, <2>2
    <3> QED  BY <1>3, <2>1, <2>2, <3>2, <3>3, LoopTypes DEF Goes, TypeOK
  <2>3. CASE verdict # "success"
    <3>1. verdict \in Statuses
      BY <1>2, VerdictTypes
    <3> QED  BY <1>3, <2>1, <2>3, <3>1, SettleTyped DEF TypeOK
  <2> QED  BY <2>2, <2>3
<1> QED
  BY <1>1, <1>3, <1>4, LoopTypes
     DEF CallTool, Discard, TypeOK, callVars, treeVars, Calls

LEMMA GatewayStepTypes ==
  ASSUME TypedTree, NEW s \in Slots,
         Dispatch(s) \/ Refuse(s) \/ ChildReturns(s)
  PROVE  TypeOK'
<1> USE DEF TypedTree
<1>1. /\ picked[s] # NoCall /\ picked[s] \in Picks
      /\ picked[s].id \in CallIds /\ picked[s].binding \in Bindings
      /\ picked[s].admitted \in Objects \cup {NoAgent}
  <2>1. picked[s] # NoCall /\ picked[s] \in Picks
    BY DEF Dispatch, Refuse, ChildReturns, Held, Open, TypeOK
  <2> QED  BY <2>1, BindingTypes
<1>2. RegistryTypeOK'
  BY SameRegistry DEF Dispatch, Refuse, ChildReturns, TypeOK
<1>3. NoCall \in Picks
  BY DEF Picks
<1>4. CASE Dispatch(s)
  <2>1. calls' \in Nat /\ tokens' \in Nat
    <3>1. calls \in Nat /\ tokens \in Nat /\ ToolTokens \in Nat
      BY DelegationAssumption DEF TypeOK
    <3>2. calls >= 1 /\ tokens >= ToolTokens /\ calls' = calls - 1 /\ tokens' = tokens - ToolTokens
      BY <1>4 DEF Dispatch, Affordable, Reserve
    <3> QED  BY <3>1, <3>2
  <2>2. PICK c \in Slots :
          /\ Vacant(c)
          /\ phase' = [phase EXCEPT ![s] = "waiting", ![c] = IF cancelled THEN "returned" ELSE "working"]
          /\ answer' = [answer EXCEPT ![c] = IF cancelled THEN "cancellation" ELSE @]
          /\ caller' = [caller EXCEPT ![c] = s]
          /\ path' = [path EXCEPT ![c] = ChildPath(s)]
          /\ target' = [target EXCEPT ![c] = picked[s].admitted]
          /\ promise' = [promise EXCEPT ![c] = picked[s].binding.of]
    BY <1>4 DEF Dispatch
  <2>3. ChildPath(s) \in Seq(Frames)
    <3>1. path[s] \in Seq(Frames) /\ Frame(picked[s].binding) \in Frames
      BY <1>1, BindingTypes DEF TypeOK
    <3> QED  BY <3>1 DEF ChildPath
  <2>4. path' \in [Slots -> Seq(Frames)]
    BY <2>2, <2>3 DEF TypeOK
  <2>5. answer' \in [Slots -> Statuses \cup {"none"}]
    BY <2>2, StatusTypes DEF TypeOK
  <2>6. /\ target' \in [Slots -> Objects \cup {NoAgent}]
        /\ promise' \in [Slots -> Objects \cup {NoAgent}]
    BY <1>1, <2>2, BindingTypes DEF TypeOK
  <2>7. /\ phase' \in [Slots -> {"free", "working", "turn", "model", "accepted", "waiting",
                                 "returned"}]
        /\ caller' \in [Slots -> Slots \cup {0}]
    BY <2>2 DEF TypeOK
  <2> QED
    BY <1>2, <1>4, <2>1, <2>4, <2>5, <2>6, <2>7, LoopTypes
       DEF Dispatch, TypeOK, loopVars, Calls
<1>5. CASE Refuse(s)
  <2>1. PICK status \in {"timeout", "budget_rejected"} : Settle(s, picked[s].id, status, spent[s])
    BY <1>5 DEF Refuse
  <2>2. status \in Statuses /\ spent[s] \in Nat
    BY StatusTypes, LoopTypes
  <2>3. picked' \in [Slots -> Picks]
    BY <1>3, <1>5 DEF Refuse, TypeOK
  <2> QED
    BY <1>1, <1>2, <1>5, <2>1, <2>2, <2>3, SettleTyped, LoopTypes
       DEF Refuse, TypeOK, callVars, treeVars, Calls
<1>6. CASE ChildReturns(s)
  <2>1. PICK status \in {answer[Child(s)], "result_too_large"} :
          Settle(s, picked[s].id, status, spent[s])
    BY <1>6 DEF ChildReturns
  <2>2. status \in Statuses /\ spent[s] \in Nat
    BY <1>6, StatusTypes, LoopTypes, ChildAnswers DEF ChildReturns
  <2>3. picked' \in [Slots -> Picks] /\ answer' \in [Slots -> Statuses \cup {"none"}]
    BY <1>3, <1>6 DEF ChildReturns, TypeOK
  <2> QED
    BY <1>1, <1>2, <1>6, <2>1, <2>2, <2>3, SettleTyped, LoopTypes
       DEF ChildReturns, TypeOK, treeVars, Calls
<1> QED  BY <1>4, <1>5, <1>6

LEMMA EndStepTypes ==
  ASSUME TypedTree, NEW s \in Slots, Ends(s) \/ Interrupted(s)
  PROVE  TypeOK'
BY ReturnTyped, StatusTypes DEF Ends, Interrupted, TypedTree

LEMMA TypesKept ==
  ASSUME TypedTree, [Next]_vars
  PROVE  TypeOK'
<1>1. ASSUME NEW s \in Slots, Step(s)
      PROVE  TypeOK'
  BY <1>1, LoopStepTypes, CallStepTypes, GatewayStepTypes, EndStepTypes DEF Step
<1>2. CASE RegistryChanges
  <2>1. RegistryTypeOK'
    BY <1>2, RegistryTyped DEF RegistryChanges, TypedTree, TypeOK
  <2> QED
    BY <1>2, <2>1 DEF RegistryChanges, TypedTree, TypeOK, loopVars, callVars, treeVars
<1>3. CASE Cancel
  <2>1. RegistryTypeOK'
    BY <1>3, SameRegistry DEF Cancel, TypedTree, TypeOK
  <2> QED  BY <1>3, <2>1 DEF Cancel, TypedTree, TypeOK, loopVars, callVars
<1>4. CASE DeadlinePasses
  <2>1. RegistryTypeOK'
    BY <1>4, SameRegistry DEF DeadlinePasses, TypedTree, TypeOK
  <2> QED  BY <1>4, <2>1 DEF DeadlinePasses, TypedTree, TypeOK, loopVars, callVars
<1>5. CASE UNCHANGED vars
  <2>1. RegistryTypeOK'
    BY <1>5, SameRegistry DEF vars, TypedTree, TypeOK
  <2> QED  BY <1>5, <2>1 DEF vars, TypedTree, TypeOK, loopVars, callVars, treeVars
<1> QED  BY <1>1, <1>2, <1>3, <1>4, <1>5 DEF Next

-----------------------------------------------------------------------------
(***************************************************************************)
(* What a step leaves alone: only Dispatch takes a slot, and every other    *)
(* step of a slot changes nothing of another one but the answer it takes.   *)
(***************************************************************************)
Steady ==
  /\ UNCHANGED <<caller, path, calls, tokens>>
  /\ \A t \in Slots : phase'[t] = "free" <=> phase[t] = "free"

SameLoop(t) ==
  /\ box'[t] = box[t] /\ picked'[t] = picked[t] /\ tools'[t] = tools[t] /\ spent'[t] = spent[t]
  /\ fallback'[t] = fallback[t] /\ results'[t] = results[t] /\ outcome'[t] = outcome[t]
SameCall(t) == phase'[t] = phase[t] /\ target'[t] = target[t] /\ promise'[t] = promise[t]

Local(s) ==
  /\ Steady
  /\ \A t \in Slots : t # s => SameLoop(t) /\ SameCall(t)
  /\ phase'[s] # "waiting"
  /\ \A c \in Slots : c # s /\ caller[c] # s => answer'[c] = answer[c]
  /\ phase'[s] = "returned" => s \in Roots \/ answer'[s] # "none"
  /\ phase'[s] = "accepted" => picked'[s] # NoCall
  /\ UNCHANGED registryVars

LEMMA SettleLocal ==
  ASSUME TypedTree, NEW s \in Slots, NEW id, NEW status, NEW used,
         Settle(s, id, status, used), phase[s] # "free"
  PROVE  /\ \A t \in Slots : phase'[t] = "free" <=> phase[t] = "free"
         /\ \A t \in Slots : t # s =>
              /\ phase'[t] = phase[t] /\ spent'[t] = spent[t] /\ fallback'[t] = fallback[t]
              /\ results'[t] = results[t] /\ outcome'[t] = outcome[t]
         /\ phase'[s] \in {"turn", "working"}
<1>1. /\ phase \in [Slots -> {"free", "working", "turn", "model", "accepted", "waiting", "returned"}]
      /\ DOMAIN spent = Slots /\ DOMAIN fallback = Slots /\ DOMAIN results = Slots
      /\ DOMAIN outcome = Slots
  BY DEF TypedTree, TypeOK
<1>2. CASE cancelled
  BY <1>1, <1>2 DEF Settle, Finish, Goes
<1>3. CASE ~cancelled /\ Continues(status)
  BY <1>1, <1>3 DEF Settle, Goes
<1>4. CASE ~cancelled /\ ~Continues(status)
  BY <1>1, <1>4 DEF Settle, Finish, Goes
<1> QED  BY <1>2, <1>3, <1>4

LEMMA ReturnLocal ==
  ASSUME TypedTree, NEW s \in Slots, NEW status \in Statuses, Return(s, status),
         phase[s] # "free"
  PROVE  Local(s)
<1>1. \A t \in Slots : t # s => SameLoop(t) /\ SameCall(t)
  BY DEF TypedTree, TypeOK, Return, Goes, Discard, SameLoop, SameCall
<1>2. phase'[s] = "returned" /\ (s \in Roots \/ answer'[s] = status)
  BY DEF TypedTree, TypeOK, Return, Goes
<1>3. \A c \in Slots : c # s => answer'[c] = answer[c]
  BY DEF TypedTree, TypeOK, Return
<1>4. Steady /\ UNCHANGED registryVars
  BY <1>1, <1>2 DEF Return, Steady, SameCall, treeVars
<1> QED  BY <1>1, <1>2, <1>3, <1>4, StatusTypes DEF Local

LEMMA StepLocal ==
  ASSUME TypedTree, NEW s \in Slots, Step(s), ~Dispatch(s)
  PROVE  Local(s)
<1>1. ASSUME StartLoop(s) \/ TurnStarts(s) \/ GivesUp(s)
             \/ \E usage \in Usages : TerminalDecision(s, usage)
      PROVE  Local(s)
  <2>1. /\ \A t \in Slots : t # s => SameLoop(t) /\ SameCall(t)
        /\ phase[s] # "free" /\ phase'[s] \in {"turn", "model", "working"}
        /\ UNCHANGED <<callVars, treeVars, registryVars>>
    <3>1. CASE StartLoop(s)
      BY <3>1 DEF StartLoop, Goes, TypedTree, TypeOK, SameLoop, SameCall, loopVars, callVars
    <3>2. CASE TurnStarts(s)
      BY <3>2 DEF TurnStarts, Goes, TypedTree, TypeOK, SameLoop, SameCall, callVars
    <3>3. CASE GivesUp(s)
      <4>1. PICK code \in {"failure", "cancellation"} : Finish(s, code)
        BY <3>3 DEF GivesUp
      <4> QED
        BY <3>3, <4>1
           DEF GivesUp, Finish, Goes, Discard, TypedTree, TypeOK, SameLoop, SameCall, callVars
    <3>4. ASSUME NEW usage \in Usages, TerminalDecision(s, usage)
          PROVE  /\ \A t \in Slots : t # s => SameLoop(t) /\ SameCall(t)
                 /\ phase[s] # "free" /\ phase'[s] \in {"turn", "model", "working"}
                 /\ UNCHANGED <<callVars, treeVars, registryVars>>
      BY <3>4
         DEF TerminalDecision, Charges, Finish, Goes, Discard, TypedTree, TypeOK, SameLoop,
             SameCall, callVars
    <3> QED  BY <1>1, <3>1, <3>2, <3>3, <3>4
  <2>2. Steady
    BY <2>1 DEF Steady, SameCall, callVars, treeVars
  <2> QED  BY <2>1, <2>2 DEF Local, callVars
<1>2. ASSUME NEW usage \in Usages, NEW id \in CallIds, NEW b \in box[s],
             CallTool(s, usage, id, b)
      PROVE  Local(s)
  <2>1. /\ UNCHANGED <<callVars, treeVars, registryVars>> /\ phase[s] = "model"
        /\ \A t \in Slots : t # s => tools'[t] = tools[t] /\ box'[t] = box[t]
    BY <1>2 DEF CallTool, Charges, Discard, TypedTree, TypeOK
  <2>2. PICK verdict \in Verdicts(s, b) :
          IF verdict = "success"
          THEN /\ Goes(s, "accepted")
               /\ spent' = [spent EXCEPT ![s] = @ + usage]
               /\ picked' = [picked EXCEPT ![s] = [id |-> id, binding |-> b, admitted |-> agent[b.name]]]
               /\ UNCHANGED <<results, fallback, outcome>>
          ELSE Settle(s, id, verdict, spent[s] + usage) /\ UNCHANGED picked
    BY <1>2 DEF CallTool
  <2>3. CASE verdict = "success"
    <3>1. /\ \A t \in Slots : t # s => SameLoop(t) /\ SameCall(t)
          /\ phase'[s] = "accepted"
      BY <2>1, <2>2, <2>3 DEF Goes, TypedTree, TypeOK, SameLoop, SameCall, callVars
    <3>2. picked'[s] # NoCall
      <4>1. picked'[s] = [id |-> id, binding |-> b, admitted |-> agent[b.name]]
        BY <2>2, <2>3 DEF TypedTree, TypeOK
      <4> QED  BY <4>1 DEF NoCall
    <3>3. Steady
      BY <2>1, <3>1 DEF Steady, SameCall, callVars, treeVars
    <3> QED  BY <2>1, <3>1, <3>2, <3>3 DEF Local, callVars
  <2>4. CASE verdict # "success"
    <3>1. /\ \A t \in Slots : t # s => SameLoop(t) /\ SameCall(t)
          /\ phase'[s] \in {"turn", "working"}
      BY <2>1, <2>2, <2>4, SettleLocal DEF SameLoop, SameCall, callVars
    <3>2. Steady
      BY <2>1, <3>1 DEF Steady, SameCall, callVars, treeVars
    <3> QED  BY <2>1, <3>1, <3>2 DEF Local, callVars
  <2> QED  BY <2>3, <2>4
<1>3. ASSUME Refuse(s) \/ ChildReturns(s)
      PROVE  Local(s)
  <2>1. PICK status : Settle(s, picked[s].id, status, spent[s])
    BY <1>3 DEF Refuse, ChildReturns
  <2>2. /\ UNCHANGED <<box, tools, caller, path, target, promise, treeVars, registryVars>>
        /\ phase[s] # "free"
        /\ \A t \in Slots : t # s => picked'[t] = picked[t]
    BY <1>3 DEF Refuse, ChildReturns, callVars, TypedTree, TypeOK
  <2>3. \A c \in Slots : caller[c] # s => answer'[c] = answer[c]
    <3>1. CASE Refuse(s)
      BY <3>1 DEF Refuse, callVars
    <3>2. CASE ChildReturns(s)
      <4>1. caller[Child(s)] = s
        BY <3>2, ChildAnswers DEF ChildReturns
      <4>2. answer' = [answer EXCEPT ![Child(s)] = "none"] /\ answer \in [Slots -> Statuses \cup {"none"}]
        BY <3>2 DEF ChildReturns, TypedTree, TypeOK
      <4> QED  BY <4>1, <4>2
    <3> QED  BY <1>3, <3>1, <3>2
  <2>4. /\ \A t \in Slots : t # s => SameLoop(t) /\ SameCall(t)
        /\ phase'[s] \in {"turn", "working"}
    BY <2>1, <2>2, SettleLocal DEF SameLoop, SameCall
  <2>5. Steady
    BY <2>2, <2>4 DEF Steady, SameCall, treeVars
  <2> QED  BY <2>2, <2>3, <2>4, <2>5 DEF Local
<1>4. ASSUME Ends(s) \/ Interrupted(s)
      PROVE  Local(s)
  BY <1>4, ReturnLocal, StatusTypes DEF Ends, Interrupted
<1> QED  BY <1>1, <1>2, <1>3, <1>4 DEF Step

\* The steps of the environment.
LEMMA OutsideStep ==
  ASSUME RegistryChanges \/ Cancel \/ DeadlinePasses \/ UNCHANGED vars
  PROVE  UNCHANGED <<phase, loopVars, callVars, calls, tokens>>
BY DEF RegistryChanges, Cancel, DeadlinePasses, vars, treeVars

(***************************************************************************)
(* A dispatched call is a slot of its own, that nobody had.                 *)
(***************************************************************************)
Taken(s, c) ==
  /\ c \in Slots \ Roots /\ phase[c] = "free" /\ s # c
  /\ \A d \in Slots : d < c <=> phase[d] # "free"
  /\ phase' = [phase EXCEPT ![s] = "waiting", ![c] = IF cancelled THEN "returned" ELSE "working"]
  /\ answer' = [answer EXCEPT ![c] = IF cancelled THEN "cancellation" ELSE @]
  /\ caller' = [caller EXCEPT ![c] = s]
  /\ path' = [path EXCEPT ![c] = ChildPath(s)]
  /\ target' = [target EXCEPT ![c] = picked[s].admitted]
  /\ promise' = [promise EXCEPT ![c] = picked[s].binding.of]
  /\ Dispatched' = Dispatched \cup {c}

LEMMA DispatchTakes ==
  ASSUME TypedTree, NEW s \in Slots, Dispatch(s)
  PROVE  \E c \in Slots : Taken(s, c)
<1>1. PICK c \in Slots :
        /\ Vacant(c)
        /\ phase' = [phase EXCEPT ![s] = "waiting", ![c] = IF cancelled THEN "returned" ELSE "working"]
        /\ answer' = [answer EXCEPT ![c] = IF cancelled THEN "cancellation" ELSE @]
        /\ caller' = [caller EXCEPT ![c] = s]
        /\ path' = [path EXCEPT ![c] = ChildPath(s)]
        /\ target' = [target EXCEPT ![c] = picked[s].admitted]
        /\ promise' = [promise EXCEPT ![c] = picked[s].binding.of]
  BY DEF Dispatch
<1>2. phase[c] = "free" /\ phase[s] = "accepted" /\ c \notin Roots
  BY <1>1 DEF Dispatch, Vacant, TypedTree, InOrder
<1>3. ASSUME NEW d \in Slots
      PROVE  d < c <=> phase[d] # "free"
  <2>1. d \in Nat /\ c \in Nat /\ d >= 1
    BY SlotTypes
  <2>2. d < c => d \in 1..(c - 1)
    BY <2>1
  <2>3. d < c => phase[d] # "free"
    BY <1>1, <2>2 DEF Vacant
  <2>4. c < d /\ phase[d] # "free" => phase[c] # "free"
    BY DEF TypedTree, InOrder
  <2>5. d < c \/ d = c \/ c < d
    BY <2>1
  <2> QED  BY <1>2, <2>1, <2>3, <2>4, <2>5
<1>4. Dispatched' = Dispatched \cup {c}
  BY <1>1, <1>2 DEF Dispatched, TypedTree, TypeOK
<1> QED  BY <1>1, <1>2, <1>3, <1>4 DEF Taken

LEMMA TreeKept ==
  ASSUME TypedTree, [Next]_vars
  PROVE  (InOrder /\ Awaited /\ Held)'
<1>1. ASSUME NEW s \in Slots, Step(s), ~Dispatch(s)
      PROVE  (InOrder /\ Awaited /\ Held)'
  <2>1. Local(s)
    BY <1>1, StepLocal
  <2>2. InOrder' /\ Dispatched' = Dispatched
    BY <2>1, SlotTypes DEF Local, Steady, TypedTree, InOrder, Dispatched
  <2>3. ASSUME NEW t \in Slots, phase'[t] = "waiting"
        PROVE  \E c \in Slots : Latest(t, c)' /\ (phase'[c] = "returned" => answer'[c] # "none")
    <3>1. t # s /\ phase[t] = "waiting"
      BY <2>1, <2>3 DEF Local, SameCall
    <3>2. PICK c \in Slots : Latest(t, c) /\ (phase[c] = "returned" => answer[c] # "none")
      BY <3>1 DEF TypedTree, Awaited
    <3>3. Latest(t, c)'
      BY <2>1, <2>2, <3>2 DEF Latest, Local, Steady
    <3>4. phase'[c] = "returned" => answer'[c] # "none"
      <4>1. caller[c] = t /\ c \notin Roots
        BY <3>2 DEF Latest, Dispatched
      <4> QED  BY <2>1, <3>1, <3>2, <4>1 DEF Local, SameCall
    <3> QED  BY <3>3, <3>4
  <2>4. Held'
    BY <2>1 DEF Held, Open, Local, SameLoop, SameCall, TypedTree
  <2> QED  BY <2>2, <2>3, <2>4 DEF Awaited
<1>2. ASSUME NEW s \in Slots, Dispatch(s)
      PROVE  (InOrder /\ Awaited /\ Held)'
  <2>1. PICK c \in Slots : Taken(s, c)
    BY <1>2, DispatchTakes
  <2>2. /\ \A t \in Slots : t # c /\ t # s => phase'[t] = phase[t]
        /\ phase[s] = "accepted" /\ phase'[s] = "waiting" /\ phase'[c] \in {"returned", "working"}
        /\ \A t \in Slots : t # c => caller'[t] = caller[t] /\ answer'[t] = answer[t]
        /\ caller'[c] = s /\ (phase'[c] = "returned" => answer'[c] = "cancellation")
    BY <1>2, <2>1 DEF Taken, Dispatch, TypedTree, TypeOK
  <2>3. InOrder'
    <3>1. \A t \in Roots : phase'[t] # "free"
      BY <2>1, <2>2, SlotTypes DEF TypedTree, InOrder, Taken
    <3>2. \A d \in Slots : phase'[d] # "free" <=> d < c \/ d = c
      BY <2>1, <2>2 DEF Taken
    <3>3. \A d, e \in Slots : d < e /\ (e < c \/ e = c) => d < c
      BY SlotTypes
    <3> QED  BY <3>1, <3>2, <3>3 DEF InOrder
  <2>4. ASSUME NEW t \in Slots, phase'[t] = "waiting"
        PROVE  \E e \in Slots : Latest(t, e)' /\ (phase'[e] = "returned" => answer'[e] # "none")
    <3>1. CASE t = s
      <4>1. \A d \in Dispatched' : d <= c
        <5>1. \A d \in Dispatched : d < c
          BY <2>1 DEF Taken, Dispatched
        <5>2. Dispatched' = Dispatched \cup {c} /\ c \in Nat /\ Dispatched \subseteq Nat
          BY <2>1, SlotTypes DEF Taken, Dispatched
        <5> QED  BY <5>1, <5>2
      <4>2. Latest(t, c)'
        BY <2>1, <2>2, <3>1, <4>1 DEF Latest, Taken
      <4> QED  BY <2>2, <4>2
    <3>2. CASE t # s
      <4>1. t # c /\ phase[t] = "waiting"
        BY <2>2, <2>4, <3>2
      <4>2. PICK e \in Slots : Latest(t, e) /\ (phase[e] = "returned" => answer[e] # "none")
        BY <4>1 DEF TypedTree, Awaited
      <4>3. e # c
        BY <2>1, <4>2 DEF Latest, Dispatched, Taken
      <4>4. Latest(t, e)'
        BY <2>1, <2>2, <3>2, <4>2, <4>3 DEF Latest, Taken, Dispatched
      <4> QED  BY <2>2, <4>2, <4>3, <4>4
    <3> QED  BY <3>1, <3>2
  <2>5. Held'
    BY <1>2, <2>2 DEF Held, Open, Dispatch, loopVars, TypedTree
  <2> QED  BY <2>3, <2>4, <2>5 DEF Awaited
<1>3. ASSUME UNCHANGED <<phase, loopVars, callVars, calls, tokens>>
      PROVE  (InOrder /\ Awaited /\ Held)'
  BY <1>3 DEF TypedTree, InOrder, Awaited, Held, Open, Latest, Dispatched, loopVars, callVars
<1> QED  BY <1>1, <1>2, <1>3, OutsideStep DEF Next

LEMMA TypedTreeInitially ==
  ASSUME Init
  PROVE  TypedTree
<1>1. RegistryTypeOK
  BY RegistryAssumption DEF Init, RegistryInit, RegistryTypeOK
<1>2. path \in [Slots -> Seq(Frames)]
  <2>1. <<RootFrame>> \in Seq(Frames) /\ <<>> \in Seq(Frames)
    BY DEF Frames
  <2> QED  BY <2>1 DEF Init
<1>3. TypeOK
  <2>1. "none" \in Outcomes /\ NoCall \in Picks
    BY DEF Outcomes, Picks
  <2>2. results \in [Slots -> Seq([id : CallIds, status : Statuses])]
    BY DEF Init
  <2>3. {turns, tools, spent} \subseteq [Slots -> Nat] /\ {calls, tokens} \subseteq Nat
    BY DelegationAssumption DEF Init
  <2>4. /\ phase \in [Slots -> {"free", "working", "turn", "model", "accepted", "waiting", "returned"}]
        /\ caller \in [Slots -> Slots \cup {0}]
        /\ {cancelled, late} \subseteq BOOLEAN /\ fallback \in [Slots -> BOOLEAN]
    BY DEF Init
  <2>5. /\ target \in [Slots -> Objects \cup {NoAgent}]
        /\ promise \in [Slots -> Objects \cup {NoAgent}]
        /\ box \in [Slots -> SUBSET Bindings] /\ picked \in [Slots -> Picks]
        /\ outcome \in [Slots -> Outcomes] /\ answer \in [Slots -> Statuses \cup {"none"}]
    BY <2>1 DEF Init
  <2> QED  BY <1>1, <1>2, <2>2, <2>3, <2>4, <2>5 DEF TypeOK
<1>4. InOrder
  BY SlotTypes, DelegationAssumption DEF Init, InOrder, Roots, Slots
<1>5. Awaited /\ Held
  BY DEF Init, Awaited, Held, Open
<1> QED  BY <1>3, <1>4, <1>5 DEF TypedTree

\* The tree is well formed in every state, on any number of slots.
LEMMA TreeFormed == Spec => []TypedTree
<1>1. TypedTree /\ [Next]_vars => TypedTree'
  BY TypesKept, TreeKept DEF TypedTree
<1> QED  BY <1>1, TypedTreeInitially, PTL DEF Spec

\* Every variable keeps its type, whatever the loops, the registry and the
\* environment do (the dataclasses of core/delegation and core/run_context).
THEOREM TypeCorrect == Spec => []TypeOK
<1>1. TypedTree => TypeOK
  BY DEF TypedTree
<1> QED  BY <1>1, TreeFormed, PTL

-----------------------------------------------------------------------------
(***************************************************************************)
(* One ledger for the tree.                                                 *)
(***************************************************************************)
LEMMA LedgerKept ==
  ASSUME TypedTree, LedgerBalances, [Next]_vars
  PROVE  LedgerBalances'
<1>1. ASSUME NEW s \in Slots, Step(s), ~Dispatch(s)
      PROVE  LedgerBalances'
  <2>1. Steady
    BY <1>1, StepLocal DEF Local
  <2>2. Dispatched' = Dispatched
    BY <2>1 DEF Steady, Dispatched
  <2> QED  BY <2>1, <2>2 DEF Steady, LedgerBalances
<1>2. ASSUME NEW s \in Slots, Dispatch(s)
      PROVE  LedgerBalances'
  <2>1. PICK c \in Slots : Dispatched' = Dispatched \cup {c} /\ c \notin Dispatched
    BY <1>2, DispatchTakes DEF Taken, Dispatched
  <2>2. IsFiniteSet(Dispatched)
    <3>1. MaxSlots \in Int /\ 1 \in Int
      BY DelegationAssumption
    <3>2. IsFiniteSet(1..MaxSlots)
      BY <3>1, FS_Interval
    <3>3. Dispatched \in SUBSET (1..MaxSlots)
      BY DEF Dispatched, Slots
    <3> QED  BY <3>2, <3>3, FS_Subset
  <2>3. Cardinality(Dispatched') = Cardinality(Dispatched) + 1 /\ Cardinality(Dispatched) \in Nat
    BY <2>1, <2>2, FS_AddElement, FS_CardinalityType
  <2>4. calls \in Nat /\ tokens \in Nat /\ ToolTokens \in Nat /\ TreeCalls \in Nat /\ TreeTokens \in Nat
    BY DelegationAssumption DEF TypedTree, TypeOK
  <2>5. calls' = calls - 1 /\ tokens' = tokens - ToolTokens
    BY <1>2 DEF Dispatch, Reserve
  <2> DEFINE k == Cardinality(Dispatched)
  <2>6. Cardinality(Dispatched') = k + 1 /\ k \in Nat
    BY <2>3
  <2>7. calls + k = TreeCalls /\ tokens + ToolTokens * k = TreeTokens
    BY DEF LedgerBalances
  <2> HIDE DEF k
  <2>8. ToolTokens * (k + 1) = ToolTokens * k + ToolTokens /\ ToolTokens * k \in Nat
    BY <2>4, <2>6
  <2>9. calls' >= 0 /\ tokens' >= 0
    BY <1>2, <2>4, <2>5 DEF Dispatch, Affordable
  <2> QED  BY <2>4, <2>5, <2>6, <2>7, <2>8, <2>9 DEF LedgerBalances
<1>3. ASSUME UNCHANGED <<phase, loopVars, callVars, calls, tokens>>
      PROVE  LedgerBalances'
  BY <1>3 DEF LedgerBalances, Dispatched
<1> QED  BY <1>1, <1>2, <1>3, OutsideStep DEF Next

\* However many loops delegate side by side and however deep, the tree spends
\* what it was given and no more (DelegationBudget.reserve).
THEOREM BudgetShared == Spec => []LedgerBalances
<1>1. ASSUME Init
      PROVE  LedgerBalances
  <2>1. Dispatched = {}
    BY <1>1 DEF Init, Dispatched
  <2>2. Cardinality({}) = 0
    BY FS_EmptySet
  <2> QED  BY <1>1, <2>1, <2>2, DelegationAssumption DEF Init, LedgerBalances
<1>2. TypedTree /\ LedgerBalances /\ [Next]_vars => LedgerBalances'
  BY LedgerKept
<1> QED  BY <1>1, <1>2, TreeFormed, PTL DEF Spec

-----------------------------------------------------------------------------
(***************************************************************************)
(* What a step changes of its own slot.                                     *)
(***************************************************************************)
Admits(s, b) ==
  /\ Verdict(s, b) = "success"
  /\ picked'[s].binding = b /\ picked'[s].admitted = agent[b.name]

LEMMA OwnChanges ==
  ASSUME TypedTree, NEW s \in Slots, Step(s), ~Dispatch(s)
  PROVE  /\ box'[s] \subseteq box[s] \/ box'[s] = {Bound(f) : f \in Eligible(s)}
         /\ target'[s] = promise'[s] \/ (target'[s] = target[s] /\ promise'[s] = promise[s])
         /\ phase'[s] = "accepted" => \E b \in box[s] : Admits(s, b)
<1>1. CASE StartLoop(s)
  BY <1>1 DEF StartLoop, Goes, loopVars, callVars, TypedTree, TypeOK
<1>2. CASE TurnStarts(s)
  BY <1>2 DEF TurnStarts, Discovered, Goes, callVars, TypedTree, TypeOK
<1>3. CASE GivesUp(s)
  <2>1. PICK code \in {"failure", "cancellation"} : Finish(s, code)
    BY <1>3 DEF GivesUp
  <2> QED  BY <1>3, <2>1 DEF GivesUp, Finish, Goes, Discard, callVars, TypedTree, TypeOK
<1>4. ASSUME NEW usage \in Usages, TerminalDecision(s, usage)
      PROVE  /\ box'[s] = {} /\ phase'[s] = "working"
             /\ target'[s] = target[s] /\ promise'[s] = promise[s]
  BY <1>4 DEF TerminalDecision, Finish, Goes, Discard, callVars, TypedTree, TypeOK
<1>5. ASSUME NEW usage \in Usages, NEW id \in CallIds, NEW b \in box[s],
             CallTool(s, usage, id, b)
      PROVE  /\ box'[s] = {} /\ target'[s] = target[s] /\ promise'[s] = promise[s]
             /\ phase'[s] = "accepted" => Admits(s, b)
  <2>1. box'[s] = {} /\ target'[s] = target[s] /\ promise'[s] = promise[s] /\ phase[s] = "model"
    BY <1>5 DEF CallTool, Charges, Discard, callVars, TypedTree, TypeOK
  <2>2. PICK verdict \in Verdicts(s, b) :
          IF verdict = "success"
          THEN /\ Goes(s, "accepted")
               /\ spent' = [spent EXCEPT ![s] = @ + usage]
               /\ picked' = [picked EXCEPT ![s] = [id |-> id, binding |-> b, admitted |-> agent[b.name]]]
               /\ UNCHANGED <<results, fallback, outcome>>
          ELSE Settle(s, id, verdict, spent[s] + usage) /\ UNCHANGED picked
    BY <1>5 DEF CallTool
  <2>3. CASE verdict = "success"
    <3>1. Verdict(s, b) = "success"
      BY <2>3 DEF Verdicts
    <3>2. picked'[s] = [id |-> id, binding |-> b, admitted |-> agent[b.name]]
      BY <2>2, <2>3 DEF TypedTree, TypeOK
    <3> QED  BY <2>1, <3>1, <3>2 DEF Admits
  <2>4. CASE verdict # "success"
    BY <2>1, <2>2, <2>4, SettleLocal
  <2> QED  BY <2>3, <2>4
<1>6. ASSUME Refuse(s) \/ ChildReturns(s)
      PROVE  /\ box'[s] = box[s] /\ target'[s] = target[s] /\ promise'[s] = promise[s]
             /\ phase'[s] # "accepted"
  <2>1. (\E status : Settle(s, picked[s].id, status, spent[s])) /\ phase[s] # "free"
    BY <1>6 DEF Refuse, ChildReturns
  <2> QED  BY <1>6, <2>1, SettleLocal DEF Refuse, ChildReturns, callVars
<1>7. ASSUME Ends(s) \/ Interrupted(s)
      PROVE  box'[s] = {} /\ target'[s] = promise'[s] /\ phase'[s] = "returned"
  BY <1>7 DEF Ends, Interrupted, Return, Goes, Discard, TypedTree, TypeOK
<1> QED  BY <1>1, <1>2, <1>3, <1>4, <1>5, <1>6, <1>7 DEF Step

-----------------------------------------------------------------------------
(***************************************************************************)
(* The instance that was discovered.                                        *)
(***************************************************************************)
LEMMA RegistryPromises ==
  ASSUME RegistryTypeOK, RegistryNext, \A n \in Names : epoch[n] <= generation
  PROVE  /\ \A n \in Names : epoch'[n] <= generation'
         /\ \A b \in Bindings : Fulfillable(b) => Fulfillable(b)'
<1> DEFINE Goal == /\ \A n \in Names : epoch'[n] <= generation'
                   /\ \A b \in Bindings : Fulfillable(b) => Fulfillable(b)'
<1>0. \A b \in Bindings : b.name \in Names /\ b.generation \in Nat
  BY DEF Bindings
<1>1. ASSUME NEW o \in Objects, NEW replace \in BOOLEAN, NEW exclusive \in BOOLEAN,
             Register(o, replace, exclusive)
      PROVE  Goal
  <2> DEFINE name == NameOf[o]
             gone == (IF exclusive THEN Conflicting(o) \ {name} ELSE {})
  <2>1. /\ name \in Names /\ generation \in Nat /\ generation' = generation + 1
        /\ \A n \in Names : /\ n = name => epoch'[n] = generation + 1
                            /\ n # name /\ n \in gone => epoch'[n] = 0 /\ agent'[n] = NoAgent
                            /\ n # name /\ n \notin gone => epoch'[n] = epoch[n] /\ agent'[n] = agent[n]
    BY <1>1, RegistryAssumption DEF Register, NextGeneration, RegistryTypeOK
  <2>2. \A n \in Names : epoch[n] \in Nat
    BY DEF RegistryTypeOK
  <2> HIDE DEF name, gone
  <2>3. \A n \in Names : epoch'[n] <= generation'
    BY <2>1, <2>2
  <2>4. ASSUME NEW b \in Bindings, Fulfillable(b)
        PROVE  Fulfillable(b)'
    <3>1. b.generation <= generation /\ b.generation \in Nat /\ b.name \in Names
      BY <1>0, <2>4 DEF Fulfillable
    <3>2. b.generation <= generation' /\ b.generation # generation + 1
      BY <2>1, <3>1
    <3> QED  BY <2>1, <2>4, <3>1, <3>2 DEF Fulfillable, Registered
  <2> QED  BY <2>3, <2>4
<1>2. ASSUME NEW gone \in SUBSET Names, Withdraw(gone)
      PROVE  Goal
  <2>1. /\ generation' = generation /\ generation \in Nat
        /\ \A n \in Names : IF n \in gone THEN epoch'[n] = 0 /\ agent'[n] = NoAgent
                                          ELSE epoch'[n] = epoch[n] /\ agent'[n] = agent[n]
    BY <1>2 DEF Withdraw, RegistryTypeOK
  <2> QED  BY <1>0, <2>1 DEF Fulfillable, Registered
<1>3. ASSUME UNCHANGED <<agent, epoch, generation>>
      PROVE  Goal
  BY <1>3 DEF Fulfillable, Registered
<1>4. (\E o \in Objects, replace, exclusive \in BOOLEAN : Register(o, replace, exclusive))
      \/ (\E gone \in SUBSET Names : Withdraw(gone)) \/ UNCHANGED <<agent, epoch, generation>>
  BY DEF RegistryNext, Remove, Clear, SetLifecycle, SetHealth
<1> QED  BY <1>1, <1>2, <1>3, <1>4

LEMMA PromisesKept ==
  ASSUME TypedTree, Promises, [Next]_vars
  PROVE  Promises'
<1>1. ASSUME NEW s \in Slots, Step(s), ~Dispatch(s)
      PROVE  Promises'
  <2>1. Local(s) /\ Dispatched' = Dispatched
    BY <1>1, StepLocal DEF Local, Steady, Dispatched
  <2>2. \A b : Fulfillable(b)' <=> Fulfillable(b)
    BY <2>1 DEF Local, registryVars, Fulfillable, Registered
  <2>3. ASSUME NEW t \in Slots, NEW b \in box'[t]
        PROVE  Fulfillable(b)'
    <3>1. CASE b \in box[t]
      BY <2>2, <3>1 DEF Promises
    <3>2. CASE b \notin box[t]
      <4>1. t = s
        BY <2>1, <3>2 DEF Local, SameLoop
      <4>2. PICK f \in Eligible(s) : b = Bound(f)
        BY <1>1, <3>2, <4>1, OwnChanges
      <4>3. f[1] \in Names
        BY DEF Eligible
      <4> QED  BY <2>2, <4>2, <4>3 DEF Promises, Bound, Fulfillable
    <3> QED  BY <3>1, <3>2
  <2>4. ASSUME NEW t \in Slots, phase'[t] = "accepted"
        PROVE  picked'[t].admitted = picked'[t].binding.of
    <3>1. CASE t = s
      <4>1. PICK b \in box[s] : Admits(s, b)
        BY <1>1, <2>4, <3>1, OwnChanges
      <4>2. Registered(b.name) /\ epoch[b.name] = b.generation
        BY <4>1 DEF Admits, Verdict
      <4> QED  BY <3>1, <4>1, <4>2 DEF Promises, Fulfillable, Admits
    <3>2. CASE t # s
      BY <2>1, <2>4, <3>2 DEF Promises, Local, SameLoop, SameCall
    <3> QED  BY <3>1, <3>2
  <2>5. DiscoveredInstanceRuns'
    <3>1. ASSUME NEW t \in Dispatched
          PROVE  target'[t] = promise'[t]
      <4>1. t \in Slots /\ target[t] = promise[t]
        BY DEF Dispatched, Promises, DiscoveredInstanceRuns
      <4> QED  BY <1>1, <2>1, <4>1, OwnChanges DEF Local, SameCall
    <3> QED  BY <2>1, <3>1 DEF DiscoveredInstanceRuns
  <2>6. \A n \in Names : epoch'[n] <= generation'
    BY <2>1 DEF Local, registryVars, Promises
  <2> QED  BY <2>3, <2>4, <2>5, <2>6 DEF Promises
<1>2. ASSUME NEW s \in Slots, Dispatch(s)
      PROVE  Promises'
  <2>1. PICK c \in Slots : Taken(s, c)
    BY <1>2, DispatchTakes
  <2>2. /\ UNCHANGED <<box, picked, registryVars>> /\ phase[s] = "accepted"
        /\ \A t \in Slots : phase'[t] = "accepted" => phase[t] = "accepted"
    BY <1>2, <2>1 DEF Dispatch, loopVars, Taken, TypedTree, TypeOK
  <2>3. DiscoveredInstanceRuns'
    <3>1. picked[s].admitted = picked[s].binding.of
      BY <2>2 DEF Promises
    <3> QED
      BY <2>1, <3>1 DEF Taken, Promises, DiscoveredInstanceRuns, Dispatched, TypedTree, TypeOK
  <2> QED
    BY <2>2, <2>3 DEF Promises, Fulfillable, Registered, registryVars
<1>3. ASSUME RegistryChanges \/ Cancel \/ DeadlinePasses \/ UNCHANGED vars
      PROVE  Promises'
  <2>1. UNCHANGED <<phase, loopVars, callVars, calls, tokens>>
    BY <1>3, OutsideStep
  <2>2. RegistryNext \/ UNCHANGED registryVars
    BY <1>3 DEF RegistryChanges, Cancel, DeadlinePasses, vars
  <2>3. /\ \A n \in Names : epoch'[n] <= generation'
        /\ \A b \in Bindings : Fulfillable(b) => Fulfillable(b)'
    <3>1. CASE RegistryNext
      BY <3>1, RegistryPromises DEF TypedTree, TypeOK, Promises
    <3>2. CASE UNCHANGED registryVars
      BY <3>2 DEF registryVars, Promises, Fulfillable, Registered
    <3> QED  BY <2>2, <3>1, <3>2
  <2>4. \A s \in Slots : box'[s] = box[s] /\ box[s] \subseteq Bindings
    BY <2>1 DEF loopVars, TypedTree, TypeOK
  <2>5. \A s \in Slots : phase'[s] = "accepted" => picked'[s].admitted = picked'[s].binding.of
    BY <2>1 DEF loopVars, Promises
  <2>6. DiscoveredInstanceRuns'
    BY <2>1 DEF callVars, Promises, DiscoveredInstanceRuns, Dispatched
  <2> QED  BY <2>3, <2>4, <2>5, <2>6 DEF Promises
<1> QED  BY <1>1, <1>2, <1>3 DEF Next

\* A call runs on the instance whose capability its loop discovered, however
\* the registry changed since (AgentRegistry.accept_binding).
THEOREM DiscoveredRuns == Spec => []DiscoveredInstanceRuns
<1>1. Init => Promises
  BY DEF Init, RegistryInit, Promises, DiscoveredInstanceRuns, Dispatched
<1>2. TypedTree /\ Promises /\ [Next]_vars => Promises'
  BY PromisesKept
<1>3. Promises => DiscoveredInstanceRuns
  BY DEF Promises
<1> QED  BY <1>1, <1>2, <1>3, TreeFormed, PTL DEF Spec

-----------------------------------------------------------------------------
(***************************************************************************)
(* Chains that end.                                                         *)
(***************************************************************************)
LEMMA ChainedKept ==
  ASSUME TypedTree, Chained, [Next]_vars
  PROVE  Chained'
<1>1. ASSUME NEW s \in Slots, Step(s), ~Dispatch(s)
      PROVE  Chained'
  <2>1. Local(s) /\ Dispatched' = Dispatched /\ path' = path /\ caller' = caller
    BY <1>1, StepLocal DEF Local, Steady, Dispatched
  <2>2. ASSUME NEW t \in Slots, phase'[t] = "accepted"
        PROVE  Extensible(t)'
    <3>1. CASE t = s
      <4>1. PICK b \in box[s] : Admits(s, b)
        BY <1>1, <2>2, <3>1, OwnChanges
      <4>2. Frame(b) \notin Path(s) /\ ~(Len(path[s]) >= TreeDepth)
        BY <4>1 DEF Admits, Verdict
      <4>3. Len(path[s]) \in Nat /\ TreeDepth \in Nat
        BY DelegationAssumption DEF TypedTree, TypeOK
      <4> QED  BY <2>1, <3>1, <4>1, <4>2, <4>3 DEF Admits, Extensible, Path, Frame
    <3>2. CASE t # s
      BY <2>1, <2>2, <3>2 DEF Chained, Extensible, Path, Local, SameLoop, SameCall
    <3> QED  BY <3>1, <3>2
  <2>3. \A t \in Slots : phase'[t] # "free" => Distinct(t)'
    BY <2>1 DEF Chained, Distinct, Local, Steady
  <2>4. \A t \in Dispatched' : caller'[t] \in Slots /\ phase'[caller'[t]] # "free"
    BY <2>1 DEF Chained, Local, Steady
  <2>5. ChainsAreFinite'
    BY <2>1 DEF Chained, ChainsAreFinite
  <2> QED  BY <2>2, <2>3, <2>4, <2>5 DEF Chained
<1>2. ASSUME NEW s \in Slots, Dispatch(s)
      PROVE  Chained'
  <2>1. PICK c \in Slots : Taken(s, c)
    BY <1>2, DispatchTakes
  <2> DEFINE f == Frame(picked[s].binding)
             p == path[s]
  <2>2. /\ phase[s] = "accepted" /\ Distinct(s) /\ f \notin Path(s) /\ Len(p) < TreeDepth
        /\ p \in Seq(Frames) /\ f \in Frames
    <3>1. phase[s] = "accepted"
      BY <1>2 DEF Dispatch
    <3>2. picked[s].binding \in Bindings
      BY <3>1, BindingTypes DEF TypedTree, TypeOK, Held, Open
    <3> QED  BY <3>1, <3>2, BindingTypes DEF Chained, Extensible, TypedTree, TypeOK
  <2>3. /\ UNCHANGED picked
        /\ \A t \in Slots : t # c => path'[t] = path[t] /\ caller'[t] = caller[t]
        /\ path'[c] = Append(p, f) /\ caller'[c] = s
        /\ \A t \in Slots : phase'[t] = "free" <=> (phase[t] = "free" /\ t # c)
        /\ \A t \in Slots : phase'[t] = "accepted" => phase[t] = "accepted" /\ t # c
    <3>1. UNCHANGED picked
      BY <1>2 DEF Dispatch, loopVars
    <3>2. /\ \A t \in Slots : t # c => path'[t] = path[t] /\ caller'[t] = caller[t]
          /\ path'[c] = Append(p, f) /\ caller'[c] = s
      BY <2>1 DEF Taken, ChildPath, TypedTree, TypeOK
    <3>3. /\ \A t \in Slots : t # c /\ t # s => phase'[t] = phase[t]
          /\ phase'[c] \in {"working", "returned"} /\ phase'[s] = "waiting"
      BY <2>1 DEF Taken, TypedTree, TypeOK
    <3>4. phase[c] = "free" /\ s # c
      BY <2>1 DEF Taken
    <3> QED  BY <2>2, <3>1, <3>2, <3>3, <3>4
  <2>3a. /\ c \notin Dispatched /\ Dispatched' = Dispatched \cup {c} /\ phase[c] = "free" /\ s # c
         /\ \A t \in Dispatched : t \in Slots /\ t # c /\ caller[t] \in Slots /\ caller[t] # c
    BY <2>1 DEF Taken, Dispatched, Chained
  <2>4. /\ Append(p, f) \in Seq(Frames) /\ Len(Append(p, f)) = Len(p) + 1 /\ Len(p) \in Nat
        /\ \A i \in 1..Len(p) : Append(p, f)[i] = p[i]
        /\ Append(p, f)[Len(p) + 1] = f
        /\ DOMAIN Append(p, f) = 1..(Len(p) + 1) /\ DOMAIN p = 1..Len(p)
    BY <2>2
  <2>5. \A t \in Slots : phase'[t] = "accepted" => Extensible(t)'
    BY <2>3 DEF Chained, Extensible, Path
  <2>6. Distinct(c)'
    <3>1. \A i \in 1..Len(p) : p[i] # f
      BY <2>2, <2>4 DEF Path
    <3>2. \A i, j \in 1..Len(p) : p[i] = p[j] => i = j
      BY <2>2, <2>4 DEF Distinct
    <3> HIDE DEF p, f
    <3>3. \A i, j \in 1..(Len(p) + 1) : Append(p, f)[i] = Append(p, f)[j] => i = j
      <4>1. \A i \in 1..(Len(p) + 1) : i \in 1..Len(p) \/ i = Len(p) + 1
        BY <2>4
      <4> QED  BY <2>4, <3>1, <3>2, <4>1
    <3> QED  BY <2>3, <2>4, <3>3 DEF Distinct
  <2>7. \A t \in Slots : phase'[t] # "free" => Distinct(t)'
    BY <2>3, <2>6 DEF Chained, Distinct
  <2>8. \A t \in Dispatched' : caller'[t] \in Slots /\ phase'[caller'[t]] # "free"
    <3> HIDE DEF p, f
    <3> QED  BY <2>2, <2>3, <2>3a DEF Chained
  <2>9. ASSUME NEW t \in Dispatched'
        PROVE  /\ Len(path'[t]) <= TreeDepth
               /\ \A i, j \in DOMAIN path'[t] : path'[t][i] = path'[t][j] => i = j
               /\ path'[t] = Append(path'[caller'[t]], path'[t][Len(path'[t])])
    <3>1. CASE t = c
      <4>1. s # c /\ path'[s] = p
        BY <2>1, <2>3 DEF Taken
      <4>2. Len(p) + 1 <= TreeDepth
        BY <2>2, <2>4, DelegationAssumption
      <4> HIDE DEF p, f
      <4> QED  BY <2>3, <2>4, <2>6, <3>1, <4>1, <4>2 DEF Distinct
    <3>2. CASE t # c
      <4>1. t \in Dispatched /\ t \in Slots
        BY <2>3a, <3>2
      <4>2. path'[t] = path[t] /\ caller'[t] = caller[t] /\ path'[caller[t]] = path[caller[t]]
        BY <2>3, <2>3a, <3>2, <4>1
      <4> QED  BY <4>1, <4>2 DEF Chained, ChainsAreFinite
    <3> QED  BY <3>1, <3>2
  <2> QED  BY <2>5, <2>7, <2>8, <2>9 DEF Chained, ChainsAreFinite
<1>3. ASSUME UNCHANGED <<phase, loopVars, callVars, calls, tokens>>
      PROVE  Chained'
  BY <1>3
     DEF Chained, ChainsAreFinite, Extensible, Distinct, Path, Dispatched, loopVars, callVars
<1> QED  BY <1>1, <1>2, <1>3, OutsideStep DEF Next

\* No chain of delegations enters a capability twice or grows past the depth
\* of the tree (the cycle and depth checks of LocalAgentGateway.invoke).
THEOREM ChainsFinite == Spec => []ChainsAreFinite
<1>1. ASSUME Init
      PROVE  Chained
  <2>1. Dispatched = {} /\ \A s \in Slots : phase[s] # "accepted"
    BY <1>1 DEF Init, Dispatched
  <2>2. \A s \in Slots : phase[s] # "free" => Distinct(s)
    BY <1>1 DEF Init, Distinct
  <2> QED  BY <2>1, <2>2 DEF Chained, ChainsAreFinite
<1>2. TypedTree /\ Chained /\ [Next]_vars => Chained'
  BY ChainedKept
<1>3. Chained => ChainsAreFinite
  BY DEF Chained
<1> QED  BY <1>1, <1>2, <1>3, TreeFormed, PTL DEF Spec

-----------------------------------------------------------------------------
(***************************************************************************)
(* Outcomes that are honest.                                                *)
(***************************************************************************)
Account(s) ==
  /\ outcome[s] # "none" => phase[s] = "working"
  /\ Unfailed(s) => Books(s)
  /\ Open(s) => ~fallback[s] /\ picked[s].id \notin Seen(s)

\* A call whose result is taken is the next one, and its cost is affordable.
LEMMA SettleBalances ==
  ASSUME TypedTree, NEW s \in Slots, NEW id \in CallIds, NEW status \in Statuses,
         NEW used \in Nat, Settle(s, id, status, used),
         Books(s), outcome[s] = "none", ~fallback[s], id \notin Seen(s),
         tools'[s] = Len(results[s]) + 1, tools'[s] <= MaxTools,
         used + ToolTokens <= LoopTokens
  PROVE  Account(s)'
<1> DEFINE n == Len(results[s])
           r == Append(results[s], [id |-> id, status |-> status])
<1>0. /\ results \in [Slots -> Seq(Calls)] /\ spent \in [Slots -> Nat]
      /\ fallback \in [Slots -> BOOLEAN] /\ outcome \in [Slots -> Outcomes]
      /\ phase \in [Slots -> {"free", "working", "turn", "model", "accepted", "waiting", "returned"}]
  BY LoopTypes DEF TypedTree, TypeOK
<1>1. results[s] \in Seq(Calls) /\ n \in Nat /\ DOMAIN results[s] = 1..n
  BY <1>0
<1>2. CASE ~(~cancelled /\ Continues(status))
  <2>1. phase'[s] = "working" /\ outcome'[s] \in {"cancellation", "failure"}
    BY <1>0, <1>2 DEF Settle, Finish, Goes
  <2> QED  BY <2>1 DEF Account, Unfailed, Open
<1>3. CASE ~cancelled /\ Continues(status)
  <2>1. /\ phase'[s] = "turn" /\ outcome'[s] = "none" /\ results'[s] = r
        /\ spent'[s] = used + ToolTokens
        /\ fallback'[s] = (status # "success")
        /\ status \in Fallback \cup {"success"}
    BY <1>0, <1>3 DEF Settle, Goes, FallbackAfter, Continues
  <2>2. /\ Len(r) = n + 1 /\ r[n + 1] = [id |-> id, status |-> status]
        /\ \A i \in 1..n : r[i] = results[s][i]
    BY <1>1
  <2>3. \A i \in 1..n : results[s][i].id # id
    BY <1>1 DEF Seen
  <2>4. \A i \in 1..n : results[s][i].status = "success"
    <3>1. n > 0 => results[s][n].status = "success"
      BY DEF Books, Succeeded
    <3>2. \A i \in 1..(n - 1) : results[s][i].status = "success"
      BY DEF Books, Succeeded
    <3> HIDE DEF n, r
    <3>3. \A i \in 1..n : i \in 1..(n - 1) \/ (i = n /\ n > 0)
      BY <1>1
    <3> QED  BY <3>1, <3>2, <3>3
  <2>5. \A i, j \in 1..n : results[s][i].id = results[s][j].id => i = j
    BY DEF Books
  <2> HIDE DEF n, r
  <2>6. \A i \in 1..(n + 1) : i \in 1..n \/ i = n + 1
    BY <1>1
  <2>7. \A i, j \in 1..(n + 1) : r[i].id = r[j].id => i = j
    BY <2>2, <2>3, <2>5, <2>6
  <2>8. \A i \in 1..n : r[i].status = "success"
    BY <2>2, <2>4
  <2>9. (n + 1) - 1 = n /\ n + 1 > 0
    BY <1>1
  <2>10. tools'[s] = n + 1 /\ tools'[s] <= MaxTools
    BY DEF n
  <2>11. r[n + 1].status = status
    BY <2>2
  <2>12. Len(results'[s]) = n + 1
    BY <2>1, <2>2
  <2>13. \A i \in 1..((n + 1) - 1) : results'[s][i].status = "success"
    BY <2>1, <2>8, <2>9
  <2>14. fallback'[s] <=> (n + 1 > 0 /\ results'[s][n + 1].status # "success")
    BY <2>1, <2>9, <2>11
  <2>15. results'[s][n + 1].status \in Fallback \cup {"success"}
    BY <2>1, <2>11
  <2>16. \A i, j \in 1..(n + 1) : results'[s][i].id = results'[s][j].id => i = j
    BY <2>1, <2>7
  <2>17. ~Open(s)' /\ spent'[s] <= LoopTokens
    BY <2>1 DEF Open
  <2>18. Books(s)'
    BY <2>1, <2>10, <2>12, <2>13, <2>14, <2>15, <2>16, <2>17 DEF Books, Succeeded
  <2> QED  BY <2>1, <2>17, <2>18 DEF Account
<1> QED  BY <1>2, <1>3

\* While its loop runs, the account of a slot is that of its open books.
LEMMA OpenBooks ==
  ASSUME TypedTree, Balanced, NEW s \in Slots, phase[s] \in {"turn", "model", "accepted", "waiting"}
  PROVE  outcome[s] = "none" /\ Books(s)
BY DEF Balanced, Unfailed

LEMMA OwnAccount ==
  ASSUME TypedTree, Balanced, NEW s \in Slots, Step(s), ~Dispatch(s)
  PROVE  Account(s)'
<1>0. /\ turns \in [Slots -> Nat] /\ tools \in [Slots -> Nat] /\ spent \in [Slots -> Nat]
      /\ results \in [Slots -> Seq(Calls)] /\ fallback \in [Slots -> BOOLEAN]
      /\ phase \in [Slots -> {"free", "working", "turn", "model", "accepted", "waiting", "returned"}]
      /\ outcome \in [Slots -> Outcomes] /\ picked \in [Slots -> Picks]
  BY LoopTypes DEF TypedTree, TypeOK
<1>1. CASE StartLoop(s)
  <2>1. phase'[s] = "turn" /\ outcome[s] = "none" /\ phase[s] = "working" /\ UNCHANGED loopVars
    BY <1>0, <1>1 DEF StartLoop, Goes
  <2>2. Books(s)
    BY <2>1 DEF Balanced, Unfailed
  <2> QED  BY <2>1, <2>2 DEF Account, Unfailed, Books, Open, Succeeded, loopVars
<1>2. CASE TurnStarts(s)
  <2>1. /\ phase'[s] = "model" /\ phase[s] = "turn"
        /\ UNCHANGED <<tools, spent, fallback, results, outcome>>
    BY <1>0, <1>2 DEF TurnStarts, Goes
  <2>2. outcome[s] = "none" /\ Books(s)
    BY <2>1, OpenBooks
  <2> QED  BY <2>1, <2>2 DEF Account, Unfailed, Books, Open, Succeeded
<1>3. CASE GivesUp(s)
  <2>1. PICK code \in {"failure", "cancellation"} : Finish(s, code)
    BY <1>3 DEF GivesUp
  <2>2. phase'[s] = "working" /\ outcome'[s] = code
    BY <1>0, <2>1 DEF Finish, Goes
  <2> QED  BY <2>2 DEF Account, Unfailed, Open
<1>4. ASSUME NEW usage \in Usages, TerminalDecision(s, usage)
      PROVE  Account(s)'
  <2>1. /\ phase'[s] = "working" /\ phase[s] = "model"
        /\ outcome'[s] = (IF fallback[s] THEN "fallback_success" ELSE "success")
        /\ UNCHANGED <<tools, fallback, results>>
        /\ spent'[s] = spent[s] + usage /\ spent[s] + usage <= LoopTokens
        /\ s \in Required => tools[s] > 0
    BY <1>0, <1>4 DEF TerminalDecision, Charges, Finish, Goes
  <2>2. outcome[s] = "none" /\ Books(s)
    BY <2>1, OpenBooks
  <2>3. (outcome'[s] = "success" <=> ~fallback'[s])
    BY <1>0, <2>1
  <2> QED  BY <2>1, <2>2, <2>3 DEF Account, Unfailed, Books, Open, Succeeded
<1>5. ASSUME NEW usage \in Usages, NEW id \in CallIds, NEW b \in box[s],
             CallTool(s, usage, id, b)
      PROVE  Account(s)'
  <2>1. /\ phase[s] = "model" /\ id \notin Seen(s) /\ ~fallback[s] /\ tools[s] < MaxTools
        /\ spent[s] + usage + ToolTokens <= LoopTokens /\ tools'[s] = tools[s] + 1
    BY <1>0, <1>5 DEF CallTool, Charges
  <2>2. outcome[s] = "none" /\ Books(s) /\ tools[s] = Len(results[s])
    <3>1. outcome[s] = "none" /\ Books(s)
      BY <2>1, OpenBooks
    <3> QED  BY <2>1, <3>1 DEF Books, Open
  <2>3. tools'[s] = Len(results[s]) + 1 /\ tools'[s] <= MaxTools /\ spent[s] + usage \in Nat
    <3>1. usage \in Nat /\ spent[s] \in Nat /\ tools[s] \in Nat /\ MaxTools \in Nat
      BY <1>0, DelegationAssumption
    <3> QED  BY <2>1, <2>2, <3>1
  <2>4. PICK verdict \in Verdicts(s, b) :
          IF verdict = "success"
          THEN /\ Goes(s, "accepted")
               /\ spent' = [spent EXCEPT ![s] = @ + usage]
               /\ picked' = [picked EXCEPT ![s] = [id |-> id, binding |-> b, admitted |-> agent[b.name]]]
               /\ UNCHANGED <<results, fallback, outcome>>
          ELSE Settle(s, id, verdict, spent[s] + usage) /\ UNCHANGED picked
    BY <1>5 DEF CallTool
  <2>5. CASE verdict = "success"
    <3>1. /\ phase'[s] = "accepted" /\ spent'[s] = spent[s] + usage /\ picked'[s].id = id
          /\ UNCHANGED <<results, fallback, outcome>>
      BY <1>0, <2>4, <2>5 DEF Goes
    <3> QED
      BY <2>1, <2>2, <2>3, <3>1 DEF Account, Unfailed, Books, Open, Succeeded, Seen
  <2>6. CASE verdict # "success"
    <3>1. verdict \in Statuses
      BY VerdictTypes, BindingTypes DEF TypedTree, TypeOK
    <3> QED  BY <2>1, <2>2, <2>3, <2>4, <2>6, <3>1, SettleBalances
  <2> QED  BY <2>5, <2>6
<1>6. ASSUME Refuse(s) \/ ChildReturns(s)
      PROVE  Account(s)'
  <2>1. PICK status \in Statuses : Settle(s, picked[s].id, status, spent[s])
    <3>1. CASE Refuse(s)
      BY <3>1, StatusTypes DEF Refuse
    <3>2. CASE ChildReturns(s)
      <4>1. answer[Child(s)] \in Statuses
        BY <3>2, ChildAnswers DEF ChildReturns
      <4> QED  BY <3>2, <4>1, StatusTypes DEF ChildReturns
    <3> QED  BY <1>6, <3>1, <3>2
  <2>2. Open(s) /\ tools' = tools
    BY <1>6 DEF Refuse, ChildReturns, Open
  <2>3. picked[s].id \in CallIds
    BY <1>0, <2>2, BindingTypes DEF TypedTree, Held
  <2>4. outcome[s] = "none" /\ Books(s)
    BY <2>2, OpenBooks DEF Open
  <2>5. /\ tools[s] = Len(results[s]) + 1 /\ tools[s] <= MaxTools
        /\ spent[s] + ToolTokens <= LoopTokens /\ spent[s] \in Nat
    BY <1>0, <2>2, <2>4 DEF Books
  <2>6. ~fallback[s] /\ picked[s].id \notin Seen(s)
    BY <2>2 DEF Balanced
  <2> QED  BY <2>1, <2>2, <2>3, <2>4, <2>5, <2>6, SettleBalances
<1>7. ASSUME Ends(s) \/ Interrupted(s)
      PROVE  Account(s)'
  <2>1. /\ phase'[s] = "returned" /\ tools'[s] = 0 /\ spent'[s] = 0 /\ fallback'[s] = FALSE
        /\ results'[s] = <<>> /\ outcome'[s] = "none"
    BY <1>0, <1>7 DEF Ends, Interrupted, Return, Goes
  <2> QED  BY <2>1, DelegationAssumption DEF Account, Unfailed, Books, Open
<1> QED  BY <1>1, <1>2, <1>3, <1>4, <1>5, <1>6, <1>7 DEF Step

LEMMA BalancedKept ==
  ASSUME TypedTree, Balanced, [Next]_vars
  PROVE  Balanced'
<1>0. (\A s \in Slots : Account(s)') => Balanced'
  BY DEF Balanced, Account
<1>1. ASSUME NEW s \in Slots, Step(s), ~Dispatch(s)
      PROVE  Balanced'
  <2>1. ASSUME NEW t \in Slots, t # s
        PROVE  Account(t)'
    <3>1. SameLoop(t) /\ SameCall(t)
      BY <1>1, <2>1, StepLocal DEF Local
    <3>2. Account(t)
      BY DEF Balanced, Account
    <3> QED
      BY <3>1, <3>2 DEF SameLoop, SameCall, Account, Unfailed, Books, Open, Succeeded, Seen
  <2> QED  BY <1>0, <1>1, <2>1, OwnAccount
<1>2. ASSUME NEW s \in Slots, Dispatch(s)
      PROVE  Balanced'
  <2>1. PICK c \in Slots : Taken(s, c)
    BY <1>2, DispatchTakes
  <2>2. /\ UNCHANGED loopVars /\ phase[c] = "free" /\ phase[s] = "accepted" /\ s # c
        /\ phase'[s] = "waiting" /\ phase'[c] \in {"working", "returned"}
        /\ \A t \in Slots : t # c /\ t # s => phase'[t] = phase[t]
    BY <1>2, <2>1 DEF Dispatch, Taken, TypedTree, TypeOK
  <2>3. ASSUME NEW t \in Slots
        PROVE  Account(t)'
    <3>1. Account(t)
      BY DEF Balanced, Account
    <3>2. t = c => outcome[t] = "none"
      BY <2>2, <3>1 DEF Account
    <3>3. (phase'[t] \in {"accepted", "waiting"}) <=> Open(t)
      BY <2>2 DEF Open
    <3>4. outcome[t] # "none" => phase'[t] = "working"
      BY <2>2, <3>1, <3>2 DEF Account
    <3> QED
      BY <2>2, <3>1, <3>3, <3>4
         DEF Account, Unfailed, Books, Open, Succeeded, Seen, loopVars
  <2> QED  BY <1>0, <2>3
<1>3. ASSUME UNCHANGED <<phase, loopVars, callVars, calls, tokens>>
      PROVE  Balanced'
  BY <1>3 DEF Balanced, Unfailed, Books, Open, Succeeded, Seen, loopVars
<1> QED  BY <1>1, <1>2, <1>3, OutsideStep DEF Next

\* A loop that reports success concealed no failure, delegated if it had to,
\* made each call once and stayed within its limits (run_delegation).
THEOREM OutcomesHonest == Spec => []SuccessIsHonest
<1>1. ASSUME Init
      PROVE  Balanced
  BY <1>1, DelegationAssumption DEF Init, Balanced, Unfailed, Books, Open
<1>2. TypedTree /\ Balanced /\ [Next]_vars => Balanced'
  BY BalancedKept
<1>3. ASSUME TypedTree, Balanced
      PROVE  SuccessIsHonest
  <2>1. SUFFICES ASSUME NEW s \in Slots, outcome[s] \in {"success", "fallback_success"}
                 PROVE  LET n == Len(results[s]) IN
                        /\ \A i \in 1..(n - 1) : Succeeded(s, i)
                        /\ n > 0 => results[s][n].status \in Fallback \cup {"success"}
                        /\ outcome[s] = "success" <=> n = 0 \/ Succeeded(s, n)
                        /\ s \in Required => n > 0
                        /\ \A i, j \in 1..n : results[s][i].id = results[s][j].id => i = j
                        /\ n <= MaxTools
                        /\ spent[s] <= LoopTokens
    BY DEF SuccessIsHonest
  <2>2. Books(s) /\ ~Open(s) /\ outcome[s] # "none"
    BY <1>3, <2>1 DEF Balanced, Unfailed, Open
  <2>3. Len(results[s]) \in Nat /\ tools[s] = Len(results[s])
    <3>1. results[s] \in Seq(Calls)
      BY <1>3, LoopTypes DEF TypedTree
    <3> QED  BY <2>2, <3>1 DEF Books
  <2>4. fallback[s] <=> Len(results[s]) > 0 /\ ~Succeeded(s, Len(results[s]))
    BY <2>2 DEF Books
  <2>5. outcome[s] = "success" <=> Len(results[s]) = 0 \/ Succeeded(s, Len(results[s]))
    BY <2>2, <2>3, <2>4 DEF Books
  <2> QED  BY <2>2, <2>3, <2>5 DEF Books
<1> QED  BY <1>1, <1>2, <1>3, TreeFormed, PTL DEF Spec
=============================================================================
