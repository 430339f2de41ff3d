----------------------------- MODULE Delegation -----------------------------
(***************************************************************************)
(* The tree of delegations below one root invocation: the model and tool    *)
(* loop of an agent (core/delegation), the local gateway that revalidates   *)
(* the bindings its toolbox holds (core/gateway), the registry those were   *)
(* discovered in (LocalRegistry), and the path, deadline, cancellation and  *)
(* budget that the calls of the tree share (core/run_context).              *)
(*                                                                         *)
(* Calls of one tree run concurrently, and threads change the registry at   *)
(* any time: between the discovery of a toolbox and the answer of the model *)
(* that picks from it, and between the admission of a call and its start.   *)
(* Cost is budgeted exactly as tokens are; one of them is modelled.         *)
(***************************************************************************)
EXTENDS LocalRegistry, Sequences, FiniteSets

CONSTANTS MaxSlots,     \* bound: the invocations of a tree
          MaxRoots,     \* those with no caller in the tree
          RootFrame,    \* the frame of a root
          SchemaOf,     \* the schemas of an instance, by their digest
          CallIds,      \* identifiers the model gives its tool calls
          MaxTurns, MaxTools, MaxDepth,   \* DelegationConfig
          LoopTokens,   \* token_budget of a loop
          ToolTokens,   \* tool_token_cost
          Usages,       \* what one model call may consume
          Required,     \* the loops that must delegate
          UseRequired,  \* whether a toolbox needs a tool
          Fallback,     \* eligible_statuses
          Answers,      \* what a capability may come to by itself
          TreeDepth, TreeCalls, TreeTokens  \* DelegationBudget

Statuses == {"success", "approval_required", "denied", "unavailable", "stale_target",
             "invalid_arguments", "timeout", "cancellation", "budget_rejected",
             "depth_rejected", "cycle_rejected", "execution_failure", "result_too_large"}
NeverFallback == {"denied", "cancellation", "budget_rejected", "depth_rejected", "cycle_rejected"}

Slots == 1..MaxSlots
Roots == 1..MaxRoots

ASSUME DelegationAssumption ==
  /\ {MaxSlots, MaxRoots} \subseteq Nat /\ MaxRoots <= MaxSlots
  /\ {MaxTurns, MaxTools, MaxDepth, LoopTokens, ToolTokens, TreeDepth, TreeCalls, TreeTokens}
       \subseteq Nat
  /\ Usages \subseteq Nat /\ Required \subseteq Slots /\ UseRequired \in BOOLEAN
  /\ Fallback \subseteq Statuses \ NeverFallback /\ Answers \subseteq Statuses
  /\ RootFrame \notin Names \X Capabilities

VARIABLES
  phase,      \* where each invocation is
  caller,     \* the invocation whose loop made the call, 0 for a root
  path,       \* its delegation_path, the last frame its own
  target,     \* the instance that executes it
  promise,    \* history: the instance its binding was discovered from
  box,        \* the bindings of the toolbox of this turn
  picked,     \* the tool call under way: its identifier and its binding
  turns, tools, spent, fallback,  \* counters of the loop
  results,    \* the tool results of the loop, in order
  outcome,    \* what the loop came to
  answer,     \* the result a call has for its caller
  calls, tokens,  \* what the shared budget has left
  cancelled,  \* the shared CancellationState
  late        \* the deadline of the root, that every call inherits, passed

loopVars == <<box, picked, turns, tools, spent, fallback, results, outcome>>
callVars == <<caller, path, target, promise, answer>>
treeVars == <<calls, tokens, cancelled, late>>
vars == <<phase, loopVars, callVars, treeVars, registryVars>>

Frames == (Names \X Capabilities) \cup {RootFrame}
Bindings == [name : Names, capability : Capabilities, generation : Nat,
             schema : {SchemaOf[o] : o \in Objects}, of : Objects]
NoCall == [id |-> "none"]
Picks == [id : CallIds, binding : Bindings, admitted : Objects \cup {NoAgent}] \cup {NoCall}
Outcomes == {"none", "success", "fallback_success", "cancellation", "failure"}
Dispatched == {s \in Slots \ Roots : phase[s] # "free"}
Path(s) == {path[s][i] : i \in DOMAIN path[s]}
\* The call a waiting loop waits for is its latest: slots are given in order.
Child(s) == CHOOSE c \in Dispatched : caller[c] = s /\ \A d \in Dispatched : caller[d] = s => d <= c
ChildLives(s) == phase[s] = "waiting" /\ phase[Child(s)] # "returned"

TypeOK ==
  /\ RegistryTypeOK
  /\ phase \in [Slots -> {"free", "working", "turn", "model", "accepted", "waiting",
                          "returned"}]
  /\ caller \in [Slots -> Slots \cup {0}]
  /\ path \in [Slots -> Seq(Frames)]
  /\ target \in [Slots -> Objects \cup {NoAgent}]
  /\ promise \in [Slots -> Objects \cup {NoAgent}]
  /\ box \in [Slots -> SUBSET Bindings]
  /\ picked \in [Slots -> Picks]
  /\ {turns, tools, spent} \subseteq [Slots -> Nat]
  /\ fallback \in [Slots -> BOOLEAN]
  /\ results \in [Slots -> Seq([id : CallIds, status : Statuses])]
  /\ outcome \in [Slots -> Outcomes]
  /\ answer \in [Slots -> Statuses \cup {"none"}]
  /\ {calls, tokens} \subseteq Nat
  /\ {cancelled, late} \subseteq BOOLEAN

Init ==
  /\ RegistryInit
  /\ phase = [s \in Slots |-> IF s \in Roots THEN "working" ELSE "free"]
  /\ caller = [s \in Slots |-> 0]
  /\ path = [s \in Slots |-> IF s \in Roots THEN <<RootFrame>> ELSE <<>>]
  /\ target = [s \in Slots |-> NoAgent] /\ promise = [s \in Slots |-> NoAgent]
  /\ box = [s \in Slots |-> {}] /\ picked = [s \in Slots |-> NoCall]
  /\ turns = [s \in Slots |-> 0] /\ tools = [s \in Slots |-> 0]
  /\ spent = [s \in Slots |-> 0] /\ fallback = [s \in Slots |-> FALSE]
  /\ results = [s \in Slots |-> <<>>]
  /\ outcome = [s \in Slots |-> "none"] /\ answer = [s \in Slots |-> "none"]
  /\ calls = TreeCalls /\ tokens = TreeTokens
  /\ cancelled = FALSE /\ late = FALSE

-----------------------------------------------------------------------------
(* The loop, one model turn after the other.                                *)

Goes(s, where) == phase' = [phase EXCEPT ![s] = where]
Finish(s, code) == Goes(s, "working") /\ outcome' = [outcome EXCEPT ![s] = code]
\* A toolbox is of use for the one decision it was built for.
Discard(s) == box' = [box EXCEPT ![s] = {}]

\* The capability calls run_delegation.
StartLoop(s) ==
  /\ phase[s] = "working" /\ outcome[s] = "none"
  /\ Goes(s, "turn")
  /\ UNCHANGED <<loopVars, callVars, treeVars, registryVars>>

\* GatewayAuthorization.permits and matching_candidates.
Eligible(s) ==
  {f \in Names \X Capabilities :
     /\ Servable(f[1]) /\ f[2] \in CapsOf[agent[f[1]]]
     /\ f \notin Path(s) /\ Len(path[s]) < TreeDepth /\ calls >= 1}
Bound(f) == [name |-> f[1], capability |-> f[2], generation |-> epoch[f[1]],
             schema |-> SchemaOf[agent[f[1]]], of |-> agent[f[1]]]

\* What discover finds in one snapshot of the registry, each with a binding of
\* its own; what its limit cuts off is what the model never picks.
Discovered(s) == {Bound(f) : f \in Eligible(s)}

\* Preflight and build_toolbox.  What policy, scopes and size limits leave out
\* is what the model never picks.
TurnStarts(s) ==
  /\ phase[s] = "turn" /\ turns[s] < MaxTurns /\ ~cancelled /\ ~late
  /\ UseRequired => Eligible(s) # {}
  /\ box' = [box EXCEPT ![s] = Discovered(s)]
  /\ turns' = [turns EXCEPT ![s] = @ + 1]
  /\ Goes(s, "model")
  /\ UNCHANGED <<picked, tools, spent, fallback, results, outcome, callVars, treeVars,
                 registryVars>>

\* Limits, the deadline of the loop, a missing tool, a failed provider, a
\* decision that is malformed or not admissible: every other end of a loop.
GivesUp(s) ==
  /\ phase[s] \in {"turn", "model"}
  /\ \E code \in {"failure"} \cup IF cancelled THEN {"cancellation"} ELSE {} : Finish(s, code)
  /\ Discard(s)
  /\ UNCHANGED <<picked, turns, tools, spent, fallback, results, callVars, treeVars,
                 registryVars>>

\* The usage of the turn is charged before its decision counts.
Charges(s, usage) ==
  /\ phase[s] = "model" /\ ~cancelled
  /\ spent[s] + usage <= LoopTokens

TerminalDecision(s, usage) ==
  /\ Charges(s, usage)
  /\ s \in Required => tools[s] > 0
  /\ spent' = [spent EXCEPT ![s] = @ + usage]
  /\ Finish(s, IF fallback[s] THEN "fallback_success" ELSE "success")
  /\ Discard(s)
  /\ UNCHANGED <<picked, turns, tools, fallback, results, callVars, treeVars,
                 registryVars>>

-----------------------------------------------------------------------------
(* The result of a tool call, as the loop takes it.                         *)

\* Mutant: an eligible failure does not mark what follows as a fallback.
Unmarked(s, status) == fallback[s]
FallbackAfter(s, status) == fallback[s] \/ status # "success"

Continues(status) == status = "success" \/ status \in Fallback \ {"result_too_large"}

\* used: what the loop has consumed before the call is charged to it.
Settle(s, id, status, used) ==
  /\ IF cancelled
     THEN /\ Finish(s, "cancellation")
          /\ spent' = [spent EXCEPT ![s] = used]
          /\ UNCHANGED <<results, fallback>>
     ELSE /\ results' = [results EXCEPT ![s] = Append(@, [id |-> id, status |-> status])]
          /\ IF Continues(status)
             THEN /\ Goes(s, "turn")
                  /\ spent' = [spent EXCEPT ![s] = used + ToolTokens]
                  /\ fallback' = [fallback EXCEPT ![s] = FallbackAfter(s, status)]
                  /\ UNCHANGED outcome
             ELSE /\ Finish(s, IF status = "cancellation" THEN "cancellation" ELSE "failure")
                  /\ spent' = [spent EXCEPT ![s] = used]
                  /\ UNCHANGED fallback

-----------------------------------------------------------------------------
(* The gateway.                                                             *)

Frame(b) == <<b.name, b.capability>>

\* LocalAgentGateway.invoke up to the admission by the registry.
Verdict(s, b) ==
  IF Frame(b) \in Path(s) THEN "cycle_rejected"
  ELSE IF Len(path[s]) >= TreeDepth THEN "depth_rejected"
  ELSE IF ~Registered(b.name) \/ epoch[b.name] # b.generation THEN "stale_target"
  ELSE IF SchemaOf[agent[b.name]] # b.schema \/ ~Servable(b.name) THEN "unavailable"
  ELSE "success"

\* A binding may have expired, and what is admitted be denied by policy.
Verdicts(s, b) ==
  {"unavailable"} \cup IF Verdict(s, b) = "success" THEN {"success", "denied"} ELSE {Verdict(s, b)}

Seen(s) == {results[s][i].id : i \in DOMAIN results[s]}

CallTool(s, usage, id, b) ==
  /\ Charges(s, usage) /\ b \in box[s]
  /\ id \notin Seen(s) /\ ~fallback[s] /\ tools[s] < MaxTools
  /\ Len(path[s]) < MaxDepth /\ spent[s] + usage + ToolTokens <= LoopTokens
  /\ ~late
  /\ tools' = [tools EXCEPT ![s] = @ + 1]
  /\ \E verdict \in Verdicts(s, b) :
       IF verdict = "success"
       THEN /\ Goes(s, "accepted")
            /\ spent' = [spent EXCEPT ![s] = @ + usage]
            /\ picked' = [picked EXCEPT ![s] = [id |-> id, binding |-> b, admitted |-> agent[b.name]]]
            /\ UNCHANGED <<results, fallback, outcome>>
       ELSE /\ Settle(s, id, verdict, spent[s] + usage)
            /\ UNCHANGED picked
  /\ Discard(s)
  /\ UNCHANGED <<turns, callVars, treeVars, registryVars>>

\* Bug: that discovery found the budget open is relied on.
CheckedBefore == TRUE
\* DelegationBudget.reserve: all of it or nothing.
Affordable == calls >= 1 /\ tokens >= ToolTokens
Reserve == calls' = calls - 1 /\ tokens' = tokens - ToolTokens

ChildPath(s) == Append(path[s], Frame(picked[s].binding))

Vacant(c) == phase[c] = "free" /\ \A d \in 1..(c - 1) : phase[d] # "free"

\* The admitted call is paid for and handed to Runtime.invoke, which answers
\* at once when the run was cancelled; else the child runs.
Dispatch(s) ==
  /\ phase[s] = "accepted" /\ ~late /\ Affordable
  /\ Reserve
  /\ \E c \in Slots :
       /\ Vacant(c)
       /\ phase' = [phase EXCEPT ![s] = "waiting", ![c] = IF cancelled THEN "returned" ELSE "working"]
       /\ answer' = [answer EXCEPT ![c] = IF cancelled THEN "cancellation" ELSE @]
       /\ caller' = [caller EXCEPT ![c] = s]
       /\ path' = [path EXCEPT ![c] = ChildPath(s)]
       /\ target' = [target EXCEPT ![c] = picked[s].admitted]
       /\ promise' = [promise EXCEPT ![c] = picked[s].binding.of]
  /\ UNCHANGED <<loopVars, cancelled, late, registryVars>>

Refuse(s) ==
  /\ phase[s] = "accepted"
  /\ \/ late /\ Settle(s, picked[s].id, "timeout", spent[s])
     \/ ~Affordable /\ Settle(s, picked[s].id, "budget_rejected", spent[s])
  /\ picked' = [picked EXCEPT ![s] = NoCall]
  /\ UNCHANGED <<box, turns, tools, callVars, treeVars, registryVars>>

\* The result of the child reaches the loop; it may be too large to keep.
ChildReturns(s) ==
  /\ phase[s] = "waiting" /\ ~ChildLives(s)
  /\ \E status \in {answer[Child(s)], "result_too_large"} :
       Settle(s, picked[s].id, status, spent[s])
  /\ picked' = [picked EXCEPT ![s] = NoCall]
  /\ answer' = [answer EXCEPT ![Child(s)] = "none"]
  /\ UNCHANGED <<box, turns, tools, caller, path, target, promise, treeVars, registryVars>>

-----------------------------------------------------------------------------
(* The end of an invocation, by itself, its deadline or its cancellation.   *)

\* The locals of its loop die with an invocation.
Return(s, status) ==
  /\ Goes(s, "returned")
  /\ answer' = IF s \in Roots THEN answer ELSE [answer EXCEPT ![s] = status]
  /\ target' = [target EXCEPT ![s] = NoAgent] /\ promise' = [promise EXCEPT ![s] = NoAgent]
  /\ Discard(s) /\ picked' = [picked EXCEPT ![s] = NoCall]
  /\ turns' = [turns EXCEPT ![s] = 0] /\ tools' = [tools EXCEPT ![s] = 0]
  /\ spent' = [spent EXCEPT ![s] = 0] /\ fallback' = [fallback EXCEPT ![s] = FALSE]
  /\ results' = [results EXCEPT ![s] = <<>>] /\ outcome' = [outcome EXCEPT ![s] = "none"]
  /\ UNCHANGED <<caller, path, treeVars, registryVars>>

Ends(s) == phase[s] = "working" /\ \E status \in Answers : Return(s, status)

\* A deadline or a cancellation reaches an execution where it waits; one that
\* waits for a call goes when that call has gone.
Interrupted(s) ==
  /\ phase[s] \in {"working", "model", "waiting"} /\ ~ChildLives(s)
  /\ \/ late /\ Return(s, "timeout")
     \/ cancelled /\ Return(s, "cancellation")

Cancel == /\ ~cancelled /\ cancelled' = TRUE
          /\ UNCHANGED <<phase, loopVars, callVars, calls, tokens, late, registryVars>>

\* An earlier deadline of a loop or a call makes it give up or answer timeout.
DeadlinePasses == /\ ~late /\ late' = TRUE
                  /\ UNCHANGED <<phase, loopVars, callVars, calls, tokens, cancelled, registryVars>>

Step(s) ==
  \/ StartLoop(s) \/ TurnStarts(s) \/ GivesUp(s)
  \/ \E usage \in Usages :
       \/ TerminalDecision(s, usage)
       \/ \E id \in CallIds, b \in box[s] : CallTool(s, usage, id, b)
  \/ Dispatch(s) \/ Refuse(s) \/ ChildReturns(s)
  \/ Ends(s) \/ Interrupted(s)

\* Threads that register, drain, repair and withdraw agents.
RegistryChanges ==
  RegistryNext /\ UNCHANGED <<phase, loopVars, callVars, treeVars>>

Next == (\E s \in Slots : Step(s)) \/ Cancel \/ DeadlinePasses \/ RegistryChanges

Spec == Init /\ [][Next]_vars

-----------------------------------------------------------------------------
\* What the tree has left is what it was given less what its dispatched calls
\* cost, whoever made them, and calls that compete for the last of it never
\* overdraw it (DelegationBudget.reserve, one ledger per tree).
LedgerBalances ==
  /\ calls >= 0 /\ tokens >= 0
  /\ calls + Cardinality(Dispatched) = TreeCalls
  /\ tokens + ToolTokens * Cardinality(Dispatched) = TreeTokens

\* A call is executed by the instance that was discovered, whatever was
\* registered, replaced or removed while the model made up its mind
\* (AgentRegistry.accept_binding, LocalAgentGateway.invoke).
DiscoveredInstanceRuns == \A s \in Dispatched : target[s] = promise[s]

\* No chain of calls enters one capability twice or grows beyond the depth the
\* tree was given (delegation_path, the cycle and depth checks of the gateway).
ChainsAreFinite ==
  \A s \in Dispatched :
    /\ Len(path[s]) <= TreeDepth
    /\ \A i, j \in DOMAIN path[s] : path[s][i] = path[s][j] => i = j
    /\ path[s] = Append(path[caller[s]], path[s][Len(path[s])])

\* A success hides no failure: every call of the loop succeeded, or only its
\* last one failed, in a way a fallback is allowed for, and the outcome says so;
\* a loop that must delegate did, with calls that were each made once and
\* within its budget (run_delegation).
Succeeded(s, i) == results[s][i].status = "success"
SuccessIsHonest ==
  \A s \in Slots : outcome[s] \in {"success", "fallback_success"} =>
    LET n == Len(results[s]) IN
    /\ \A i \in 1..(n - 1) : Succeeded(s, i)
    /\ n > 0 => results[s][n].status \in Fallback \cup {"success"}
    /\ outcome[s] = "success" <=> n = 0 \/ Succeeded(s, n)
    /\ s \in Required => n > 0
    /\ \A i, j \in 1..n : results[s][i].id = results[s][j].id => i = j
    /\ n <= MaxTools
    /\ spent[s] <= LoopTokens
=============================================================================
