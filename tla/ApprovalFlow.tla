----------------------------- MODULE ApprovalFlow -----------------------------
(***************************************************************************)
(* Approval-bound execution: the challenge SecurityPipeline.check creates,  *)
(* the decisions, tokens and cancellations that settle it, and the          *)
(* execution it is consumed for (security/pipeline, security/approval,      *)
(* security/approval_token, core/runtime_invocation, core/invocation).      *)
(*                                                                         *)
(* Every call is a coroutine that suspends only while it emits evidence or  *)
(* runs the capability, so what lies between two emissions is one step.     *)
(* A call that is refused without changing anything (unknown or foreign     *)
(* approvals, roles that are not required, claims that do not match) is     *)
(* left out, and so are pipelines without an approval store or an emitter.  *)
(***************************************************************************)
EXTENDS AuditEmitter

CONSTANTS Approvals,
          Roles,
          RequiredRoles,  \* required_roles of each challenge
          TaskOf,         \* the task a challenge is bound to
          Tokens,         \* signed portable decisions
          Approves,       \* the tokens that approve; the others deny
          TokenFor,       \* the challenge of each token
          NoApproval, NoToken

ASSUME FlowAssumption ==
  /\ NoApproval \notin Approvals /\ NoToken \notin Tokens
  /\ RequiredRoles \in [Approvals -> SUBSET Roles]
  /\ \A a \in Approvals : RequiredRoles[a] # {}
  /\ TaskOf \in [Approvals -> Tasks]
  /\ Approves \subseteq Tokens /\ TokenFor \in [Tokens -> Approvals]

VARIABLES
  approval,   \* ApprovalState of each challenge in the store
  votes,      \* _approved_roles
  lapsed,     \* challenges whose expires_at has passed
  consumed,   \* tokens in the replay store
  call,       \* the calls: what each emits or does, for which approval
  ran,        \* history: calls that began to run the capability
  stranded    \* history: approvals whose approving call did not consume them

flow == <<approval, votes, lapsed, consumed, call, ran, stranded>>
vars == <<emitter, flow>>

\* The evidence a call waits for, and what it is to the emitter.
RequiredEvidence ==
  {"requesting", "denying", "collecting", "approving", "authorizing", "accepting"}
TerminalEvidence ==
  {"expiring", "denying", "canceling", "rejecting", "replaying", "concluding"}
Emitting == RequiredEvidence \cup TerminalEvidence \cup {"verifying", "starting"}
Settled == {"expired", "denied", "canceled", "completed"}

IdleCall == [phase |-> "idle", approval |-> NoApproval, token |-> NoToken]

FlowTypeOK ==
  /\ approval \in [Approvals -> {"absent", "required", "approved"} \cup Settled]
  /\ votes \in [Approvals -> SUBSET Roles]
  /\ lapsed \subseteq Approvals
  /\ consumed \subseteq Tokens
  /\ call \in [Callers -> [phase : {"idle", "running", "answered"} \cup Emitting,
                           approval : Approvals \cup {NoApproval},
                           token : Tokens \cup {NoToken}]]
  /\ \A c \in Callers : call[c].phase # "idle" => call[c].approval \in Approvals
  /\ \A c \in Callers : call[c].phase = "verifying" => call[c].token \in Tokens
  /\ ran \subseteq Callers
  /\ stranded \subseteq Approvals

TypeOK == EmitterTypeOK /\ FlowTypeOK

Init ==
  /\ EmitterInit
  /\ approval = [a \in Approvals |-> "absent"]
  /\ votes = [a \in Approvals |-> {}]
  /\ lapsed = {} /\ consumed = {}
  /\ call = [c \in Callers |-> IdleCall]
  /\ ran = {} /\ stranded = {}

-----------------------------------------------------------------------------
(* Calls and their emissions.                                               *)

Moves(c, phase) == call' = [call EXCEPT ![c].phase = phase]
Task(c) == TaskOf[call[c].approval]
Becomes(a, state) == approval' = [approval EXCEPT ![a] = state]

\* A call starts by emitting evidence of its approval's task.
Starts(c, a, k, phase) ==
  /\ call[c].phase = "idle"
  /\ call' = [call EXCEPT ![c] = [phase |-> phase, approval |-> a, token |-> k]]
  /\ delivery' = [delivery EXCEPT ![TaskOf[a]] = Joined(@, c)]
  /\ UNCHANGED <<buffered, failures>>

\* An emission ends with outcome o.
Ends(c, o) ==
  /\ call[c].phase \in Emitting /\ Delivering(c, Task(c))
  /\ Tried(o)
Passed(c, o) == Passes(o, call[c].phase \in RequiredEvidence)
Leaves(c, o) ==
  Left(delivery[Task(c)], c, call[c].phase \in TerminalEvidence /\ Passed(c, o))

\* The call goes on to emit, to run, or to answer.
ThenEmits(c, o, phase) ==
  /\ Moves(c, phase)
  /\ delivery' = [delivery EXCEPT ![Task(c)] = Joined(Leaves(c, o), c)]
Then(c, o, phase) ==
  /\ Moves(c, phase)
  /\ delivery' = [delivery EXCEPT ![Task(c)] = Leaves(c, o)]

-----------------------------------------------------------------------------
(* Requests, decisions and cancellations.                                   *)

Expirable(a) == approval[a] = "required" /\ a \in lapsed
\* Mutant: the clock is not looked at again.
OpenAnyway(a) == approval[a] = "required"
Open(a) == approval[a] = "required" /\ a \notin lapsed

\* invoke: the check stores a challenge.
Ask(c, a) ==
  /\ approval[a] = "absent"
  /\ Becomes(a, "required")
  /\ Starts(c, a, NoToken, "requesting")
  /\ UNCHANGED <<votes, lapsed, consumed, ran, stranded>>

\* Whoever decides, resumes or cancels too late notices.
Expire(c, a) ==
  /\ Expirable(a)
  /\ Becomes(a, "expired")
  /\ Starts(c, a, NoToken, "expiring")
  /\ UNCHANGED <<votes, lapsed, consumed, ran, stranded>>

Deny(c, a) ==
  /\ Open(a)
  /\ Becomes(a, "denied")
  /\ Starts(c, a, NoToken, "denying")
  /\ UNCHANGED <<votes, lapsed, consumed, ran, stranded>>

Unanimous(a, roles) == RequiredRoles[a] \subseteq roles

\* decide, and state right after it.
Approve(c, a, r) ==
  LET roles == votes[a] \cup {r} IN
  /\ Open(a) /\ r \in RequiredRoles[a]
  /\ votes' = [votes EXCEPT ![a] = roles]
  /\ IF Unanimous(a, roles)
     THEN Becomes(a, "approved") /\ Starts(c, a, NoToken, "approving")
     ELSE UNCHANGED approval /\ Starts(c, a, NoToken, "collecting")
  /\ UNCHANGED <<lapsed, consumed, ran, stranded>>

Cancel(c, a) ==
  /\ Open(a)
  /\ Becomes(a, "canceled")
  /\ Starts(c, a, NoToken, "canceling")
  /\ UNCHANGED <<votes, lapsed, consumed, ran, stranded>>

\* What verify can accept: the one role of a token must be all the challenge
\* requires, as it is compared with the joined roles too.
Verifiable(a) == \E r \in Roles : RequiredRoles[a] = {r}

\* resume_token with a token that verifies.
PresentToken(c, k) ==
  LET a == TokenFor[k] IN
  /\ approval[a] # "absent" /\ ~Expirable(a) /\ Verifiable(a)
  /\ Starts(c, a, k, "verifying")
  /\ UNCHANGED <<approval, votes, lapsed, consumed, ran, stranded>>

\* get expires the challenge of a late token, without evidence.
PresentLate(k) ==
  /\ Expirable(TokenFor[k])
  /\ Becomes(TokenFor[k], "expired")
  /\ UNCHANGED <<emitter, votes, lapsed, consumed, call, ran, stranded>>

\* A token that does not verify, presented for the task of a.
PresentForged(c, a) ==
  /\ approval[a] # "absent"
  /\ Starts(c, a, NoToken, "rejecting")
  /\ UNCHANGED <<approval, votes, lapsed, consumed, ran, stranded>>

-----------------------------------------------------------------------------
(* What follows an emission.                                                *)

\* complete, then execute: the invocation answers at once when the run is
\* canceled already, and reports invalid arguments as a failed execution.
Executes(c, o) ==
  \/ ThenEmits(c, o, "authorizing")
  \/ ThenEmits(c, o, "concluding")
  \/ Then(c, o, "answered")

\* The challenge is consumed by the call that approved it.
Completed(a) == [approval EXCEPT ![a] = "completed"]
Consume(c, o) ==
  LET a == call[c].approval IN
  /\ call[c].phase = "approving" /\ Ends(c, o) /\ Passed(c, o)
  /\ IF approval[a] = "approved"
     THEN approval' = Completed(a) /\ Executes(c, o)
     ELSE UNCHANGED approval /\ Then(c, o, "answered")
  /\ UNCHANGED <<votes, lapsed, consumed, ran, stranded>>

\* Without its evidence the approval stays approved, and is no longer pending.
LoseApproval(c, o) ==
  /\ call[c].phase = "approving" /\ Ends(c, o) /\ ~Passed(c, o)
  /\ Then(c, o, "answered")
  /\ stranded' = stranded \cup {call[c].approval}
  /\ UNCHANGED <<approval, votes, lapsed, consumed, ran>>

\* consume_and_resume after its evidence: the token is burnt, then the
\* decision is applied, consumed and executed without another suspension.
Replayed(k) == k \in consumed
RejectReplay(c, o) ==
  /\ call[c].phase = "verifying" /\ Ends(c, o) /\ Replayed(call[c].token)
  /\ ThenEmits(c, o, "replaying")
  /\ UNCHANGED <<approval, votes, lapsed, consumed, ran, stranded>>

Burn(c, o) ==
  /\ call[c].phase = "verifying" /\ Ends(c, o) /\ ~Replayed(call[c].token)
  /\ consumed' = consumed \cup {call[c].token}

ApplyToken(c, o) ==
  LET a == call[c].approval IN
  /\ Burn(c, o) /\ Open(a) /\ call[c].token \in Approves
  /\ votes' = [votes EXCEPT ![a] = @ \cup RequiredRoles[a]]
  /\ approval' = Completed(a)
  /\ Executes(c, o)
  /\ UNCHANGED <<lapsed, ran, stranded>>

\* The decision is a denial, or comes too late for one.
RefuseToken(c, o) ==
  LET a == call[c].approval IN
  /\ Burn(c, o)
  /\ ~(Open(a) /\ call[c].token \in Approves)
  /\ Then(c, o, "answered")
  /\ IF Expirable(a) THEN Becomes(a, "expired")
     ELSE IF Open(a) THEN Becomes(a, "denied")
     ELSE UNCHANGED approval
  /\ UNCHANGED <<votes, lapsed, ran, stranded>>

\* check_async allows what was approved and emits, then the execution starts.
Successor == [authorizing |-> "accepting", accepting |-> "starting"]
Authorize(c, o) ==
  /\ call[c].phase \in DOMAIN Successor /\ Ends(c, o)
  /\ IF Passed(c, o) THEN ThenEmits(c, o, Successor[call[c].phase]) ELSE Then(c, o, "answered")
  /\ UNCHANGED <<approval, votes, lapsed, consumed, ran, stranded>>

Run(c, o) ==
  /\ call[c].phase = "starting" /\ Ends(c, o)
  /\ Then(c, o, "running")
  /\ ran' = ran \cup {c}
  /\ UNCHANGED <<approval, votes, lapsed, consumed, stranded>>

\* The capability is done: completed or failed is reported, a cooperative
\* cancellation is not.
Done(c) ==
  /\ call[c].phase = "running"
  /\ \/ /\ Moves(c, "concluding")
        /\ delivery' = [delivery EXCEPT ![Task(c)] = Joined(@, c)]
     \/ Moves(c, "answered") /\ UNCHANGED delivery
  /\ UNCHANGED <<buffered, failures, approval, votes, lapsed, consumed, ran, stranded>>

\* Everything else answers whatever became of the evidence.  A caller told
\* that more roles have to approve has the challenge looked up once more.
Answering == {"requesting"} \cup TerminalEvidence
Answer(c, o) ==
  /\ call[c].phase \in Answering /\ Ends(c, o)
  /\ Then(c, o, "answered")
  /\ UNCHANGED <<approval, votes, lapsed, consumed, ran, stranded>>

AnswerPending(c, o) ==
  LET a == call[c].approval IN
  /\ call[c].phase = "collecting" /\ Ends(c, o)
  /\ Then(c, o, "answered")
  /\ IF Passed(c, o) /\ Expirable(a) THEN Becomes(a, "expired") ELSE UNCHANGED approval
  /\ UNCHANGED <<votes, lapsed, consumed, ran, stranded>>

\* The task of the call is cancelled where it waits.
CancelCall(c) ==
  /\ call[c].phase \in Emitting \cup {"running"}
  /\ Moves(c, "answered")
  /\ delivery' = [delivery EXCEPT ![Task(c)] = Left(@, c, FALSE)]
  /\ stranded' = IF call[c].phase = "approving" THEN stranded \cup {call[c].approval} ELSE stranded
  /\ UNCHANGED <<buffered, failures, approval, votes, lapsed, consumed, ran>>

Lapse(a) ==
  /\ approval[a] # "absent" /\ a \notin lapsed
  /\ lapsed' = lapsed \cup {a}
  /\ UNCHANGED <<emitter, approval, votes, consumed, call, ran, stranded>>

-----------------------------------------------------------------------------
Decides(c) ==
  \/ \E a \in Approvals :
       \/ Ask(c, a) \/ Expire(c, a) \/ Deny(c, a) \/ Cancel(c, a) \/ PresentForged(c, a)
       \/ \E r \in Roles : Approve(c, a, r)
  \/ \E k \in Tokens : PresentToken(c, k)

Resumes(c) ==
  \E o \in Outcomes :
    \/ Consume(c, o) \/ LoseApproval(c, o)
    \/ RejectReplay(c, o) \/ ApplyToken(c, o) \/ RefuseToken(c, o)
    \/ Authorize(c, o) \/ Run(c, o) \/ Answer(c, o) \/ AnswerPending(c, o)

Next ==
  \/ \E c \in Callers : Decides(c) \/ Resumes(c) \/ Done(c) \/ CancelCall(c)
  \/ \E k \in Tokens : PresentLate(k)
  \/ \E a \in Approvals : Lapse(a)
  \/ Flush /\ UNCHANGED flow

Spec == Init /\ [][Next]_vars

-----------------------------------------------------------------------------
(* Properties.                                                              *)

\* "stale or duplicate decisions cannot run business logic twice": whatever
\* decisions, tokens, cancellations and expiries race, every challenge lives
\* the life OneShotApproval describes, and is spent on one execution at most.
Standing(a) ==
  CASE approval[a] = "absent" -> "none"
    [] approval[a] = "required" -> "asked"
    [] approval[a] = "approved" -> "granted"
    [] approval[a] = "completed" -> "spent"
    [] OTHER -> "void"
OneShot == INSTANCE OneShotApproval WITH
  standing <- [a \in Approvals |-> Standing(a)],
  late <- lapsed,
  executions <- [a \in Approvals |-> {c \in ran : call[c].approval = a}],
  Executions <- Callers
ApprovalsAreOneShot == OneShot!Spec

\* "Protected work does not execute if required evidence cannot be recorded":
\* a call gets past evidence that is required only when the sink or the
\* bounded buffer took it (resume, check_async and emit together).
RequiredEvidenceFirst ==
  [][\A c \in Callers :
       /\ call[c].phase \in RequiredEvidence
       /\ call'[c].phase \in {"authorizing", "accepting", "starting", "running"}
       /\ call'[c] # call[c]
       => failures' = failures \/ buffered' = buffered + 1]_vars

\* An approved challenge is about to be consumed by the call that approved it;
\* only when that call was cancelled or lost its evidence is it left behind,
\* approved for ever (between decide and complete in resume).
ApprovedIsBeingConsumed ==
  \A a \in Approvals : approval[a] = "approved" =>
    a \in stranded \/ \E c \in Callers : call[c].phase = "approving" /\ call[c].approval = a
============================================================================
