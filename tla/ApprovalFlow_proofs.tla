------------------------- MODULE ApprovalFlow_proofs -------------------------
(***************************************************************************)
(* Proofs about ApprovalFlow, for every set of callers, tasks, challenges,  *)
(* roles and tokens, and every bound of the emitter: types, the order of    *)
(* the evidence of a task, approvals that are spent once, and required      *)
(* evidence that comes first.                                               *)
(***************************************************************************)
EXTENDS ApprovalFlow, TLAPS

(***************************************************************************)
(* The emitter.  A held state is the last one; every other state of a task *)
(* was ended by a terminal event with nobody in its queue.                  *)
(***************************************************************************)
Ended(s) == s.terminal /\ s.queue = <<>>

Sound(d) ==
  /\ d \in [held : BOOLEAN, states : Seq(DeliveryState)]
  /\ d.held => d.states # <<>>
  /\ \A i \in DOMAIN d.states : i < Len(d.states) \/ ~d.held => Ended(d.states[i])

LEMMA JoinedSound ==
  ASSUME NEW d, Sound(d), NEW c \in Callers
  PROVE  Sound(Joined(d, c))
<1> DEFINE states == IF d.held THEN d.states ELSE Append(d.states, Fresh)
           n == Len(states)
           s == states[n]
           joined == [sequence |-> IF s.queue = <<>> THEN s.sequence + 1 ELSE s.sequence,
                      terminal |-> s.terminal,
                      queue |-> Append(s.queue, c)]
<1>1. Fresh \in DeliveryState
  BY DEF Fresh, DeliveryState
<1>2. states \in Seq(DeliveryState) /\ n \in Nat /\ n > 0 /\ n = Len(states)
  BY <1>1 DEF Sound
<1>3. \A i \in DOMAIN states : i < n => Ended(states[i])
  BY <1>1 DEF Sound
<1>4. s \in DeliveryState
  BY <1>2
<1>5. joined \in DeliveryState
  BY <1>4 DEF DeliveryState
<1> DEFINE result == [states EXCEPT ![n] = joined]
<1>6. /\ result \in Seq(DeliveryState)
      /\ Len(result) = n
      /\ \A i \in DOMAIN result : i < n => result[i] = states[i]
  <2> HIDE DEF states, n, s, joined
  <2> QED  BY <1>2, <1>5
<1>7. Joined(d, c) = [held |-> TRUE, states |-> result]
  BY DEF Joined
<1>8. DOMAIN result = DOMAIN states /\ result # <<>>
  <2> HIDE DEF states, n, s, joined
  <2> QED  BY <1>2, <1>6
<1> HIDE DEF states, n, s, joined, result
<1> QED  BY <1>2, <1>3, <1>6, <1>7, <1>8 DEF Sound

LEMMA RemoveAtType ==
  ASSUME NEW S, NEW s \in Seq(S), NEW i \in DOMAIN s
  PROVE  SeqExt!RemoveAt(s, i) \in Seq(S)
<1>1. SubSeq(s, 1, i - 1) \in Seq(S)
  OBVIOUS
<1>2. SubSeq(s, i + 1, Len(s)) \in Seq(S)
  OBVIOUS
<1> QED  BY <1>1, <1>2 DEF SeqExt!RemoveAt

LEMMA WithoutType ==
  ASSUME NEW s \in DeliveryState, NEW c \in Callers, Queued(s, c), NEW ends \in BOOLEAN
  PROVE  Without(s, c, ends) \in DeliveryState
<1> DEFINE place == CHOOSE i \in DOMAIN s.queue : s.queue[i] = c
           others == SeqExt!RemoveAt(s.queue, place)
<1>1. place \in DOMAIN s.queue
  BY DEF Queued
<1>2. s.queue \in Seq(Callers)
  BY DEF DeliveryState
<1> HIDE DEF place
<1>3. others \in Seq(Callers)
  BY <1>1, <1>2, RemoveAtType
<1>4. Without(s, c, ends) =
        [sequence |-> IF Delivers(s, c) /\ others # <<>> THEN s.sequence + 1 ELSE s.sequence,
         terminal |-> s.terminal \/ ends, queue |-> others]
  BY DEF Without, place
<1> HIDE DEF others
<1> QED  BY <1>3, <1>4 DEF DeliveryState

LEMMA LeftSound ==
  ASSUME NEW d, Sound(d), NEW c \in Callers, NEW ends \in BOOLEAN
  PROVE  Sound(Left(d, c, ends))
<1> DEFINE n == Len(d.states)
           left(s) == IF Queued(s, c) THEN Without(s, c, ends) ELSE s
           states == [i \in 1 .. n |-> left(d.states[i])]
           held == d.held /\ ~(Queued(d.states[n], c) /\ Evicts(states[n]))
<1>1. Left(d, c, ends) = [held |-> held, states |-> states]
  BY DEF Left
<1>2. n \in Nat /\ d.states \in Seq(DeliveryState) /\ DOMAIN d.states = 1 .. n
  BY DEF Sound
<1>3. \A i \in 1 .. n : left(d.states[i]) \in DeliveryState
  BY <1>2, WithoutType
<1>4. \A s : Ended(s) => left(s) = s
  BY DEF Ended, Queued
<1> HIDE DEF left
<1>5. states \in Seq(DeliveryState) /\ Len(states) = n /\ DOMAIN states = 1 .. n
  BY <1>2, <1>3
<1>6. ASSUME NEW i \in 1 .. n, i < n \/ ~d.held
      PROVE  Ended(states[i])
  BY <1>2, <1>4, <1>6 DEF Sound
<1>7. ASSUME d.held, ~held
      PROVE  n > 0 /\ Ended(states[n])
  <2>1. n > 0
    BY <1>2, <1>7 DEF Sound
  <2> QED  BY <2>1, <1>7 DEF Evicts, Ended
<1>8. held \in BOOLEAN
  BY DEF Sound
<1>9. d.held => states # <<>>
  BY <1>2, <1>5 DEF Sound
<1> HIDE DEF states
<1>10. \A i \in 1 .. n : i < n \/ ~held => Ended(states[i])
  BY <1>2, <1>6, <1>7
<1> HIDE DEF held
<1>11. held => d.held
  BY DEF held
<1> QED  BY <1>1, <1>5, <1>8, <1>9, <1>10, <1>11 DEF Sound

EmitterInv ==
  /\ delivery \in [Tasks -> [held : BOOLEAN, states : Seq(DeliveryState)]]
  /\ \A t \in Tasks : Sound(delivery[t])
  /\ buffered \in 0 .. MaxBuffered
  /\ failures \in 0 .. MaxFailures

LEMMA TriedType ==
  ASSUME EmitterInv, NEW o \in Outcomes, Tried(o)
  PROVE  buffered' \in 0 .. MaxBuffered /\ failures' \in 0 .. MaxFailures
BY EmitterAssumption DEF EmitterInv, Outcomes, Tried, Kept

LEMMA DeliveryType ==
  ASSUME EmitterInv, NEW t \in Tasks, NEW d, Sound(d), delivery' = [delivery EXCEPT ![t] = d]
  PROVE  /\ delivery' \in [Tasks -> [held : BOOLEAN, states : Seq(DeliveryState)]]
         /\ \A u \in Tasks : Sound(delivery'[u])
<1>1. d \in [held : BOOLEAN, states : Seq(DeliveryState)]
  BY DEF Sound
<1>2. \A u \in Tasks : delivery'[u] = IF u = t THEN d ELSE delivery[u]
  BY DEF EmitterInv
<1> QED  BY <1>1, <1>2 DEF EmitterInv

\* The three ways a call touches the emitter.
LEMMA StartsEmitter ==
  ASSUME FlowTypeOK, EmitterInv, NEW c \in Callers, NEW a \in Approvals, NEW k, NEW phase,
         Starts(c, a, k, phase)
  PROVE  EmitterInv'
<1>1. TaskOf[a] \in Tasks
  BY FlowAssumption
<1>2. Sound(Joined(delivery[TaskOf[a]], c))
  BY <1>1, JoinedSound DEF EmitterInv
<1>3. delivery' = [delivery EXCEPT ![TaskOf[a]] = Joined(delivery[TaskOf[a]], c)]
  BY DEF Starts
<1> QED  BY <1>1, <1>2, <1>3, DeliveryType DEF EmitterInv, Starts

LEMMA TaskType ==
  ASSUME FlowTypeOK, NEW c \in Callers, call[c].phase # "idle"
  PROVE  call[c].approval \in Approvals /\ Task(c) \in Tasks
BY FlowAssumption DEF FlowTypeOK, Task

LEMMA LeavesSound ==
  ASSUME FlowTypeOK, EmitterInv, NEW c \in Callers, call[c].phase # "idle", NEW o
  PROVE  Task(c) \in Tasks /\ Sound(Leaves(c, o))
<1> DEFINE ends == call[c].phase \in TerminalEvidence /\ Passed(c, o)
<1>1. ends \in BOOLEAN
  BY DEF TerminalEvidence
<1>2. Leaves(c, o) = Left(delivery[Task(c)], c, ends)
  BY DEF Leaves
<1> HIDE DEF ends
<1> QED  BY <1>1, <1>2, TaskType, LeftSound DEF EmitterInv

LEMMA ThenEmitter ==
  ASSUME FlowTypeOK, EmitterInv, NEW c \in Callers, NEW o \in Outcomes, NEW phase,
         Ends(c, o), Then(c, o, phase) \/ ThenEmits(c, o, phase)
  PROVE  EmitterInv'
<1>1. call[c].phase # "idle" /\ Tried(o)
  BY DEF Ends, Emitting, RequiredEvidence, TerminalEvidence
<1>2. Task(c) \in Tasks /\ Sound(Leaves(c, o))
  BY <1>1, LeavesSound
<1>3. Sound(Joined(Leaves(c, o), c))
  BY <1>2, JoinedSound
<1>4. \E d : Sound(d) /\ delivery' = [delivery EXCEPT ![Task(c)] = d]
  BY <1>2, <1>3 DEF Then, ThenEmits
<1> QED  BY <1>1, <1>2, <1>4, DeliveryType, TriedType DEF EmitterInv

-----------------------------------------------------------------------------
(* Types of the calls and their approvals.                                  *)

CallsTypeOK ==
  /\ call \in [Callers -> [phase : {"idle", "running", "answered"} \cup Emitting,
                           approval : Approvals \cup {NoApproval},
                           token : Tokens \cup {NoToken}]]
  /\ \A c \in Callers : call[c].phase # "idle" => call[c].approval \in Approvals
  /\ \A c \in Callers : call[c].phase = "verifying" => call[c].token \in Tokens

LEMMA StartsType ==
  ASSUME FlowTypeOK, NEW c \in Callers, NEW a \in Approvals, NEW k \in Tokens \cup {NoToken},
         NEW phase \in Emitting, phase = "verifying" => k \in Tokens,
         Starts(c, a, k, phase)
  PROVE  CallsTypeOK'
BY DEF FlowTypeOK, CallsTypeOK, Starts, Emitting, RequiredEvidence, TerminalEvidence

LEMMA MovesType ==
  ASSUME FlowTypeOK, NEW c \in Callers, call[c].phase # "idle",
         NEW phase \in ({"running", "answered"} \cup Emitting) \ {"verifying"},
         Moves(c, phase)
  PROVE  CallsTypeOK'
BY DEF FlowTypeOK, CallsTypeOK, Moves, Emitting, RequiredEvidence, TerminalEvidence

\* An emission ends for a call that is under way, which then moves on.
LEMMA ThenType ==
  ASSUME FlowTypeOK, NEW c \in Callers, NEW o, Ends(c, o),
         \E phase \in ({"running", "answered"} \cup Emitting) \ {"verifying"} :
           Then(c, o, phase) \/ ThenEmits(c, o, phase)
  PROVE  CallsTypeOK'
<1>1. call[c].phase # "idle"
  BY DEF Ends, Emitting, RequiredEvidence, TerminalEvidence
<1> QED  BY <1>1, MovesType DEF Then, ThenEmits

LEMMA ExecutesThen ==
  ASSUME NEW c \in Callers, NEW o, Executes(c, o)
  PROVE  \E phase \in {"authorizing", "concluding", "answered"} :
           Then(c, o, phase) \/ ThenEmits(c, o, phase)
BY DEF Executes

LEMMA SettledType ==
  ASSUME FlowTypeOK, NEW a \in Approvals,
         NEW s \in {"required", "approved"} \cup Settled, Becomes(a, s)
  PROVE  approval' \in [Approvals -> {"absent", "required", "approved"} \cup Settled]
BY DEF FlowTypeOK, Becomes

LEMMA DecidesType ==
  ASSUME FlowTypeOK, EmitterInv, NEW c \in Callers, Decides(c)
  PROVE  FlowTypeOK' /\ EmitterInv'
<1> USE DEF Emitting, RequiredEvidence, TerminalEvidence, Settled
<1>1. ASSUME NEW a \in Approvals, Ask(c, a) PROVE FlowTypeOK' /\ EmitterInv'
  BY <1>1, StartsType, StartsEmitter, SettledType DEF Ask, FlowTypeOK, CallsTypeOK
<1>2. ASSUME NEW a \in Approvals, Expire(c, a) PROVE FlowTypeOK' /\ EmitterInv'
  BY <1>2, StartsType, StartsEmitter, SettledType DEF Expire, FlowTypeOK, CallsTypeOK
<1>3. ASSUME NEW a \in Approvals, Deny(c, a) PROVE FlowTypeOK' /\ EmitterInv'
  BY <1>3, StartsType, StartsEmitter, SettledType DEF Deny, FlowTypeOK, CallsTypeOK
<1>4. ASSUME NEW a \in Approvals, Cancel(c, a) PROVE FlowTypeOK' /\ EmitterInv'
  BY <1>4, StartsType, StartsEmitter, SettledType DEF Cancel, FlowTypeOK, CallsTypeOK
<1>5. ASSUME NEW a \in Approvals, PresentForged(c, a) PROVE FlowTypeOK' /\ EmitterInv'
  BY <1>5, StartsType, StartsEmitter DEF PresentForged, FlowTypeOK, CallsTypeOK
<1>6. ASSUME NEW a \in Approvals, NEW r \in Roles, Approve(c, a, r)
      PROVE  FlowTypeOK' /\ EmitterInv'
  <2>1. votes' \in [Approvals -> SUBSET Roles]
    BY <1>6 DEF Approve, FlowTypeOK
  <2>2. approval' \in [Approvals -> {"absent", "required", "approved"} \cup Settled]
    BY <1>6, SettledType DEF Approve, FlowTypeOK
  <2>3. \E phase \in {"approving", "collecting"} : Starts(c, a, NoToken, phase)
    BY <1>6 DEF Approve
  <2> QED  BY <1>6, <2>1, <2>2, <2>3, StartsType, StartsEmitter
           DEF Approve, FlowTypeOK, CallsTypeOK
<1>7. ASSUME NEW k \in Tokens, PresentToken(c, k) PROVE FlowTypeOK' /\ EmitterInv'
  <2>1. TokenFor[k] \in Approvals
    BY FlowAssumption
  <2> QED  BY <1>7, <2>1, StartsType, StartsEmitter DEF PresentToken, FlowTypeOK, CallsTypeOK
<1> QED  BY <1>1, <1>2, <1>3, <1>4, <1>5, <1>6, <1>7 DEF Decides

LEMMA ResumesType ==
  ASSUME FlowTypeOK, EmitterInv, NEW c \in Callers, Resumes(c)
  PROVE  FlowTypeOK' /\ EmitterInv'
<1> USE DEF Emitting, RequiredEvidence, TerminalEvidence, Settled
<1> PICK o \in Outcomes :
      \/ Consume(c, o) \/ LoseApproval(c, o)
      \/ RejectReplay(c, o) \/ ApplyToken(c, o) \/ RefuseToken(c, o)
      \/ Authorize(c, o) \/ Run(c, o) \/ Answer(c, o) \/ AnswerPending(c, o)
  BY DEF Resumes
<1> DEFINE Goal == FlowTypeOK' /\ EmitterInv'
<1>1. ASSUME Ends(c, o),
             \E phase \in {"running", "answered"} \cup (Emitting \ {"verifying"}) :
               Then(c, o, phase) \/ ThenEmits(c, o, phase)
      PROVE  CallsTypeOK' /\ EmitterInv' /\ call[c].approval \in Approvals
  <2>1. call[c].phase # "idle"
    BY <1>1 DEF Ends
  <2> QED  BY <1>1, <2>1, ThenType, ThenEmitter, TaskType
<1>2. CASE Consume(c, o)
  <2>1. CallsTypeOK' /\ EmitterInv' /\ call[c].approval \in Approvals
    BY <1>2, <1>1, ExecutesThen DEF Consume
  <2> QED  BY <1>2, <2>1 DEF Consume, Completed, FlowTypeOK, CallsTypeOK
<1>3. CASE LoseApproval(c, o)
  <2>1. CallsTypeOK' /\ EmitterInv' /\ call[c].approval \in Approvals
    BY <1>3, <1>1 DEF LoseApproval
  <2> QED  BY <1>3, <2>1 DEF LoseApproval, FlowTypeOK, CallsTypeOK
<1>4. CASE RejectReplay(c, o)
  <2>1. CallsTypeOK' /\ EmitterInv' /\ call[c].approval \in Approvals
    BY <1>4, <1>1 DEF RejectReplay
  <2> QED  BY <1>4, <2>1 DEF RejectReplay, FlowTypeOK, CallsTypeOK
<1>5. CASE ApplyToken(c, o)
  <2>1. CallsTypeOK' /\ EmitterInv' /\ call[c].approval \in Approvals
    BY <1>5, <1>1, ExecutesThen DEF ApplyToken, Burn
  <2>2. call[c].token \in Tokens
    BY <1>5 DEF ApplyToken, Burn, FlowTypeOK
  <2> QED  BY <1>5, <2>1, <2>2, FlowAssumption
           DEF ApplyToken, Burn, Completed, FlowTypeOK, CallsTypeOK
<1>6. CASE RefuseToken(c, o)
  <2>1. CallsTypeOK' /\ EmitterInv' /\ call[c].approval \in Approvals
    BY <1>6, <1>1 DEF RefuseToken, Burn
  <2>2. call[c].token \in Tokens
    BY <1>6 DEF RefuseToken, Burn, FlowTypeOK
  <2>3. approval' \in [Approvals -> {"absent", "required", "approved"} \cup Settled]
    BY <1>6, <2>1, SettledType DEF RefuseToken, FlowTypeOK
  <2> QED  BY <1>6, <2>1, <2>2, <2>3 DEF RefuseToken, Burn, FlowTypeOK, CallsTypeOK
<1>7. CASE Authorize(c, o)
  <2>1. Ends(c, o) /\ Successor[call[c].phase] \in {"accepting", "starting"}
    BY <1>7 DEF Authorize, Successor
  <2>2. CallsTypeOK' /\ EmitterInv' /\ call[c].approval \in Approvals
    BY <1>7, <2>1, <1>1 DEF Authorize
  <2> QED  BY <1>7, <2>2 DEF Authorize, FlowTypeOK, CallsTypeOK
<1>8. CASE Run(c, o)
  <2>1. CallsTypeOK' /\ EmitterInv' /\ call[c].approval \in Approvals
    BY <1>8, <1>1 DEF Run
  <2> QED  BY <1>8, <2>1 DEF Run, FlowTypeOK, CallsTypeOK
<1>9. CASE Answer(c, o)
  <2>1. CallsTypeOK' /\ EmitterInv' /\ call[c].approval \in Approvals
    BY <1>9, <1>1 DEF Answer
  <2> QED  BY <1>9, <2>1 DEF Answer, FlowTypeOK, CallsTypeOK
<1>10. CASE AnswerPending(c, o)
  <2>1. CallsTypeOK' /\ EmitterInv' /\ call[c].approval \in Approvals
    BY <1>10, <1>1 DEF AnswerPending
  <2>2. approval' \in [Approvals -> {"absent", "required", "approved"} \cup Settled]
    BY <1>10, <2>1, SettledType DEF AnswerPending, FlowTypeOK
  <2> QED  BY <1>10, <2>1, <2>2 DEF AnswerPending, FlowTypeOK, CallsTypeOK
<1> QED  BY <1>2, <1>3, <1>4, <1>5, <1>6, <1>7, <1>8, <1>9, <1>10

LEMMA TypeStep == FlowTypeOK /\ EmitterInv /\ [Next]_vars => FlowTypeOK' /\ EmitterInv'
<1> SUFFICES ASSUME FlowTypeOK, EmitterInv, [Next]_vars PROVE FlowTypeOK' /\ EmitterInv'
  OBVIOUS
<1>1. ASSUME NEW c \in Callers, Done(c) PROVE FlowTypeOK' /\ EmitterInv'
  <2>1. CallsTypeOK' /\ Task(c) \in Tasks
    BY <1>1, MovesType, TaskType DEF Done, Emitting, TerminalEvidence
  <2>2. EmitterInv'
    BY <1>1, <2>1, JoinedSound, DeliveryType DEF Done, EmitterInv
  <2> QED  BY <1>1, <2>1, <2>2 DEF Done, FlowTypeOK, CallsTypeOK
<1>2. ASSUME NEW c \in Callers, CancelCall(c) PROVE FlowTypeOK' /\ EmitterInv'
  <2>1. CallsTypeOK' /\ Task(c) \in Tasks /\ call[c].approval \in Approvals
    BY <1>2, MovesType, TaskType DEF CancelCall, Emitting, RequiredEvidence, TerminalEvidence
  <2>2. EmitterInv'
    BY <1>2, <2>1, LeftSound, DeliveryType DEF CancelCall, EmitterInv
  <2> QED  BY <1>2, <2>1, <2>2 DEF CancelCall, FlowTypeOK, CallsTypeOK
<1>3. ASSUME NEW k \in Tokens, PresentLate(k) PROVE FlowTypeOK' /\ EmitterInv'
  <2>1. TokenFor[k] \in Approvals
    BY FlowAssumption
  <2> QED  BY <1>3, <2>1, SettledType DEF PresentLate, FlowTypeOK, EmitterInv, emitter, Settled
<1>4. ASSUME NEW a \in Approvals, Lapse(a) PROVE FlowTypeOK' /\ EmitterInv'
  BY <1>4 DEF Lapse, FlowTypeOK, EmitterInv, emitter
<1>5. CASE Flush /\ UNCHANGED flow
  BY <1>5, EmitterAssumption DEF Flush, flow, FlowTypeOK, EmitterInv
<1>6. CASE UNCHANGED vars
  BY <1>6 DEF vars, flow, emitter, FlowTypeOK, EmitterInv
<1> QED  BY <1>1, <1>2, <1>3, <1>4, <1>5, <1>6, DecidesType, ResumesType DEF Next

-----------------------------------------------------------------------------
(* Approvals and the calls that hold them.  A call holds its approval from   *)
(* the decision that granted it on, until it answers without having run, and *)
(* for good once it ran.                                                     *)

Spending == {"authorizing", "accepting", "starting"}
Holds(c) == call[c].phase \in Spending \cup {"approving"} \/ c \in ran

Consistent ==
  /\ \A c \in Callers :
       call[c].phase = "approving" => approval[call[c].approval] = "approved"
  /\ \A c \in Callers :
       call[c].phase \in Spending \/ c \in ran => approval[call[c].approval] = "completed"
  /\ \A c \in ran : call[c].phase \in {"running", "concluding", "answered"}
  /\ \A c, d \in Callers : Holds(c) /\ Holds(d) /\ call[c].approval = call[d].approval => c = d
  /\ \A c \in Callers : call[c].phase = "verifying" =>
       \E r \in Roles : RequiredRoles[call[c].approval] = {r}
  /\ ApprovedIsBeingConsumed

\* What a step does to the calls: c moves, and the others stay.
LEMMA CallMoves ==
  ASSUME FlowTypeOK, NEW c \in Callers, NEW phase, Moves(c, phase)
  PROVE  /\ call'[c].phase = phase /\ call'[c].approval = call[c].approval
         /\ call'[c].token = call[c].token
         /\ \A d \in Callers \ {c} : call'[d] = call[d]
BY DEF FlowTypeOK, Moves

LEMMA CallStarts ==
  ASSUME FlowTypeOK, NEW c \in Callers, NEW a, NEW k, NEW phase, Starts(c, a, k, phase)
  PROVE  /\ call[c].phase = "idle"
         /\ call'[c].phase = phase /\ call'[c].approval = a /\ call'[c].token = k
         /\ \A d \in Callers \ {c} : call'[d] = call[d]
BY DEF FlowTypeOK, Starts

\* A call that starts and holds nothing disturbs nobody's approval, if the
\* approval was not granted.
LEMMA StartsConsistent ==
  ASSUME FlowTypeOK, Consistent, NEW c \in Callers, NEW a \in Approvals, NEW k,
         NEW phase \in Emitting \ (Spending \cup {"approving"}),
         phase = "verifying" => \E r \in Roles : RequiredRoles[a] = {r},
         Starts(c, a, k, phase), UNCHANGED <<ran, stranded>>,
         \/ UNCHANGED approval
         \/ approval[a] \notin {"approved", "completed"}
            /\ \E s \in {"required"} \cup Settled : Becomes(a, s)
  PROVE  Consistent'
<1> USE CallStarts
<1>1. c \notin ran
  BY DEF Consistent
<1>2. \A d \in Callers \ {c} : Holds(d)' = Holds(d)
  BY DEF Holds
<1>3. ~Holds(c)'
  BY <1>1 DEF Holds, Spending
<1>4. \A b \in Approvals : approval[b] \in {"approved", "completed"} => approval'[b] = approval[b]
  BY DEF Becomes, FlowTypeOK
<1>5. \A b \in Approvals : approval'[b] = "approved" => approval[b] = "approved"
  BY DEF Becomes, FlowTypeOK, Settled
<1>6. ApprovedIsBeingConsumed'
  BY <1>5 DEF Consistent, ApprovedIsBeingConsumed
<1> QED  BY <1>1, <1>2, <1>3, <1>4, <1>6 DEF Consistent, FlowTypeOK, Spending, Holds

\* A call that moves on without taking hold of an approval.
LEMMA MovesConsistent ==
  ASSUME FlowTypeOK, Consistent, NEW c \in Callers, call[c].phase # "idle",
         NEW phase, phase \notin {"approving", "verifying"},
         phase \in Spending => call[c].phase \in Spending,
         c \in ran => phase \in {"running", "concluding", "answered"},
         Moves(c, phase), UNCHANGED ran,
         \A b \in Approvals : approval[b] \in {"approved", "completed"} => approval'[b] = approval[b],
         \A b \in Approvals : approval'[b] = "approved" => approval[b] = "approved",
         stranded \subseteq stranded',
         call[c].phase = "approving" => call[c].approval \in stranded'
  PROVE  Consistent'
<1> USE CallMoves
<1>1. \A d \in Callers : Holds(d)' => Holds(d)
  BY DEF Holds
<1>2. ApprovedIsBeingConsumed'
  BY DEF Consistent, ApprovedIsBeingConsumed, FlowTypeOK
<1>3. \A d \in Callers : call'[d].approval = call[d].approval
  OBVIOUS
<1>4. \A d \in Callers : call'[d].phase \in Spending \/ d \in ran' =>
        approval'[call'[d].approval] = "completed"
  BY DEF Consistent, FlowTypeOK, Spending
<1>5. \A d \in Callers : call'[d].phase = "approving" =>
        approval'[call'[d].approval] = "approved"
  BY DEF Consistent, FlowTypeOK, Spending
<1>6. \A d \in ran' : call'[d].phase \in {"running", "concluding", "answered"}
  BY DEF Consistent, FlowTypeOK
<1>7. \A d \in Callers : call'[d].phase = "verifying" =>
        \E r \in Roles : RequiredRoles[call'[d].approval] = {r}
  BY DEF Consistent
<1> QED  BY <1>1, <1>2, <1>3, <1>4, <1>5, <1>6, <1>7 DEF Consistent

\* A decision that grants the approval makes its call the only holder.
LEMMA ApproveConsistent ==
  ASSUME FlowTypeOK, Consistent, NEW c \in Callers, NEW a \in Approvals, NEW r \in Roles,
         Approve(c, a, r)
  PROVE  Consistent'
<1>1. approval[a] = "required" /\ UNCHANGED <<ran, stranded>>
  BY DEF Approve, Open
<1>2. CASE Becomes(a, "approved") /\ Starts(c, a, NoToken, "approving")
  <2> USE <1>2, CallStarts
  <2>1. c \notin ran
    BY DEF Consistent
  <2>2. \A d \in Callers \ {c} : Holds(d)' = Holds(d)
    BY <1>1 DEF Holds
  <2>3. \A b \in Approvals : approval'[b] = IF b = a THEN "approved" ELSE approval[b]
    BY DEF Becomes, FlowTypeOK
  <2>4. \A d \in Callers : Holds(d) => call[d].approval # a
    BY <1>1 DEF Consistent, Holds
  <2>5. ApprovedIsBeingConsumed'
    BY <1>1, <2>3 DEF Consistent, ApprovedIsBeingConsumed
  <2>6. \A d \in Callers : call'[d].phase = "approving" =>
          approval'[call'[d].approval] = "approved"
    BY <2>3 DEF Consistent, FlowTypeOK
  <2>7. \A d \in Callers : call'[d].phase \in Spending \/ d \in ran' =>
          approval'[call'[d].approval] = "completed"
    BY <1>1, <2>1, <2>3, <2>4 DEF Consistent, FlowTypeOK, Spending, Holds
  <2>8. \A d \in ran' : call'[d].phase \in {"running", "concluding", "answered"}
    BY <1>1, <2>1 DEF Consistent, FlowTypeOK
  <2>9. \A d, e \in Callers :
          Holds(d)' /\ Holds(e)' /\ call'[d].approval = call'[e].approval => d = e
    BY <2>2, <2>4 DEF Consistent
  <2>10. \A d \in Callers : call'[d].phase = "verifying" =>
           \E q \in Roles : RequiredRoles[call'[d].approval] = {q}
    BY DEF Consistent
  <2> QED  BY <2>5, <2>6, <2>7, <2>8, <2>9, <2>10 DEF Consistent
<1>3. CASE UNCHANGED approval /\ Starts(c, a, NoToken, "collecting")
  <2>1. "collecting" \in Emitting \ (Spending \cup {"approving"})
    BY DEF Emitting, RequiredEvidence, Spending
  <2> QED  BY <1>1, <1>3, <2>1, StartsConsistent
<1> QED  BY <1>2, <1>3 DEF Approve

LEMMA DecidesConsistent ==
  ASSUME FlowTypeOK, Consistent, NEW c \in Callers, Decides(c)
  PROVE  Consistent'
<1> USE DEF Emitting, RequiredEvidence, TerminalEvidence, Settled, Spending
<1>1. ASSUME NEW a \in Approvals, Ask(c, a) PROVE Consistent'
  BY <1>1, StartsConsistent DEF Ask
<1>2. ASSUME NEW a \in Approvals, Expire(c, a) PROVE Consistent'
  BY <1>2, StartsConsistent DEF Expire, Expirable
<1>3. ASSUME NEW a \in Approvals, Deny(c, a) PROVE Consistent'
  BY <1>3, StartsConsistent DEF Deny, Open
<1>4. ASSUME NEW a \in Approvals, Cancel(c, a) PROVE Consistent'
  BY <1>4, StartsConsistent DEF Cancel, Open
<1>5. ASSUME NEW a \in Approvals, PresentForged(c, a) PROVE Consistent'
  BY <1>5, StartsConsistent DEF PresentForged
<1>6. ASSUME NEW k \in Tokens, PresentToken(c, k) PROVE Consistent'
  <2>1. TokenFor[k] \in Approvals
    BY FlowAssumption
  <2> QED  BY <1>6, <2>1, StartsConsistent DEF PresentToken, Verifiable
<1> QED  BY <1>1, <1>2, <1>3, <1>4, <1>5, <1>6, ApproveConsistent DEF Decides

\* The approval is completed by the call that goes on with it, if it does.
LEMMA CompletedConsistent ==
  ASSUME FlowTypeOK, Consistent, NEW c \in Callers, NEW o, NEW a \in Approvals,
         call[c].phase \in {"approving", "verifying"}, call[c].approval = a,
         \A d \in Callers : Holds(d) /\ call[d].approval = a => d = c,
         approval' = Completed(a), Executes(c, o), UNCHANGED <<ran, stranded>>
  PROVE  Consistent'
<1> PICK phase \in {"authorizing", "concluding", "answered"} : Moves(c, phase)
  BY ExecutesThen DEF Then, ThenEmits
<1> USE CallMoves
<1>1. c \notin ran
  BY DEF Consistent
<1>2. \A b \in Approvals : approval'[b] = IF b = a THEN "completed" ELSE approval[b]
  BY DEF Completed, FlowTypeOK
<1>3. \A d \in Callers \ {c} : Holds(d)' = Holds(d)
  BY DEF Holds
<1>4. \A d \in Callers : call'[d].approval = call[d].approval
  OBVIOUS
<1>5. ApprovedIsBeingConsumed'
  BY <1>2 DEF Consistent, ApprovedIsBeingConsumed
<1>6. \A d \in Callers : call'[d].phase = "approving" =>
        d # c /\ call[d].phase = "approving" /\ call[d].approval # a
  BY DEF Holds
<1>7. \A d \in Callers : call'[d].phase = "approving" =>
        approval'[call'[d].approval] = "approved"
  BY <1>2, <1>4, <1>6 DEF Consistent, FlowTypeOK
<1>8. \A d \in Callers : call'[d].phase \in Spending \/ d \in ran' =>
        approval'[call'[d].approval] = "completed"
  BY <1>1, <1>2, <1>4 DEF Consistent, FlowTypeOK, Spending
<1>9. \A d \in ran' : call'[d].phase \in {"running", "concluding", "answered"}
  BY <1>1 DEF Consistent, FlowTypeOK
<1>10. \A d, e \in Callers :
         Holds(d)' /\ Holds(e)' /\ call'[d].approval = call'[e].approval => d = e
  BY <1>3, <1>4 DEF Consistent
<1>11. \A d \in Callers : call'[d].phase = "verifying" =>
         \E r \in Roles : RequiredRoles[call'[d].approval] = {r}
  BY DEF Consistent
<1> QED  BY <1>5, <1>7, <1>8, <1>9, <1>10, <1>11 DEF Consistent

LEMMA ResumesConsistent ==
  ASSUME FlowTypeOK, Consistent, NEW c \in Callers, Resumes(c)
  PROVE  Consistent'
<1> USE DEF Emitting, RequiredEvidence, TerminalEvidence, Settled, Spending
<1> PICK o \in Outcomes :
      \/ Consume(c, o) \/ LoseApproval(c, o)
      \/ RejectReplay(c, o) \/ ApplyToken(c, o) \/ RefuseToken(c, o)
      \/ Authorize(c, o) \/ Run(c, o) \/ Answer(c, o) \/ AnswerPending(c, o)
  BY DEF Resumes
<1> DEFINE a == call[c].approval
<1> USE TaskType
<1>1. CASE Consume(c, o)
  <2>1. approval[a] = "approved" /\ a \in Approvals
    BY <1>1 DEF Consume, Consistent
  <2>2. \A d \in Callers : Holds(d) /\ call[d].approval = a => d = c
    BY <1>1 DEF Consume, Consistent, Holds
  <2> QED  BY <1>1, <2>1, <2>2, CompletedConsistent DEF Consume
<1>2. CASE LoseApproval(c, o)
  <2>1. c \notin ran
    BY <1>2 DEF LoseApproval, Consistent
  <2> QED  BY <1>2, <2>1, MovesConsistent DEF LoseApproval, Then
<1>3. CASE RejectReplay(c, o)
  <2>1. c \notin ran
    BY <1>3 DEF RejectReplay, Consistent
  <2> QED  BY <1>3, <2>1, MovesConsistent DEF RejectReplay, ThenEmits
<1>4. CASE ApplyToken(c, o)
  <2>1. approval[a] = "required" /\ a \in Approvals /\ call[c].phase = "verifying"
    BY <1>4 DEF ApplyToken, Burn, Open
  <2>2. \A d \in Callers : Holds(d) => call[d].approval # a
    BY <2>1 DEF Consistent, Holds
  <2> QED  BY <1>4, <2>1, <2>2, CompletedConsistent DEF ApplyToken
<1>5. CASE RefuseToken(c, o)
  <2>1. c \notin ran /\ a \in Approvals
    BY <1>5 DEF RefuseToken, Burn, Consistent
  <2>2. \A b \in Approvals : approval[b] \in {"approved", "completed"} => approval'[b] = approval[b]
    BY <1>5, <2>1 DEF RefuseToken, Becomes, Expirable, Open, FlowTypeOK
  <2>3. \A b \in Approvals : approval'[b] = "approved" => approval[b] = "approved"
    BY <1>5, <2>1 DEF RefuseToken, Becomes, FlowTypeOK
  <2> QED  BY <1>5, <2>1, <2>2, <2>3, MovesConsistent DEF RefuseToken, Burn, Then
<1>6. CASE Authorize(c, o)
  <2>1. c \notin ran
    BY <1>6 DEF Authorize, Successor, Consistent
  <2>2. \E phase \in {"accepting", "starting", "answered"} : Moves(c, phase)
    BY <1>6 DEF Authorize, Successor, Then, ThenEmits
  <2> QED  BY <1>6, <2>1, <2>2, MovesConsistent DEF Authorize, Successor
<1>7. CASE Run(c, o)
  <2> USE CallMoves
  <2>1. Moves(c, "running") /\ ran' = ran \cup {c} /\ call[c].phase = "starting"
        /\ UNCHANGED <<approval, stranded>>
    BY <1>7 DEF Run, Then
  <2>2. \A d \in Callers : Holds(d)' = Holds(d) /\ call'[d].approval = call[d].approval
    BY <2>1 DEF Holds
  <2>3. ApprovedIsBeingConsumed'
    BY <2>1 DEF Consistent, ApprovedIsBeingConsumed
  <2>4. \A d \in ran' : call'[d].phase \in {"running", "concluding", "answered"}
    BY <2>1 DEF Consistent, FlowTypeOK
  <2>5. \A d \in Callers : call'[d].phase \in {"verifying", "approving"} \cup Spending =>
          call'[d].phase = call[d].phase
    BY <2>1
  <2> QED  BY <2>1, <2>2, <2>3, <2>4, <2>5 DEF Consistent
<1>8. CASE Answer(c, o)
  BY <1>8, MovesConsistent DEF Answer, Answering, Then
<1>9. CASE AnswerPending(c, o)
  <2>1. c \notin ran /\ a \in Approvals
    BY <1>9 DEF AnswerPending, Consistent
  <2>2. \A b \in Approvals : approval[b] \in {"approved", "completed"} => approval'[b] = approval[b]
    BY <1>9, <2>1 DEF AnswerPending, Becomes, Expirable, FlowTypeOK
  <2>3. \A b \in Approvals : approval'[b] = "approved" => approval[b] = "approved"
    BY <1>9, <2>1 DEF AnswerPending, Becomes, FlowTypeOK
  <2> QED  BY <1>9, <2>1, <2>2, <2>3, MovesConsistent DEF AnswerPending, Then
<1> QED  BY <1>1, <1>2, <1>3, <1>4, <1>5, <1>6, <1>7, <1>8, <1>9

LEMMA ConsistentStep == FlowTypeOK /\ Consistent /\ [Next]_vars => Consistent'
<1> SUFFICES ASSUME FlowTypeOK, Consistent, [Next]_vars PROVE Consistent'
  OBVIOUS
<1>1. ASSUME NEW c \in Callers, Done(c) PROVE Consistent'
  <2>1. call[c].phase = "running" /\ UNCHANGED <<approval, ran, stranded>>
    BY <1>1 DEF Done
  <2>2. \E phase \in {"concluding", "answered"} : Moves(c, phase)
    BY <1>1 DEF Done
  <2> QED  BY <2>1, <2>2, MovesConsistent DEF Spending
<1>2. ASSUME NEW c \in Callers, CancelCall(c) PROVE Consistent'
  BY <1>2, MovesConsistent
  DEF CancelCall, Emitting, RequiredEvidence, TerminalEvidence, Spending
<1>3. ASSUME NEW k \in Tokens, PresentLate(k) PROVE Consistent'
  <2>1. \A b \in Approvals : approval[b] \in {"approved", "completed"} => approval'[b] = approval[b]
    BY <1>3 DEF PresentLate, Becomes, Expirable, FlowTypeOK
  <2>2. \A b \in Approvals : approval'[b] = "approved" => approval[b] = "approved"
    BY <1>3 DEF PresentLate, Becomes, FlowTypeOK
  <2>3. UNCHANGED <<call, ran, stranded>>
    BY <1>3 DEF PresentLate
  <2> QED  BY <2>1, <2>2, <2>3
           DEF Consistent, Holds, Spending, ApprovedIsBeingConsumed, FlowTypeOK
<1>4. ASSUME UNCHANGED <<approval, call, ran, stranded>> PROVE Consistent'
  BY <1>4 DEF Consistent, Holds, ApprovedIsBeingConsumed
<1>5. ASSUME NEW a \in Approvals, Lapse(a) PROVE Consistent'
  BY <1>4, <1>5 DEF Lapse
<1>6. CASE UNCHANGED flow
  BY <1>4, <1>6 DEF flow
<1> QED  BY <1>1, <1>2, <1>3, <1>5, <1>6, DecidesConsistent, ResumesConsistent DEF Next, vars

-----------------------------------------------------------------------------
(* The theorems.                                                            *)

Inv == FlowTypeOK /\ EmitterInv /\ Consistent

LEMMA Initially == Init => Inv
<1> SUFFICES ASSUME Init PROVE Inv
  OBVIOUS
<1>1. FlowTypeOK /\ Consistent
  BY DEF Init, FlowTypeOK, Consistent, Holds, Spending, ApprovedIsBeingConsumed, IdleCall
<1>2. EmitterInv
  <2>1. [held |-> FALSE, states |-> <<>>] \in [held : BOOLEAN, states : Seq(DeliveryState)]
    OBVIOUS
  <2> QED  BY <2>1, EmitterAssumption DEF Init, EmitterInit, EmitterInv, Sound
<1> QED  BY <1>1, <1>2 DEF Inv

LEMMA Inductive == Inv /\ [Next]_vars => Inv'
BY TypeStep, ConsistentStep DEF Inv

LEMMA Invariance == Spec => []Inv
BY Initially, Inductive, PTL DEF Spec

\* Every reachable state has its types: the buffer keeps its bound, and the
\* queue of a task holds callers only.
THEOREM TypeCorrect == Spec => []TypeOK
<1>1. Inv => TypeOK
  BY DEF Inv, EmitterInv, TypeOK, EmitterTypeOK
<1> QED  BY <1>1, Invariance, PTL

\* Evidence of a task is delivered one event at a time, and its numbers start
\* again only after a terminal event with nobody waiting (emit).
THEOREM EvidenceOrdered == Spec => []EvidenceInOrder
<1>1. Inv => EvidenceInOrder
  BY DEF Inv, EmitterInv, Sound, Ended, EvidenceInOrder
<1> QED  BY <1>1, Invariance, PTL

\* An approved challenge is being consumed by the call that approved it, or
\* that call was cancelled or lost its evidence (resume).
THEOREM ApprovedConsumed == Spec => []ApprovedIsBeingConsumed
<1>1. Inv => ApprovedIsBeingConsumed
  BY DEF Inv, Consistent
<1> QED  BY <1>1, Invariance, PTL

\* A call gets past required evidence only when the sink or the buffer took it
\* (check_async, resume, emit).
THEOREM EvidenceComesFirst == Spec => RequiredEvidenceFirst
<1> DEFINE Step == \A c \in Callers :
       /\ call[c].phase \in RequiredEvidence
       /\ call'[c].phase \in {"authorizing", "accepting", "starting", "running"}
       /\ call'[c] # call[c]
       => failures' = failures \/ buffered' = buffered + 1
<1>1. ASSUME Inv, [Next]_vars PROVE [Step]_vars
  <2> SUFFICES ASSUME NEW c \in Callers, call[c].phase \in RequiredEvidence,
                      call'[c].phase \in {"authorizing", "accepting", "starting", "running"},
                      call'[c] # call[c]
               PROVE  failures' = failures \/ buffered' = buffered + 1
    OBVIOUS
  <2> USE <1>1, CallMoves, CallStarts DEF Inv
  <2>1. call[c].phase # "idle"
    BY DEF RequiredEvidence
  <2>2. \A d \in Callers : Decides(d) => call'[c] = call[c]
    BY <2>1 DEF Decides, Ask, Expire, Deny, Cancel, PresentForged, Approve, PresentToken
  <2>3. ASSUME NEW d \in Callers, Done(d) \/ CancelCall(d) PROVE call'[c] = call[c]
    <3>1. PICK phase \in {"concluding", "answered"} : Moves(d, phase)
      BY <2>3 DEF Done, CancelCall
    <3>2. d # c
      BY <2>3, <3>1 DEF Done, CancelCall, RequiredEvidence
    <3> QED  BY <3>1, <3>2
  <2>4. ASSUME NEW d \in Callers, Resumes(d), d # c PROVE call'[c] = call[c]
    <3>1. PICK o \in Outcomes :
            \/ Consume(d, o) \/ LoseApproval(d, o)
            \/ RejectReplay(d, o) \/ ApplyToken(d, o) \/ RefuseToken(d, o)
            \/ Authorize(d, o) \/ Run(d, o) \/ Answer(d, o) \/ AnswerPending(d, o)
      BY <2>4 DEF Resumes
    <3>2. Executes(d, o) => \E phase : Moves(d, phase)
      BY ExecutesThen DEF Then, ThenEmits
    <3>3. CASE Consume(d, o) \/ LoseApproval(d, o) \/ ApplyToken(d, o) \/ RefuseToken(d, o)
      <4> \E phase : Moves(d, phase)
        BY <3>2, <3>3 DEF Consume, LoseApproval, ApplyToken, RefuseToken, Then
      <4> QED  BY <2>4
    <3>4. CASE \/ RejectReplay(d, o) \/ Authorize(d, o) \/ Run(d, o) \/ Answer(d, o)
               \/ AnswerPending(d, o)
      <4> \E phase : Moves(d, phase)
        BY <3>4 DEF RejectReplay, Authorize, Run, Answer, AnswerPending, Then, ThenEmits
      <4> QED  BY <2>4
    <3> QED  BY <3>1, <3>3, <3>4
  <2>5. ASSUME Resumes(c) PROVE \E o \in Outcomes : Ends(c, o) /\ Passed(c, o)
    BY <2>5, ExecutesThen
    DEF Resumes, Consume, LoseApproval, RejectReplay, ApplyToken, RefuseToken, Burn,
        Authorize, Run, Answer, AnswerPending, Then, ThenEmits, RequiredEvidence
  <2>6. \A o \in Outcomes : Ends(c, o) /\ Passed(c, o) =>
          failures' = failures \/ buffered' = buffered + 1
    BY DEF Ends, Passed, Passes, Tried, Kept, Outcomes, EmitterInv
  <2>7. UNCHANGED call => FALSE
    OBVIOUS
  <2> QED  BY <2>2, <2>3, <2>4, <2>5, <2>6, <2>7 DEF Next, PresentLate, Lapse, flow, vars
<1> QED  BY <1>1, Invariance, PTL DEF Spec, RequiredEvidenceFirst

-----------------------------------------------------------------------------
(* ApprovalFlow implements OneShotApproval.                                 *)

Spent(a) == {c \in ran : call[c].approval = a}

Mapped == <<[a \in Approvals |-> Standing(a)], votes, lapsed, [a \in Approvals |-> Spent(a)]>>

LEMMA StandingMoves ==
  ASSUME FlowTypeOK, NEW a \in Approvals, NEW s, Becomes(a, s)
  PROVE  approval'[a] = s /\ \A b \in Approvals \ {a} : approval'[b] = approval[b]
BY DEF FlowTypeOK, Becomes

\* The executions stay as they are in every step but Run.
LEMMA SpentStays ==
  ASSUME FlowTypeOK, UNCHANGED ran, \A c \in ran : call'[c].approval = call[c].approval
  PROVE  [a \in Approvals |-> Spent(a)]' = [a \in Approvals |-> Spent(a)]
<1>1. \A a \in Approvals : Spent(a)' = Spent(a)
  BY DEF Spent
<1> QED  BY <1>1

LEMMA StartsSpent ==
  ASSUME FlowTypeOK, Consistent, NEW c \in Callers, NEW a, NEW k, NEW phase,
         Starts(c, a, k, phase), UNCHANGED ran
  PROVE  [b \in Approvals |-> Spent(b)]' = [b \in Approvals |-> Spent(b)]
<1>1. c \notin ran
  BY CallStarts DEF Consistent
<1>2. \A d \in ran : call'[d].approval = call[d].approval
  BY <1>1, CallStarts DEF FlowTypeOK
<1> QED  BY <1>2, SpentStays

LEMMA MovesSpent ==
  ASSUME FlowTypeOK, NEW c \in Callers, NEW phase, Moves(c, phase), UNCHANGED ran
  PROVE  [b \in Approvals |-> Spent(b)]' = [b \in Approvals |-> Spent(b)]
<1>1. \A d \in ran : call'[d].approval = call[d].approval
  BY CallMoves DEF FlowTypeOK
<1> QED  BY <1>1, SpentStays

\* The standing of one approval changes, and nothing else that is mapped.
LEMMA StandingStep ==
  ASSUME NEW a \in Approvals, NEW s,
         approval'[a] # approval[a] => Standing(a)' = s,
         \A b \in Approvals \ {a} : approval'[b] = approval[b]
  PROVE  \/ [b \in Approvals |-> Standing(b)]' =
              [[b \in Approvals |-> Standing(b)] EXCEPT ![a] = s]
         \/ [b \in Approvals |-> Standing(b)]' = [b \in Approvals |-> Standing(b)]
<1>1. \A b \in Approvals \ {a} : Standing(b)' = Standing(b)
  BY DEF Standing
<1>2. Standing(a)' = s \/ Standing(a)' = Standing(a)
  BY DEF Standing
<1> QED  BY <1>1, <1>2

LEMMA VoidStep ==
  ASSUME FlowTypeOK, NEW a \in Approvals, approval[a] = "required",
         NEW s \in {"expired", "denied", "canceled"}, Becomes(a, s),
         UNCHANGED <<votes, lapsed>>,
         [b \in Approvals |-> Spent(b)]' = [b \in Approvals |-> Spent(b)]
  PROVE  OneShot!Next
<1>1. Standing(a) = "asked" /\ Standing(a)' = "void"
  BY StandingMoves DEF Standing
<1>2. [b \in Approvals |-> Standing(b)]' = [[b \in Approvals |-> Standing(b)] EXCEPT ![a] = "void"]
  BY <1>1, StandingMoves, StandingStep
<1>3. OneShot!Void(a)
  BY <1>1, <1>2 DEF OneShot!Void, OneShot!Becomes, Spent
<1> QED  BY <1>3 DEF OneShot!Next

LEMMA DecidesRefines ==
  ASSUME FlowTypeOK, Consistent, NEW c \in Callers, Decides(c)
  PROVE  OneShot!Next \/ UNCHANGED Mapped
<1>1. ASSUME NEW a \in Approvals, Ask(c, a) PROVE OneShot!Next
  <2>1. Standing(a) = "none" /\ Standing(a)' = "asked"
    BY <1>1, StandingMoves DEF Ask, Standing
  <2>2. [b \in Approvals |-> Standing(b)]'
          = [[b \in Approvals |-> Standing(b)] EXCEPT ![a] = "asked"]
    BY <1>1, <2>1, StandingMoves, StandingStep DEF Ask
  <2>3. OneShot!Ask(a)
    BY <1>1, <2>1, <2>2, StartsSpent DEF Ask, OneShot!Ask, OneShot!Becomes, Spent
  <2> QED  BY <2>3 DEF OneShot!Next
<1>2. ASSUME NEW a \in Approvals, Expire(c, a) PROVE OneShot!Next
  BY <1>2, VoidStep, StartsSpent DEF Expire, Expirable
<1>3. ASSUME NEW a \in Approvals, Deny(c, a) PROVE OneShot!Next
  BY <1>3, VoidStep, StartsSpent DEF Deny, Open
<1>4. ASSUME NEW a \in Approvals, Cancel(c, a) PROVE OneShot!Next
  BY <1>4, VoidStep, StartsSpent DEF Cancel, Open
<1>5. ASSUME NEW a \in Approvals, PresentForged(c, a) PROVE UNCHANGED Mapped
  BY <1>5, StartsSpent DEF PresentForged, Mapped, Standing
<1>6. ASSUME NEW k \in Tokens, PresentToken(c, k) PROVE UNCHANGED Mapped
  BY <1>6, StartsSpent DEF PresentToken, Mapped, Standing
<1>7. ASSUME NEW a \in Approvals, NEW r \in Roles, Approve(c, a, r) PROVE OneShot!Next
  <2> DEFINE roles == votes[a] \cup {r}
             standing == [b \in Approvals |-> Standing(b)]
  <2>1. /\ approval[a] = "required" /\ a \notin lapsed /\ r \in RequiredRoles[a]
        /\ votes' = [votes EXCEPT ![a] = votes[a] \cup {r}] /\ votes'[a] = roles
        /\ lapsed' = lapsed
    BY <1>7 DEF Approve, Open, FlowTypeOK
  <2>2. standing[a] = "asked"
    BY <2>1 DEF Standing
  <2>3. [b \in Approvals |-> Spent(b)]' = [b \in Approvals |-> Spent(b)]
    BY <1>7, StartsSpent DEF Approve
  <2>4. CASE RequiredRoles[a] \subseteq roles
    <3>1. Becomes(a, "approved")
      BY <1>7, <2>4 DEF Approve, Unanimous
    <3>2. Standing(a)' = "granted"
      BY <3>1, StandingMoves DEF Standing
    <3>3. standing' = [standing EXCEPT ![a] = "granted"]
      BY <2>1, <3>1, <3>2, StandingMoves, StandingStep DEF Standing
    <3>4. OneShot!Vote(a, r)
      BY <2>1, <2>2, <2>3, <2>4, <3>3 DEF OneShot!Vote, OneShot!Becomes, Spent
    <3> QED  BY <3>4 DEF OneShot!Next
  <2>5. CASE ~(RequiredRoles[a] \subseteq roles)
    <3>1. approval' = approval
      BY <1>7, <2>5 DEF Approve, Unanimous
    <3>2. standing' = standing
      BY <3>1 DEF Standing
    <3>3. OneShot!Vote(a, r)
      BY <2>1, <2>2, <2>3, <2>5, <3>2 DEF OneShot!Vote, OneShot!Becomes, Spent
    <3> QED  BY <3>3 DEF OneShot!Next
  <2> QED  BY <2>4, <2>5
<1> QED  BY <1>1, <1>2, <1>3, <1>4, <1>5, <1>6, <1>7 DEF Decides

\* Every way to resume a call, but Run, moves it without a new execution.
LEMMA ResumesSpent ==
  ASSUME FlowTypeOK, NEW c \in Callers, UNCHANGED ran,
         \/ \E o, phase : Then(c, o, phase) \/ ThenEmits(c, o, phase)
         \/ \E o : Executes(c, o)
  PROVE  [b \in Approvals |-> Spent(b)]' = [b \in Approvals |-> Spent(b)]
<1>1. \E phase : Moves(c, phase)
  BY ExecutesThen DEF Then, ThenEmits
<1> QED  BY <1>1, MovesSpent

LEMMA ConsumeRefines ==
  ASSUME FlowTypeOK, Consistent, NEW c \in Callers, NEW o, Consume(c, o)
  PROVE  OneShot!Next
<1> PICK a \in Approvals : a = call[c].approval
  BY TaskType DEF Consume, ApplyToken, Burn
<1> DEFINE standing == [b \in Approvals |-> Standing(b)]
<1>1. approval[a] = "approved"
  BY DEF Consume, Consistent
<1>2. approval' = Completed(a) /\ Executes(c, o) /\ UNCHANGED <<votes, lapsed, ran>>
  BY <1>1 DEF Consume
<1>3. Standing(a) = "granted" /\ Standing(a)' = "spent"
  BY <1>1, <1>2 DEF Standing, Completed, FlowTypeOK
<1>4. \A b \in Approvals \ {a} : approval'[b] = approval[b]
  BY <1>1, <1>2 DEF Completed, FlowTypeOK
<1>5. standing' = [standing EXCEPT ![a] = "spent"]
  BY <1>1, <1>3, <1>4, StandingStep
<1>6. OneShot!Spend(a)
  BY <1>1, <1>2, <1>3, <1>5, ResumesSpent DEF OneShot!Spend, OneShot!Becomes, Spent
<1> QED  BY <1>1, <1>6 DEF OneShot!Next

\* A token brings the one vote its challenge requires, and spends it at once.
LEMMA ApplyRefines ==
  ASSUME FlowTypeOK, Consistent, NEW c \in Callers, NEW o, ApplyToken(c, o)
  PROVE  OneShot!Next
<1> PICK a \in Approvals : a = call[c].approval
  BY TaskType DEF Consume, ApplyToken, Burn
<1> DEFINE standing == [b \in Approvals |-> Standing(b)]
<1>1. /\ approval[a] = "required" /\ a \notin lapsed
      /\ approval' = Completed(a) /\ Executes(c, o) /\ UNCHANGED <<lapsed, ran>>
      /\ votes' = [votes EXCEPT ![a] = votes[a] \cup RequiredRoles[a]]
  BY DEF ApplyToken, Burn, Open
<1>2. PICK r \in Roles : RequiredRoles[a] = {r}
  BY DEF ApplyToken, Burn, Consistent
<1>3. Standing(a) = "asked" /\ Standing(a)' = "spent"
  BY <1>1 DEF Standing, Completed, FlowTypeOK
<1>4. \A b \in Approvals \ {a} : approval'[b] = approval[b]
  BY <1>1 DEF Completed, FlowTypeOK
<1>5. standing' = [standing EXCEPT ![a] = "spent"]
  BY <1>1, <1>3, <1>4, StandingStep
<1>6. RequiredRoles[a] \subseteq votes'[a]
  BY <1>1 DEF FlowTypeOK
<1>7. OneShot!Vote(a, r)
  BY <1>1, <1>2, <1>3, <1>5, <1>6, ResumesSpent DEF OneShot!Vote, OneShot!Becomes, Spent
<1> QED  BY <1>1, <1>7 DEF OneShot!Next

\* The call that starts to run is the only one its approval was spent on.
LEMMA RunRefines ==
  ASSUME FlowTypeOK, Consistent, NEW c \in Callers, NEW o, Run(c, o)
  PROVE  OneShot!Next
<1> USE CallMoves
<1> PICK a \in Approvals : a = call[c].approval
  BY TaskType DEF Run
<1> DEFINE spent == [b \in Approvals |-> Spent(b)]
<1>1. /\ call[c].phase = "starting" /\ Moves(c, "running")
      /\ ran' = ran \cup {c} /\ UNCHANGED <<approval, votes, lapsed>>
  BY DEF Run, Then
<1>2. Standing(a) = "spent"
  BY <1>1 DEF Consistent, Spending, Standing
<1>3. Spent(a) = {}
  BY <1>1 DEF Consistent, Spending, Holds, Spent, FlowTypeOK
<1>4. \A b \in Approvals : Spent(b)' = IF b = a THEN {c} ELSE Spent(b)
  <2>1. \A d \in ran' : call'[d].approval = call[d].approval
    BY <1>1 DEF FlowTypeOK
  <2>2. \A b \in Approvals : Spent(b)' = {d \in ran \cup {c} : call[d].approval = b}
    BY <1>1, <2>1 DEF Spent
  <2> QED  BY <1>3, <2>2 DEF Spent
<1>5. spent' = [spent EXCEPT ![a] = {c}]
  BY <1>1, <1>4
<1>6. OneShot!Execute(a, c)
  BY <1>1, <1>2, <1>3, <1>5 DEF OneShot!Execute, Spent, Standing
<1> QED  BY <1>1, <1>6 DEF OneShot!Next

LEMMA ResumesRefines ==
  ASSUME FlowTypeOK, Consistent, NEW c \in Callers, Resumes(c)
  PROVE  OneShot!Next \/ UNCHANGED Mapped
<1> PICK o \in Outcomes :
      \/ Consume(c, o) \/ LoseApproval(c, o)
      \/ RejectReplay(c, o) \/ ApplyToken(c, o) \/ RefuseToken(c, o)
      \/ Authorize(c, o) \/ Run(c, o) \/ Answer(c, o) \/ AnswerPending(c, o)
  BY DEF Resumes
<1> PICK a \in Approvals : a = call[c].approval
  BY TaskType
  DEF Consume, LoseApproval, RejectReplay, ApplyToken, RefuseToken, Burn, Authorize, Successor,
      Run, Answer, AnswerPending, Answering, TerminalEvidence
<1>1. CASE LoseApproval(c, o)
  BY <1>1, ResumesSpent DEF LoseApproval, Mapped, Standing
<1>2. CASE RejectReplay(c, o)
  BY <1>2, ResumesSpent DEF RejectReplay, Mapped, Standing
<1>3. CASE RefuseToken(c, o)
  <2>2. [b \in Approvals |-> Spent(b)]' = [b \in Approvals |-> Spent(b)]
    BY <1>3, ResumesSpent DEF RefuseToken
  <2>3. CASE UNCHANGED approval
    BY <1>3, <2>2, <2>3 DEF RefuseToken, Mapped, Standing
  <2>4. CASE approval[a] = "required" /\ \E s \in {"expired", "denied"} : Becomes(a, s)
    BY <1>3, <2>2, <2>4, VoidStep DEF RefuseToken
  <2> QED  BY <1>3, <2>3, <2>4 DEF RefuseToken, Expirable, Open
<1>4. CASE Authorize(c, o)
  BY <1>4, ResumesSpent DEF Authorize, Mapped, Standing
<1>5. CASE Answer(c, o)
  BY <1>5, ResumesSpent DEF Answer, Mapped, Standing
<1>6. CASE AnswerPending(c, o)
  <2>2. [b \in Approvals |-> Spent(b)]' = [b \in Approvals |-> Spent(b)]
    BY <1>6, ResumesSpent DEF AnswerPending
  <2>3. CASE UNCHANGED approval
    BY <1>6, <2>2, <2>3 DEF AnswerPending, Mapped, Standing
  <2>4. CASE approval[a] = "required" /\ Becomes(a, "expired")
    BY <1>6, <2>2, <2>4, VoidStep DEF AnswerPending
  <2> QED  BY <1>6, <2>3, <2>4 DEF AnswerPending, Expirable
<1> QED  BY <1>1, <1>2, <1>3, <1>4, <1>5, <1>6, ConsumeRefines, ApplyRefines, RunRefines

LEMMA StepRefines ==
  ASSUME FlowTypeOK, Consistent, [Next]_vars
  PROVE  OneShot!Next \/ UNCHANGED Mapped
<1>1. ASSUME NEW c \in Callers, Done(c) \/ CancelCall(c) PROVE UNCHANGED Mapped
  <2>1. \E phase : Moves(c, phase)
    BY <1>1 DEF Done, CancelCall
  <2> QED  BY <1>1, <2>1, MovesSpent DEF Done, CancelCall, Mapped, Standing
<1>2. ASSUME UNCHANGED <<call, ran>>
      PROVE  [b \in Approvals |-> Spent(b)]' = [b \in Approvals |-> Spent(b)]
  BY <1>2, SpentStays
<1>3. ASSUME NEW k \in Tokens, PresentLate(k) PROVE OneShot!Next
  <2>1. TokenFor[k] \in Approvals
    BY FlowAssumption
  <2> QED  BY <1>2, <1>3, <2>1, VoidStep DEF PresentLate, Expirable
<1>4. ASSUME NEW a \in Approvals, Lapse(a) PROVE OneShot!Next
  <2>1. OneShot!Lapse(a)
    BY <1>2, <1>4 DEF Lapse, OneShot!Lapse, Spent, Standing
  <2> QED  BY <2>1 DEF OneShot!Next
<1>5. ASSUME UNCHANGED flow PROVE UNCHANGED Mapped
  BY <1>2, <1>5 DEF flow, Mapped, Standing
<1> QED  BY <1>1, <1>3, <1>4, <1>5, DecidesRefines, ResumesRefines DEF Next, vars

\* Whatever races, a challenge is granted in time and by every role it
\* requires, ends once, and is spent on one execution at most (resume, the
\* approval store and the token service together).
THEOREM ApprovalsSpentOnce == Spec => ApprovalsAreOneShot
<1>1. Init => OneShot!Init
  BY DEF Init, OneShot!Init, Standing
<1>2. Inv /\ [Next]_vars => [OneShot!Next]_(OneShot!vars)
  BY StepRefines DEF Inv, Mapped, Spent, OneShot!vars
<1> QED  BY <1>1, <1>2, Invariance, PTL DEF Spec, ApprovalsAreOneShot, OneShot!Spec
============================================================================
