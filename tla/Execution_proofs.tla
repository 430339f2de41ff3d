-------------------------- MODULE Execution_proofs ---------------------------
(***************************************************************************)
(* Proofs about an execution and the resources it reads: Invocation, for     *)
(* every set of invocations, delegation tree, assignment of runs,           *)
(* capabilities and deadlines, and number of workers; DataSources, for every *)
(* set of operators, readers and configurations, collection of batches,     *)
(* checking moments and time to live.                                       *)
(***************************************************************************)
EXTENDS Invocation, DataSources, TLAPS


-----------------------------------------------------------------------------
(* Types.                                                                   *)

\* What Answer and Await leave, whatever the invocation was doing.
LEMMA AnswerType ==
  ASSUME TypeOK, NEW c \in Calls, NEW outcome \in Results, Answer(c, outcome, task[c])
  PROVE  /\ phase' \in [Calls -> {"idle", "checking", "launched", "waiting", "overdue",
                                  "dismissed", "finishing", "answered"}]
         /\ result' \in [Calls -> Results \cup {"none"}]
         /\ task' \in [Calls -> {"none", "running", "cancelling"} \cup Ended]
         /\ active' \subseteq Calls
         /\ model' \in [Calls -> {"none", "own", "background", "stopping"}]
BY DEF TypeOK, Answer, Deactivate, ModelAfterDeactivate, Stopped

LEMMA AwaitType ==
  ASSUME TypeOK, NEW c \in Calls, NEW outcome \in Results \cup {"none"},
         NEW where \in {"launched", "waiting", "overdue", "dismissed", "finishing"},
         NEW state \in {"none", "running", "cancelling"} \cup Ended,
         Await(c, where, outcome, state)
  PROVE  /\ phase' \in [Calls -> {"idle", "checking", "launched", "waiting", "overdue",
                                  "dismissed", "finishing", "answered"}]
         /\ result' \in [Calls -> Results \cup {"none"}]
         /\ task' \in [Calls -> {"none", "running", "cancelling"} \cup Ended]
         /\ UNCHANGED <<active, model>>
BY DEF TypeOK, Await

\* Await with what every handler around it leaves alone.
LEMMA AwaitKeepsTypes ==
  ASSUME TypeOK, NEW c \in Calls, NEW outcome \in Results \cup {"none"},
         NEW where \in {"launched", "waiting", "overdue", "dismissed", "finishing"},
         NEW state \in {"none", "running", "cancelling"} \cup Ended,
         Await(c, where, outcome, state),
         due' = due, asked' = asked, observed' = observed, thread' = thread,
         dismissed' \subseteq Calls
  PROVE  TypeOK'
<1>1. /\ phase' \in [Calls -> {"idle", "checking", "launched", "waiting", "overdue",
                               "dismissed", "finishing", "answered"}]
      /\ result' \in [Calls -> Results \cup {"none"}]
      /\ task' \in [Calls -> {"none", "running", "cancelling"} \cup Ended]
      /\ active' = active /\ model' = model
  BY AwaitType
<1> QED  BY <1>1 DEF TypeOK, Runs

LEMMA StoppedType ==
  ASSUME NEW state \in {"none", "running", "cancelling"} \cup Ended
  PROVE  Stopped(state) \in {"none", "running", "cancelling"} \cup Ended
BY DEF Stopped

LEMMA TypeStep == TypeOK /\ [Next]_vars => TypeOK'
<1> SUFFICES ASSUME TypeOK, [Next]_vars PROVE TypeOK'
  OBVIOUS
<1>1. ASSUME NEW c \in Calls, Begin(c) PROVE TypeOK'
  BY <1>1 DEF TypeOK, Begin, Results, Runs
<1>2. ASSUME NEW c \in Calls, Reject(c) PROVE TypeOK'
  BY <1>2, AnswerType DEF TypeOK, Reject, Results, Runs
<1>3. ASSUME NEW c \in Calls, Launch(c) PROVE TypeOK'
  BY <1>3, AwaitType DEF TypeOK, Launch, StartsIn, Results, Runs
<1>4. ASSUME NEW c \in Calls, Resume(c) PROVE TypeOK'
  <2>1. task[c] \in {"none", "running", "cancelling"} \cup Ended /\ "timeout" \in Results
    BY DEF TypeOK, Results
  <2>2. UNCHANGED <<due, asked, observed, thread>> /\ dismissed' \subseteq Calls
    BY <1>4 DEF TypeOK, Resume
  <2>3. CASE Await(c, "finishing", "timeout", task[c])
    BY <2>1, <2>2, <2>3, AwaitKeepsTypes
  <2>4. CASE Await(c, "waiting", "none", task[c])
    BY <2>1, <2>2, <2>4, AwaitKeepsTypes
  <2> QED BY <1>4, <2>3, <2>4 DEF Resume
<1>5. ASSUME NEW c \in Calls, WaitTimesOut(c) PROVE TypeOK'
  <2>1. Stopped(task[c]) \in {"none", "running", "cancelling"} \cup Ended
    BY StoppedType DEF TypeOK
  <2>2. /\ Await(c, "overdue", "none", Stopped(task[c]))
        /\ UNCHANGED <<due, asked, observed, thread>> /\ dismissed' \subseteq Calls
    BY <1>5 DEF TypeOK, WaitTimesOut
  <2> QED BY <2>1, <2>2, AwaitKeepsTypes
<1>6. ASSUME NEW c \in Calls, WaitEnds(c) PROVE TypeOK'
  <2>1. task[c] \in {"none", "running", "cancelling"} \cup Ended
        /\ {"success", "failure", "cancelled"} \subseteq Results
    BY DEF TypeOK, Results
  <2>2. CASE \E outcome \in {"success", "failure"} : Await(c, "finishing", outcome, task[c])
    BY <1>6, <2>1, <2>2, AwaitType DEF TypeOK, WaitEnds, Runs
  <2>3. CASE Answer(c, "cancelled", task[c])
    BY <1>6, <2>1, <2>3, AnswerType DEF TypeOK, WaitEnds, Runs
  <2> QED BY <1>6, <2>2, <2>3 DEF WaitEnds
<1>7. ASSUME NEW c \in Calls, StopEnds(c) PROVE TypeOK'
  <2>1. task[c] \in {"none", "running", "cancelling"} \cup Ended
        /\ {"timeout", "failure", "raised", "cancelled"} \subseteq Results
    BY DEF TypeOK, Results
  <2>2. CASE \E outcome \in {"timeout", "failure"} : Await(c, "finishing", outcome, task[c])
    BY <1>7, <2>1, <2>2, AwaitType DEF TypeOK, StopEnds, Runs
  <2>3. CASE \E outcome \in {"raised", "cancelled"} : Answer(c, outcome, task[c])
    BY <1>7, <2>1, <2>3, AnswerType DEF TypeOK, StopEnds, Runs
  <2> QED BY <1>7, <2>2, <2>3 DEF StopEnds, OverdueAnswer
<1>8. ASSUME NEW c \in Calls, Finish(c) PROVE TypeOK'
  BY <1>8, AnswerType DEF TypeOK, Finish, Answer, Deactivate, ModelAfterDeactivate, Stopped, Runs
<1>9. ASSUME NEW c \in Calls, CallerCancels(c) PROVE TypeOK'
  <2>0. UNCHANGED <<due, asked, observed, thread>> /\ dismissed' \subseteq Calls
    BY <1>9 DEF TypeOK, CallerCancels
  <2>1. /\ task[c] \in {"none", "running", "cancelling"} \cup Ended
        /\ Stopped(task[c]) \in {"none", "running", "cancelling"} \cup Ended
        /\ {"timeout", "raised"} \subseteq Results
    BY StoppedType DEF TypeOK, Results
  <2>2. CASE Answer(c, "raised", task[c])
    BY <1>9, <2>1, <2>2, AnswerType DEF TypeOK, CallerCancels, Runs
  <2>3. CASE Await(c, "dismissed", "none", Stopped(task[c]))
    BY <2>0, <2>1, <2>3, AwaitKeepsTypes
  <2>4. CASE Await(c, "finishing", "timeout", task[c])
    BY <2>0, <2>1, <2>4, AwaitKeepsTypes
  <2>5. CASE UNCHANGED <<phase, result, task, active, model>>
    BY <1>9, <2>5 DEF TypeOK, CallerCancels, Runs
  <2> QED BY <1>9, <2>2, <2>3, <2>4, <2>5 DEF CallerCancels
<1>10. ASSUME NEW c \in Calls, DeadlinePasses(c) PROVE TypeOK'
  BY <1>10 DEF TypeOK, DeadlinePasses, Runs
<1>11. ASSUME NEW r \in Runs, Ask(r) PROVE TypeOK'
  BY <1>11 DEF TypeOK, Ask, Runs
<1>12. ASSUME NEW c \in Calls, Observe(c) PROVE TypeOK'
  BY <1>12 DEF TypeOK, Observe, Stopped, Runs
<1>13. ASSUME NEW c \in Calls, NEW kind \in {"own", "background"}, BeginModelCall(c, kind)
       PROVE  TypeOK'
  BY <1>13 DEF TypeOK, BeginModelCall, Runs
<1>14. ASSUME NEW c \in Calls, EndModelCall(c) PROVE TypeOK'
  BY <1>14 DEF TypeOK, EndModelCall, Runs
<1>15. ASSUME NEW c \in Calls, CapabilityReturns(c) \/ CapabilityFails(c) PROVE TypeOK'
  BY <1>15 DEF TypeOK, CapabilityReturns, CapabilityFails, CapabilityEnds, Deactivate,
     ModelAfterDeactivate, Ended, Runs
<1>16. ASSUME NEW c \in Calls, CapabilityStops(c) PROVE TypeOK'
  BY <1>16 DEF TypeOK, CapabilityStops, StopKind, Ended, Runs
<1>17. ASSUME NEW c \in Calls, ThreadStarts(c) \/ LockTaken(c) PROVE TypeOK'
  BY <1>17 DEF TypeOK, ThreadStarts, LockTaken, Runs
<1>18. ASSUME NEW c \in Calls, NEW outcome \in {"returned", "failed"}, ThreadEnds(c, outcome)
       PROVE  TypeOK'
  BY <1>18 DEF TypeOK, ThreadEnds, Deactivate, ModelAfterDeactivate, Ended, Runs
<1>19. CASE UNCHANGED vars
  BY <1>19 DEF TypeOK, vars, Runs
<1> QED BY <1>1, <1>2, <1>3, <1>4, <1>5, <1>6, <1>7, <1>8, <1>9, <1>10, <1>11, <1>12, <1>13,
           <1>14, <1>15, <1>16, <1>17, <1>18, <1>19 DEF Next, Invokes, Executes

\* The variables of every invocation keep their types; only synchronous
\* capabilities ever have a thread.
THEOREM TypeCorrect == Spec => []TypeOK
<1>1. Init => TypeOK
  BY DEF Init, TypeOK, Runs
<1> QED BY <1>1, TypeStep, PTL DEF Spec

-----------------------------------------------------------------------------
(* The inductive invariant.                                                 *)

\* The result exists from the moment the invocation knows it; how it waits
\* says why; a cooperative end has an asked run; before it begins and after its
\* answer an invocation is out of its context, and out of it no call is made.
Consistent ==
  \A c \in Calls :
    /\ phase[c] \notin {"finishing", "answered"} => result[c] = "none"
    /\ phase[c] = "overdue" => c \in due
    /\ phase[c] = "dismissed" => c \in dismissed
    /\ c \in observed \/ task[c] = "cooperative" => Run[c] \in asked
    /\ phase[c] \in {"idle", "answered"} => c \notin active
    /\ c \notin active => model[c] \in {"none", "stopping"}

Inv == TypeOK /\ Consistent /\ AnswersAreHonest

\* What one invocation contributes to Consistent and AnswersAreHonest.
Sound(c) ==
  /\ phase[c] \notin {"finishing", "answered"} => result[c] = "none"
  /\ phase[c] = "overdue" => c \in due
  /\ phase[c] = "dismissed" => c \in dismissed
  /\ c \in observed \/ task[c] = "cooperative" => Run[c] \in asked
  /\ phase[c] \in {"idle", "answered"} => c \notin active
  /\ c \notin active => model[c] \in {"none", "stopping"}
  /\ result[c] = "success" => task[c] = "returned"
  /\ result[c] = "failure" => task[c] \in {"returned", "failed"}
  /\ result[c] = "timeout" => c \in due
  /\ result[c] = "cancelled" => Run[c] \in asked \/ task[c] = "cancelled"
  /\ result[c] = "raised" => c \in dismissed

LEMMA InvIsSound == Inv <=> TypeOK /\ \A c \in Calls : Sound(c)
BY DEF Inv, Consistent, AnswersAreHonest, Sound

\* A step that leaves an invocation alone, and takes back nothing that passed,
\* was asked or was dismissed, keeps it sound.
LEMMA Untouched ==
  ASSUME NEW d \in Calls, Sound(d),
         phase'[d] = phase[d], result'[d] = result[d], task'[d] = task[d],
         model'[d] = model[d], d \in active' <=> d \in active,
         d \in observed' <=> d \in observed,
         due \subseteq due', asked \subseteq asked', dismissed \subseteq dismissed'
  PROVE  Sound(d)'
BY DEF Sound

\* Answering with an outcome that is honest keeps every invocation sound.
LEMMA AnswerSound ==
  ASSUME TypeOK, \A d \in Calls : Sound(d), NEW c \in Calls, NEW outcome,
         Answer(c, outcome, task[c]), UNCHANGED <<due, asked, observed>>,
         dismissed \subseteq dismissed', dismissed' \subseteq dismissed \cup {c},
         outcome = "success" => task[c] = "returned",
         outcome = "failure" => task[c] \in {"returned", "failed"},
         outcome = "timeout" => c \in due,
         outcome = "cancelled" => Run[c] \in asked \/ task[c] = "cancelled",
         outcome = "raised" => c \in dismissed'
  PROVE  \A d \in Calls : Sound(d)'
<1> SUFFICES ASSUME NEW d \in Calls PROVE Sound(d)'
  OBVIOUS
<1>1. CASE d = c
  <2>1. /\ phase'[c] = "answered" /\ result'[c] = outcome /\ c \notin active'
        /\ model'[c] = IF c \in active /\ model[c] # "none" THEN "stopping" ELSE model[c]
        /\ task'[c] \in {task[c], Stopped(task[c])}
    BY DEF TypeOK, Answer, Deactivate, ModelAfterDeactivate
  <2>2. task[c] \in Ended => task'[c] = task[c]
    BY <2>1 DEF Stopped, Ended
  <2>3. task'[c] = "cooperative" => task[c] = "cooperative"
    BY <2>1 DEF Stopped
  <2>4. model'[c] \in {"none", "stopping"}
    BY <2>1 DEF Sound
  <2> QED BY <1>1, <2>1, <2>2, <2>3, <2>4 DEF Sound, Ended
<1>2. CASE d # c
  <2>1. /\ phase'[d] = phase[d] /\ result'[d] = result[d] /\ task'[d] = task[d]
        /\ model'[d] = model[d] /\ (d \in active' <=> d \in active)
    BY <1>2 DEF TypeOK, Answer, Deactivate, ModelAfterDeactivate
  <2> QED BY <2>1, Untouched
<1> QED BY <1>1, <1>2

\* The same for a step after which the invocation goes on waiting or finishes.
LEMMA AwaitSound ==
  ASSUME TypeOK, \A d \in Calls : Sound(d), NEW c \in Calls, NEW where, NEW outcome, NEW state,
         Await(c, where, outcome, state), UNCHANGED <<due, asked, observed>>,
         dismissed \subseteq dismissed', dismissed' \subseteq dismissed \cup {c},
         where \notin {"idle", "finishing", "answered"} => outcome = "none",
         where \in {"launched", "waiting", "overdue", "dismissed", "finishing"},
         phase[c] \notin {"idle", "answered"},
         where = "overdue" => c \in due,
         where = "dismissed" => c \in dismissed',
         state = "cooperative" => task[c] = "cooperative",
         outcome \in {"none", "success", "failure", "timeout"},
         outcome = "success" => state = "returned",
         outcome = "failure" => state \in {"returned", "failed"},
         outcome = "timeout" => c \in due
  PROVE  \A d \in Calls : Sound(d)'
<1> SUFFICES ASSUME NEW d \in Calls PROVE Sound(d)'
  OBVIOUS
<1>1. CASE d = c
  <2>1. phase'[c] = where /\ result'[c] = outcome /\ task'[c] = state
        /\ UNCHANGED <<active, model>>
    BY DEF TypeOK, Await
  <2> QED BY <1>1, <2>1 DEF Sound
<1>2. CASE d # c
  <2>1. phase'[d] = phase[d] /\ result'[d] = result[d] /\ task'[d] = task[d]
        /\ UNCHANGED <<active, model>>
    BY <1>2 DEF TypeOK, Await
  <2> QED BY <2>1, Untouched
<1> QED BY <1>1, <1>2

\* The execution of one invocation moves on: its task, its model call, whether
\* it is in its context.
LEMMA ExecutionSound ==
  ASSUME TypeOK, \A d \in Calls : Sound(d), NEW c \in Calls,
         UNCHANGED <<phase, result, due, asked, dismissed>>,
         \A d \in Calls \ {c} : /\ task'[d] = task[d] /\ model'[d] = model[d]
                                /\ d \in active' <=> d \in active
                                /\ d \in observed' <=> d \in observed,
         active' \subseteq active,
         task'[c] = task[c] \/ task[c] \notin Ended,
         task'[c] = "cooperative" => c \in observed \/ task[c] = "cooperative",
         c \in observed' => c \in observed \/ Run[c] \in asked,
         c \notin active' => model'[c] \in {"none", "stopping"}
  PROVE  \A d \in Calls : Sound(d)'
<1> SUFFICES ASSUME NEW d \in Calls PROVE Sound(d)'
  OBVIOUS
<1>1. CASE d = c
  BY <1>1 DEF Sound, Ended
<1>2. CASE d # c
  BY <1>2, Untouched
<1> QED BY <1>1, <1>2

LEMMA InvStep == Inv /\ [Next]_vars => Inv'
<1> SUFFICES ASSUME TypeOK, \A d \in Calls : Sound(d), [Next]_vars
             PROVE  \A d \in Calls : Sound(d)'
  BY TypeStep, InvIsSound DEF Inv, Consistent, AnswersAreHonest, Sound
<1>1. ASSUME NEW c \in Calls, Begin(c) PROVE \A d \in Calls : Sound(d)'
  <2> SUFFICES ASSUME NEW d \in Calls PROVE Sound(d)'
    OBVIOUS
  <2>1. CASE d = c
    BY <1>1, <2>1 DEF Begin, TypeOK, Sound
  <2>2. CASE d # c
    BY <1>1, <2>2, Untouched DEF Begin, TypeOK
  <2> QED BY <2>1, <2>2
<1>2. ASSUME NEW c \in Calls, Reject(c) PROVE \A d \in Calls : Sound(d)'
  BY <1>2, AnswerSound DEF Reject
<1>3. ASSUME NEW c \in Calls, Launch(c) PROVE \A d \in Calls : Sound(d)'
  BY <1>3, AwaitSound DEF Launch
<1>4. ASSUME NEW c \in Calls, Resume(c) PROVE \A d \in Calls : Sound(d)'
  BY <1>4, AwaitSound DEF Resume
<1>5. ASSUME NEW c \in Calls, WaitTimesOut(c) PROVE \A d \in Calls : Sound(d)'
  <2>1. Stopped(task[c]) = "cooperative" => task[c] = "cooperative"
    BY DEF Stopped
  <2> QED BY <1>5, <2>1, AwaitSound DEF WaitTimesOut
<1>6. ASSUME NEW c \in Calls, WaitEnds(c) PROVE \A d \in Calls : Sound(d)'
  <2>1. CASE task[c] = "returned"
             /\ \E outcome \in {"success", "failure"} : Await(c, "finishing", outcome, task[c])
    BY <1>6, <2>1, AwaitSound DEF WaitEnds
  <2>2. CASE task[c] = "failed" /\ Await(c, "finishing", "failure", task[c])
    BY <1>6, <2>2, AwaitSound DEF WaitEnds
  <2>3. CASE task[c] \in {"cancelled", "cooperative"} /\ Answer(c, "cancelled", task[c])
    <3>1. Run[c] \in asked \/ task[c] = "cancelled"
      BY <2>3 DEF Sound
    <3> QED BY <1>6, <2>3, <3>1, AnswerSound DEF WaitEnds
  <2> QED BY <1>6, <2>1, <2>2, <2>3 DEF WaitEnds
<1>7. ASSUME NEW c \in Calls, StopEnds(c) PROVE \A d \in Calls : Sound(d)'
  <2>1. /\ phase[c] = "overdue" => c \in due
        /\ phase[c] = "dismissed" => c \in dismissed
        /\ task[c] = "cooperative" => Run[c] \in asked
    BY DEF Sound
  <2>2. CASE Await(c, "finishing", OverdueAnswer(c), task[c]) /\ phase[c] = "overdue"
    BY <1>7, <2>1, <2>2, AwaitSound DEF StopEnds, OverdueAnswer
  <2>3. CASE Answer(c, "raised", task[c]) /\ phase[c] = "dismissed"
    BY <1>7, <2>1, <2>3, AnswerSound DEF StopEnds
  <2>4. CASE task[c] = "failed" /\ Await(c, "finishing", "failure", task[c])
    BY <1>7, <2>4, AwaitSound DEF StopEnds
  <2>5. CASE task[c] = "cooperative" /\ Answer(c, "cancelled", task[c])
    BY <1>7, <2>1, <2>5, AnswerSound DEF StopEnds
  <2> QED BY <1>7, <2>2, <2>3, <2>4, <2>5 DEF StopEnds
<1>8. ASSUME NEW c \in Calls, Finish(c) PROVE \A d \in Calls : Sound(d)'
  <2>1. /\ result[c] = "success" => task[c] = "returned"
        /\ result[c] = "failure" => task[c] \in {"returned", "failed"}
        /\ result[c] = "timeout" => c \in due
        /\ result[c] = "cancelled" => Run[c] \in asked \/ task[c] = "cancelled"
        /\ result[c] = "raised" => c \in dismissed
    BY DEF Sound
  <2> QED BY <1>8, <2>1, AnswerSound DEF Finish
<1>9. ASSUME NEW c \in Calls, CallerCancels(c) PROVE \A d \in Calls : Sound(d)'
  <2>1. dismissed' = dismissed \cup {c} /\ UNCHANGED <<due, asked, observed>>
    BY <1>9 DEF CallerCancels
  <2>2. CASE Answer(c, "raised", task[c])
    BY <2>1, <2>2, AnswerSound
  <2>3. CASE phase[c] = "waiting" /\ Await(c, "dismissed", "none", Stopped(task[c]))
    <3>1. Stopped(task[c]) = "cooperative" => task[c] = "cooperative"
      BY DEF Stopped
    <3> QED BY <2>1, <2>3, <3>1, AwaitSound
  <2>4. CASE phase[c] = "overdue" /\ Await(c, "finishing", "timeout", task[c])
    <3>1. c \in due
      BY <2>4 DEF Sound
    <3> QED BY <2>1, <2>4, <3>1, AwaitSound
  <2>5. CASE UNCHANGED <<phase, result, task, active, model>>
    BY <2>1, <2>5, Untouched
  <2> QED BY <1>9, <2>2, <2>3, <2>4, <2>5 DEF CallerCancels
<1>10. ASSUME NEW c \in Calls, DeadlinePasses(c) PROVE \A d \in Calls : Sound(d)'
  BY <1>10, Untouched DEF DeadlinePasses
<1>11. ASSUME NEW r \in Runs, Ask(r) PROVE \A d \in Calls : Sound(d)'
  BY <1>11, Untouched DEF Ask
<1>12. ASSUME NEW c \in Calls, Observe(c) PROVE \A d \in Calls : Sound(d)'
  BY <1>12, ExecutionSound DEF Observe, TypeOK, Alive, Ended, Stopped, Sound
<1>13. ASSUME NEW c \in Calls, NEW kind \in {"own", "background"}, BeginModelCall(c, kind)
       PROVE  \A d \in Calls : Sound(d)'
  BY <1>13, ExecutionSound DEF BeginModelCall, TypeOK
<1>14. ASSUME NEW c \in Calls, EndModelCall(c) PROVE \A d \in Calls : Sound(d)'
  BY <1>14, ExecutionSound DEF EndModelCall, TypeOK
<1>15. ASSUME NEW c \in Calls, NEW outcome \in {"returned", "failed"}, CapabilityEnds(c, outcome)
       PROVE  \A d \in Calls : Sound(d)'
  <2>1. c \notin active' /\ model'[c] \in {"none", "stopping"}
    BY <1>15 DEF CapabilityEnds, Deactivate, ModelAfterDeactivate, TypeOK, Sound
  <2> QED BY <1>15, <2>1, ExecutionSound
          DEF CapabilityEnds, Deactivate, ModelAfterDeactivate, TypeOK, Alive, Ended
<1>16. ASSUME NEW c \in Calls, CapabilityStops(c) PROVE \A d \in Calls : Sound(d)'
  <2>1. c \notin active => model'[c] \in {"none", "stopping"}
    BY <1>16 DEF CapabilityStops, TypeOK, Sound
  <2>2. task'[c] = "cooperative" => c \in observed
    BY <1>16 DEF CapabilityStops, StopKind, TypeOK
  <2> QED BY <1>16, <2>1, <2>2, ExecutionSound
          DEF CapabilityStops, Cancellable, TypeOK, Ended
<1>17. ASSUME NEW c \in Calls, ThreadStarts(c) \/ LockTaken(c)
       PROVE  \A d \in Calls : Sound(d)'
  BY <1>17, Untouched DEF ThreadStarts, LockTaken
<1>18. ASSUME NEW c \in Calls, NEW outcome \in {"returned", "failed"}, ThreadEnds(c, outcome)
       PROVE  \A d \in Calls : Sound(d)'
  <2>1. CASE task[c] = "running"
    <3>1. c \notin active' /\ model'[c] \in {"none", "stopping"}
      BY <1>18, <2>1 DEF ThreadEnds, Deactivate, ModelAfterDeactivate, TypeOK, Sound
    <3> QED BY <1>18, <2>1, <3>1, ExecutionSound
            DEF ThreadEnds, Deactivate, ModelAfterDeactivate, TypeOK, Ended
  <2>2. CASE task[c] # "running"
    BY <1>18, <2>2, Untouched DEF ThreadEnds
  <2> QED BY <2>1, <2>2
<1>19. CASE UNCHANGED vars
  BY <1>19, Untouched DEF vars
<1> QED BY <1>1, <1>2, <1>3, <1>4, <1>5, <1>6, <1>7, <1>8, <1>9, <1>10, <1>11, <1>12, <1>13,
           <1>14, <1>15, <1>16, <1>17, <1>18, <1>19
        DEF Next, Invokes, Executes, CapabilityReturns, CapabilityFails

\* Inv holds in every reachable state.
LEMMA InvHolds == Spec => []Inv
<1>1. Init => Inv
  BY DEF Init, Inv, TypeOK, Consistent, AnswersAreHonest, Answered, Runs
<1> QED BY <1>1, InvStep, PTL DEF Spec

-----------------------------------------------------------------------------
(* Theorems.                                                                *)

\* What the caller is told is what happened to the execution, the deadline,
\* the run or the caller itself.
THEOREM AnswersHonest == Spec => []AnswersAreHonest
<1>1. Inv => AnswersAreHonest
  BY DEF Inv
<1> QED BY <1>1, InvHolds, PTL

\* The lock of a capability admits one thread, answered invocations included.
THEOREM ThreadsExclude == Spec => []OneAtATime
<1>1. Init => OneAtATime
  BY DEF Init, OneAtATime
<1>2. TypeOK /\ OneAtATime /\ [Next]_vars => OneAtATime'
  <2> SUFFICES ASSUME TypeOK, OneAtATime, [Next]_vars PROVE OneAtATime'
    OBVIOUS
  <2>1. ASSUME NEW c \in Calls, LockTaken(c) PROVE OneAtATime'
    BY <2>1 DEF OneAtATime, LockTaken, Locked, TypeOK
  <2>2. CASE \A c \in Calls : thread'[c] = "holding" => thread[c] = "holding"
    BY <2>2 DEF OneAtATime
  <2>3. ASSUME NEW c \in Calls,
               Launch(c) \/ CapabilityStops(c) \/ ThreadStarts(c)
                 \/ \E outcome \in {"returned", "failed"} : ThreadEnds(c, outcome)
        PROVE  \A d \in Calls : thread'[d] = "holding" => thread[d] = "holding"
    BY <2>3 DEF Launch, StartsIn, CapabilityStops, ThreadStarts, ThreadEnds, TypeOK
  <2>4. CASE UNCHANGED thread
    BY <2>2, <2>4
  <2>5. ASSUME NEW c \in Calls,
               Begin(c) \/ Reject(c) \/ Resume(c) \/ WaitTimesOut(c) \/ WaitEnds(c) \/ StopEnds(c)
                 \/ Finish(c) \/ CallerCancels(c) \/ DeadlinePasses(c) \/ Observe(c)
                 \/ (\E kind \in {"own", "background"} : BeginModelCall(c, kind))
                 \/ EndModelCall(c) \/ CapabilityReturns(c) \/ CapabilityFails(c)
        PROVE  UNCHANGED thread
    BY <2>5 DEF Begin, Reject, Resume, WaitTimesOut, WaitEnds, StopEnds, Finish, CallerCancels,
       DeadlinePasses, Observe, BeginModelCall, EndModelCall, CapabilityReturns, CapabilityFails,
       CapabilityEnds
  <2>6. ASSUME NEW r \in Runs, Ask(r) PROVE UNCHANGED thread
    BY <2>6 DEF Ask
  <2>7. CASE UNCHANGED vars
    BY <2>4, <2>7 DEF vars
  <2> QED BY <2>1, <2>2, <2>3, <2>4, <2>5, <2>6, <2>7 DEF Next, Invokes, Executes
<1> QED BY <1>1, <1>2, TypeCorrect, PTL DEF Spec

\* A step of one invocation leaves the phase and the result of the others alone.
LEMMA InvokesOne ==
  ASSUME TypeOK, NEW c \in Calls, Invokes(c), NEW d \in Calls, d # c
  PROVE  phase'[d] = phase[d] /\ result'[d] = result[d]
BY DEF TypeOK, Invokes, Begin, Reject, Launch, Resume, WaitTimesOut, WaitEnds, StopEnds, Finish,
   CallerCancels, Answer, Await

\* Every other step leaves them alone for all.
LEMMA PhasesMove ==
  ASSUME [Next]_vars
  PROVE  UNCHANGED <<phase, result>> \/ \E c \in Calls : Invokes(c)
<1>1. ASSUME NEW c \in Calls, Executes(c) \/ DeadlinePasses(c) PROVE UNCHANGED <<phase, result>>
  BY <1>1 DEF Executes, Observe, BeginModelCall, EndModelCall, CapabilityReturns, CapabilityFails,
     CapabilityEnds, CapabilityStops, ThreadStarts, LockTaken, ThreadEnds, DeadlinePasses
<1>2. ASSUME NEW r \in Runs, Ask(r) PROVE UNCHANGED <<phase, result>>
  BY <1>2 DEF Ask
<1>3. CASE UNCHANGED vars
  BY <1>3 DEF vars
<1> QED BY <1>1, <1>2, <1>3 DEF Next

\* An invocation that waits for its execution leaves only when that has ended,
\* and what it returns late is never a success.
THEOREM WorkIsOver == Spec => WaitedWorkIsOver
<1>1. Inv /\ [Next]_vars =>
        [\A c \in Calls :
           /\ phase[c] \in Waited /\ phase'[c] \notin Waited => task'[c] \in Ended
           /\ phase[c] \in {"overdue", "dismissed"} => result'[c] # "success"]_vars
  <2> SUFFICES ASSUME Inv, [Next]_vars, NEW c \in Calls, phase[c] \in Waited
               PROVE  /\ phase'[c] \notin Waited => task'[c] \in Ended
                      /\ phase[c] \in {"overdue", "dismissed"} => result'[c] # "success"
    BY DEF Waited
  <2>1. TypeOK /\ result[c] = "none"
    BY DEF Inv, Consistent, Waited
  <2>2. CASE phase'[c] = phase[c] /\ result'[c] = result[c]
    BY <2>1, <2>2
  <2>3. CASE Invokes(c)
    <3>1. ASSUME NEW outcome, Answer(c, outcome, task[c]), task[c] \in Ended
          PROVE  task'[c] \in Ended /\ result'[c] = outcome
      BY <2>1, <3>1 DEF Answer, TypeOK, Stopped, Ended
    <3>2. ASSUME NEW where, NEW outcome, NEW state, Await(c, where, outcome, state)
          PROVE  phase'[c] = where /\ task'[c] = state /\ result'[c] = outcome
      BY <2>1, <3>2 DEF Await, TypeOK
    <3>3. CASE WaitTimesOut(c)
      BY <3>2, <3>3 DEF WaitTimesOut, Waited
    <3>4. CASE WaitEnds(c)
      BY <3>1, <3>2, <3>4 DEF WaitEnds, Ended
    <3>5. CASE StopEnds(c)
      BY <3>1, <3>2, <3>5 DEF StopEnds, OverdueAnswer, Ended
    <3>6. CASE CallerCancels(c)
      <4>1. CASE phase[c] = "waiting" /\ Await(c, "dismissed", "none", Stopped(task[c]))
        BY <3>2, <4>1 DEF Waited
      <4>2. CASE UNCHANGED <<phase, result, task, active, model>>
        BY <2>2, <4>2
      <4>3. CASE Unwound(c) /\ Await(c, "finishing", "timeout", task[c])
        BY <3>2, <4>3 DEF Unwound
      <4>4. CASE Unwound(c) /\ Answer(c, "raised", task[c])
        BY <3>1, <4>4 DEF Unwound
      <4> QED BY <3>6, <4>1, <4>2, <4>3, <4>4 DEF CallerCancels, Waited
    <3> QED BY <2>3, <3>3, <3>4, <3>5, <3>6
            DEF Invokes, Begin, Reject, Launch, Resume, Finish, Waited
  <2> QED BY <2>1, <2>2, <2>3, InvokesOne, PhasesMove
<1> QED BY <1>1, InvHolds, PTL DEF Spec, WaitedWorkIsOver

\* Work that survives its invocation cannot use it: nothing is delegated and no
\* model called in its name, and the calls in flight were cancelled.
THEOREM ContextDies == Spec => ContextDiesWithAnswer
<1>1. Inv /\ Inv' /\ [Next]_vars =>
        [\A c \in Calls : Answered(c) =>
           /\ model'[c] \in {"none", "stopping"}
           /\ \A d \in Calls : Parent[d] = c /\ phase[d] = "idle" => phase'[d] = "idle"]_vars
  <2> SUFFICES ASSUME Inv, Inv', [Next]_vars, NEW c \in Calls, Answered(c)
               PROVE  /\ model'[c] \in {"none", "stopping"}
                      /\ \A d \in Calls : Parent[d] = c /\ phase[d] = "idle" => phase'[d] = "idle"
    OBVIOUS
  <2>1. TypeOK /\ c \notin active
    BY DEF Inv, Consistent, Answered
  <2>2. ASSUME NEW d \in Calls, Parent[d] = c, phase[d] = "idle" PROVE phase'[d] = "idle"
    <3>1. ~Invokes(d)
      BY <2>1, <2>2, InvocationAssumption
         DEF Invokes, Begin, Reject, Launch, Resume, WaitTimesOut, WaitEnds, StopEnds, Finish,
             CallerCancels
    <3> QED BY <2>1, <2>2, <3>1, InvokesOne, PhasesMove
  <2>3. phase'[c] = "answered"
    <3>1. ~Invokes(c)
      BY DEF Answered, Invokes, Begin, Reject, Launch, Resume, WaitTimesOut, WaitEnds, StopEnds,
             Finish, CallerCancels
    <3> QED BY <2>1, <3>1, InvokesOne, PhasesMove DEF Answered
  <2>4. model'[c] \in {"none", "stopping"}
    BY <2>3 DEF Inv, Consistent
  <2> QED BY <2>2, <2>4
<1> QED BY <1>1, InvHolds, PTL DEF Spec, ContextDiesWithAnswer

-----------------------------------------------------------------------------
(***************************************************************************)
(* Data sources.  The revision of a binding is never given out again, and    *)
(* what a probe found is true until a mutation overtakes it.                 *)
(***************************************************************************)
\* A source that was provisioned has a revision, and no binding is ahead of it:
\* one that is level with it was issued for the corpus that is there.
Provisioned == source.state = "provisioned" => source.revision > 0
Dated ==
  \A o \in Operators : bindings[o] # NoBinding =>
    /\ bindings[o].revision <= source.revision
    /\ bindings[o].revision = source.revision /\ source.state = "provisioned" =>
         bindings[o].corpus = corpus

\* What a verdict says of the source that is there, and where it must say the
\* truth: with a reader no mutation has overtaken, and in the cache whenever no
\* mutation has yet to invalidate it.
Describes(verdict) ==
  /\ verdict.revision = source.revision /\ verdict.indexed = source.indexed
  /\ verdict.ready <=> Queryable
JudgedTruly ==
  \A r \in Readers : readers[r].at = "judged" /\ ~readers[r].verdict.overtaken =>
                       Describes(readers[r].verdict)
Quiet == \A o \in Operators : calls[o] # "effected"
CachedTruly ==
  cache # NoVerdict /\ ~cache.verdict.overtaken /\ Quiet =>
    Describes(cache.verdict) /\ cache.verdict.ready

\* Content changed, in the same provisioning of the same configuration.
SameSource(before, after) ==
  /\ after.state = before.state /\ after.config = before.config
  /\ after.revision = before.revision
SourceInv ==
  SourceTypeOK /\ Provisioned /\ Dated /\ IndexedIsWhole /\ JudgedTruly /\ CachedTruly

-----------------------------------------------------------------------------
LEMMA EmptyIsContent == Empty \in Content
BY DEF Empty, Content

\* A source that starts afresh, or is retired.
Cleared(src, state, config, revision, outstanding) ==
  [src EXCEPT !.state = state, !.config = config, !.revision = revision,
              !.indexing = "empty", !.accepted = Empty, !.indexed = Empty,
              !.outstanding = outstanding, !.applied = {}]
LEMMA ClearedIs ==
  ASSUME NEW src \in Source, NEW state \in {"provisioned", "retired"},
         NEW config \in Configs \cup {NoConfig}, NEW revision \in 0 .. MaxRevision,
         NEW outstanding \in SUBSET Items
  PROVE  LET cleared == Cleared(src, state, config, revision, outstanding) IN
         /\ cleared \in Source
         /\ cleared.state = state /\ cleared.revision = revision /\ cleared.indexing = "empty"
<1>1. "empty" \in IndexingStates /\ {} \in SUBSET Batches
      /\ state \in {"absent", "provisioned", "retired"}
  BY DEF IndexingStates
<1> QED
  BY <1>1, EmptyIsContent DEF Source, Cleared

\* Who was judged is overtaken.
LEMMA OvertakeKeeps ==
  ASSUME SourceTypeOK, Overtake
  PROVE  /\ readers' \in [Readers -> ReaderState]
         /\ \A r \in Readers : readers'[r].at = "judged" => readers'[r].verdict.overtaken
<1> SUFFICES ASSUME NEW r \in Readers
             PROVE  /\ readers'[r] \in ReaderState
                    /\ readers'[r].at = "judged" => readers'[r].verdict.overtaken
  BY DEF Overtake
<1> DEFINE before == readers[r]
           overtaken == before.verdict.overtaken \/ before.at = "judged"
<1>1. before \in ReaderState /\ before.verdict \in Verdict
  BY DEF SourceTypeOK, ReaderState
<1>2. readers'[r] = [before EXCEPT !.verdict.overtaken = overtaken]
  BY DEF Overtake
<1>3. overtaken \in BOOLEAN /\ (before.at = "judged" => overtaken = TRUE)
  OBVIOUS
<1> HIDE DEF before, overtaken
<1>4. readers'[r] = [before EXCEPT !.verdict = [before.verdict EXCEPT !.overtaken = overtaken]]
  BY <1>2
<1>5. [before.verdict EXCEPT !.overtaken = overtaken] \in Verdict
      /\ [before.verdict EXCEPT !.overtaken = overtaken].overtaken = overtaken
  BY <1>1, <1>3 DEF Verdict
<1> HIDE DEF before
<1>6. readers'[r] \in ReaderState /\ readers'[r].at = before.at
      /\ readers'[r].verdict.overtaken = overtaken
  BY <1>1, <1>4, <1>5 DEF ReaderState
<1> QED
  BY <1>3, <1>6

\* Applying a batch either changes nothing or leaves an item that is accepted
\* and not indexed.
LEMMA AppliedIs ==
  ASSUME source \in Source, NEW batch \in Batches, NEW seen, NEW refused,
         seen \subseteq DOMAIN batch, refused \subseteq DOMAIN batch
  PROVE  /\ Applied(batch, seen, refused) \in Source
         /\ SameSource(source, Applied(batch, seen, refused))
         /\ Applied(batch, seen, refused).indexing = source.indexing
         /\ Applied(batch, seen, refused).outstanding = (source.outstanding \ seen) \cup refused
         /\ \/ \E i \in Items : /\ Applied(batch, seen, refused).accepted[i] # NoBody
                                /\ Applied(batch, seen, refused).indexed[i] = NoBody
            \/ /\ Applied(batch, seen, refused).accepted = source.accepted
               /\ Applied(batch, seen, refused).indexed = source.indexed
<1> DEFINE fresh == {i \in seen \ refused : source.accepted[i] # batch[i]}
           accepted == [i \in Items |-> IF i \in fresh THEN batch[i] ELSE source.accepted[i]]
           indexed == [i \in Items |-> IF i \in fresh THEN NoBody ELSE source.indexed[i]]
           outstanding == (source.outstanding \ seen) \cup refused
<1>1. source.accepted \in Content /\ source.indexed \in Content /\ source.outstanding \subseteq Items
  BY DEF Source
<1>2. Applied(batch, seen, refused) =
        [source EXCEPT !.accepted = accepted, !.indexed = indexed, !.outstanding = outstanding]
  BY DEF Applied
<1>3. \A i \in DOMAIN batch : i \in Items /\ batch[i] \in Bodies /\ batch[i] # NoBody
  BY SourcesAssumption
<1>4. accepted \in Content /\ indexed \in Content
  BY <1>1, <1>3 DEF Content
<1>5. outstanding \in SUBSET Items
  BY <1>1, <1>3
<1>6. \A i \in fresh : i \in Items /\ accepted[i] # NoBody /\ indexed[i] = NoBody
  BY <1>3
<1>7. fresh = {} => accepted = source.accepted /\ indexed = source.indexed
  BY <1>1 DEF Content
<1> HIDE DEF accepted, indexed, outstanding, fresh
<1>8. /\ Applied(batch, seen, refused) \in Source
      /\ SameSource(source, Applied(batch, seen, refused))
      /\ Applied(batch, seen, refused).indexing = source.indexing
      /\ Applied(batch, seen, refused).outstanding = outstanding
      /\ Applied(batch, seen, refused).accepted = accepted
      /\ Applied(batch, seen, refused).indexed = indexed
  BY <1>2, <1>4, <1>5 DEF Source, SameSource
<1> QED
  BY <1>6, <1>7, <1>8 DEF outstanding

\* Settling may only keep a source INDEXED when nothing was refused or is unindexed.
LEMMA SettledIs ==
  ASSUME NEW src \in Source, NEW batch \in Batches, NEW refused
  PROVE  /\ Settled(batch, refused, src) \in Source
         /\ SameSource(src, Settled(batch, refused, src))
         /\ Settled(batch, refused, src).accepted = src.accepted
         /\ Settled(batch, refused, src).indexed = src.indexed
         /\ Settled(batch, refused, src).outstanding = src.outstanding
         /\ Settled(batch, refused, src).indexing = "indexed" =>
              refused = {} /\ src.indexing = "indexed" /\ Held(src.indexed) = Held(src.accepted)
<1> DEFINE indexing == IF refused = DOMAIN batch THEN "failed"
                       ELSE IF refused # {} THEN "partial"
                       ELSE IF Held(src.indexed) # Held(src.accepted) THEN "indexing"
                       ELSE src.indexing
           applied == IF refused = {} THEN src.applied \cup {batch} ELSE src.applied
<1>1. Settled(batch, refused, src) = [src EXCEPT !.indexing = indexing, !.applied = applied]
  BY DEF Settled
<1>2. indexing \in IndexingStates /\ applied \in SUBSET Batches
  BY DEF Source, IndexingStates
<1>3. indexing = "indexed" =>
        refused = {} /\ src.indexing = "indexed" /\ Held(src.indexed) = Held(src.accepted)
  OBVIOUS
<1> HIDE DEF indexing, applied
<1>4. /\ Settled(batch, refused, src) \in Source
      /\ Settled(batch, refused, src).indexing = indexing
      /\ SameSource(src, Settled(batch, refused, src))
      /\ Settled(batch, refused, src).accepted = src.accepted
      /\ Settled(batch, refused, src).indexed = src.indexed
      /\ Settled(batch, refused, src).outstanding = src.outstanding
  BY <1>1, <1>2 DEF Source, SameSource
<1> QED
  BY <1>3, <1>4

\* Content changes, in a source that is live, and stays what it is.
LEMMA EffectKeeps ==
  ASSUME SourceInv, NEW o \in Operators, Effected(o), Overtake,
         UNCHANGED <<corpus, cache, now, bindings>>, torn' \in BOOLEAN,
         source' \in Source, SameSource(source, source'), IndexedIsWhole'
  PROVE  SourceInv'
<1> USE DEF SourceInv
<1>1. calls' \in [Operators -> {"idle", "effected"}] /\ calls'[o] = "effected"
  BY DEF SourceTypeOK, Effected
<1>2. /\ readers' \in [Readers -> ReaderState]
      /\ \A r \in Readers : readers'[r].at = "judged" => readers'[r].verdict.overtaken
  BY OvertakeKeeps
<1>3. SourceTypeOK'
  BY <1>1, <1>2 DEF SourceTypeOK
<1>4. Provisioned' /\ Dated'
  BY DEF Provisioned, Dated, SameSource
<1>5. JudgedTruly' /\ CachedTruly'
  BY <1>1, <1>2 DEF JudgedTruly, CachedTruly, Quiet
<1> QED
  BY <1>3, <1>4, <1>5

\* A new provisioning takes the next revision, which no binding names yet.
LEMMA ProvisionKeeps ==
  ASSUME SourceInv, NEW o \in Operators, NEW config \in Configs, Provision(o, config)
  PROVE  SourceInv'
<1> USE DEF SourceInv
<1>1. calls' \in [Operators -> {"idle", "effected"}] /\ calls'[o] = "effected"
  BY DEF SourceTypeOK, Effected, Provision
<1>2. CachedTruly'
  BY <1>1 DEF CachedTruly, Quiet
<1>3. bindings' = [bindings EXCEPT ![o] = bindings'[o]]
      /\ bindings'[o] = [config |-> config, revision |-> source'.revision, corpus |-> corpus']
  BY DEF Provision, SourceTypeOK
<1>4. source \in Source /\ corpus \in Nat
  BY DEF SourceTypeOK
<1>5. CASE source.state = "provisioned" /\ source.config = config
  <2>1. UNCHANGED <<source, corpus, torn, readers, cache, now>>
    <3>1. UNCHANGED <<sourceVars, readers>> /\ UNCHANGED <<cache, now>>
      BY <1>5 DEF Provision
    <3> QED
      BY <3>1 DEF sourceVars
  <2>2. bindings'[o] \in Binding
    BY <1>3, <1>5, <1>4, <2>1, SourcesAssumption DEF Binding, Source, Provisioned
  <2>3. SourceTypeOK'
    BY <1>1, <1>3, <2>1, <2>2 DEF SourceTypeOK
  <2>4. Provisioned' /\ IndexedIsWhole' /\ JudgedTruly'
    BY <2>1 DEF Provisioned, IndexedIsWhole, JudgedTruly, Describes, Queryable, Held
  <2>5. Dated'
    <3> SUFFICES ASSUME NEW p \in Operators, bindings'[p] # NoBinding
                 PROVE  /\ bindings'[p].revision <= source.revision
                        /\ bindings'[p].revision = source.revision /\ source.state = "provisioned" =>
                             bindings'[p].corpus = corpus
      BY <2>1 DEF Dated
    <3>1. CASE p = o
      BY <1>3, <1>4, <2>1, <3>1 DEF Source
    <3>2. CASE p # o
      <4>1. bindings'[p] = bindings[p]
        BY <1>3, <3>2 DEF SourceTypeOK
      <4> QED
        BY <4>1 DEF Dated
    <3> QED
      BY <3>1, <3>2
  <2> QED
    BY <1>2, <2>3, <2>4, <2>5
<1>6. CASE ~(source.state = "provisioned" /\ source.config = config)
  <2>1. /\ source.revision < MaxRevision
        /\ source' = [source EXCEPT !.state = "provisioned", !.config = config,
                          !.revision = NextRevision, !.indexing = "empty", !.accepted = Empty,
                          !.indexed = Empty, !.outstanding = {}, !.applied = {}]
        /\ corpus' = corpus + 1 /\ torn' = FALSE /\ Overtake /\ UNCHANGED <<cache, now>>
    BY <1>6 DEF Provision
  <2>2. /\ source'.revision = source.revision + 1 /\ source'.indexing = "empty"
        /\ source.revision \in Nat /\ source'.revision \in 1 .. MaxRevision
    BY <1>4, <2>1, SourcesAssumption DEF Source, NextRevision
  <2>3. /\ readers' \in [Readers -> ReaderState]
        /\ \A r \in Readers : readers'[r].at = "judged" => readers'[r].verdict.overtaken
    BY <2>1, OvertakeKeeps
  <2>4. source' \in Source
    <3>1. source' = Cleared(source, "provisioned", config, NextRevision, {})
      BY <2>1 DEF Cleared
    <3>2. NextRevision \in 0 .. MaxRevision
      BY <2>1, <1>4, SourcesAssumption DEF Source, NextRevision
    <3> QED
      BY <1>4, <3>1, <3>2, ClearedIs
  <2>5. bindings'[o] \in Binding
    BY <1>3, <1>4, <2>1, <2>2 DEF Binding
  <2>6. SourceTypeOK'
    <3>1. corpus' \in Nat
      BY <1>4, <2>1
    <3>2. torn' \in BOOLEAN
      BY <2>1
    <3>3. bindings' \in [Operators -> Binding \cup {NoBinding}]
      BY <1>3, <2>5 DEF SourceTypeOK
    <3> QED
      BY <1>1, <2>1, <2>3, <2>4, <3>1, <3>2, <3>3 DEF SourceTypeOK
  <2>7. Provisioned' /\ IndexedIsWhole' /\ JudgedTruly'
    BY <2>2, <2>3 DEF Provisioned, IndexedIsWhole, JudgedTruly
  <2>8. \A p \in Operators : p # o /\ bindings[p] # NoBinding => bindings[p].revision \in Nat
    BY DEF SourceTypeOK, Binding
  <2>9. Dated'
    BY <1>3, <2>2, <2>8 DEF Dated, SourceTypeOK
  <2> QED
    BY <1>2, <2>6, <2>7, <2>9
<1> QED
  BY <1>5, <1>6

LEMMA IngestKeeps ==
  ASSUME SourceInv, NEW o \in Operators, NEW batch \in Batches,
         NEW refused \in SUBSET DOMAIN batch, Ingest(o, batch, refused)
  PROVE  SourceInv'
<1>0. Overtake /\ Effected(o) /\ UNCHANGED <<corpus, torn, cache, now, bindings>>
  BY DEF Ingest
<1>1. source \in Source /\ torn \in BOOLEAN /\ IndexedIsWhole
  BY DEF SourceInv, SourceTypeOK
<1>2. CASE batch \in source.applied
  <2>1. source' = source
    BY <1>2 DEF Ingest
  <2> QED
    BY <1>0, <1>1, <2>1, EffectKeeps DEF IndexedIsWhole, SameSource
<1>3. CASE batch \notin source.applied
  <2> DEFINE applied == Applied(batch, DOMAIN batch, refused)
  <2>1. source' = Settled(batch, refused, applied)
    BY <1>3 DEF Ingest
  <2>2. /\ applied \in Source /\ SameSource(source, applied)
        /\ applied.indexing = source.indexing
        /\ applied.outstanding = (source.outstanding \ DOMAIN batch) \cup refused
        /\ \/ \E i \in Items : applied.accepted[i] # NoBody /\ applied.indexed[i] = NoBody
           \/ applied.accepted = source.accepted /\ applied.indexed = source.indexed
    BY <1>1, AppliedIs
  <2> HIDE DEF applied
  <2>3. /\ source' \in Source /\ SameSource(applied, source')
        /\ source'.accepted = applied.accepted /\ source'.indexed = applied.indexed
        /\ source'.outstanding = applied.outstanding
        /\ source'.indexing = "indexed" =>
             /\ refused = {} /\ applied.indexing = "indexed"
             /\ Held(applied.indexed) = Held(applied.accepted)
    BY <2>1, <2>2, SettledIs
  <2>4. SameSource(source, source')
    BY <2>2, <2>3 DEF SameSource
  <2>5. IndexedIsWhole'
    <3> SUFFICES ASSUME source'.indexing = "indexed", ~torn
                 PROVE  source'.indexed = source'.accepted /\ source'.outstanding = {}
      BY <1>0 DEF IndexedIsWhole
    <3>1. source.indexed = source.accepted /\ source.outstanding = {}
      BY <1>1, <2>2, <2>3 DEF IndexedIsWhole
    <3>2. applied.accepted = source.accepted /\ applied.indexed = source.indexed
      BY <2>2, <2>3 DEF Held
    <3> QED
      BY <2>2, <2>3, <3>1, <3>2
  <2> QED
    BY <1>0, <1>1, <2>3, <2>4, <2>5, EffectKeeps
<1> QED
  BY <1>2, <1>3

LEMMA IngestCutKeeps ==
  ASSUME SourceInv, NEW o \in Operators, NEW batch \in Batches,
         NEW refused \in SUBSET DOMAIN batch, NEW item \in DOMAIN batch,
         IngestCut(o, batch, refused, item)
  PROVE  SourceInv'
<1> DEFINE seen == {i \in DOMAIN batch : i < item}
           kept == refused \cap seen
<1>1. /\ Overtake /\ Effected(o) /\ UNCHANGED <<corpus, cache, now, bindings>>
      /\ source' = Applied(batch, seen, kept) /\ torn' = (torn \/ source' # source)
  BY DEF IngestCut
<1>2. seen \subseteq DOMAIN batch /\ kept \subseteq DOMAIN batch
  OBVIOUS
<1> HIDE DEF seen, kept
<1>3. source \in Source /\ IndexedIsWhole
  BY DEF SourceInv, SourceTypeOK
<1>4. source' \in Source /\ SameSource(source, source')
  BY <1>1, <1>2, <1>3, AppliedIs
<1>5. torn' \in BOOLEAN
  BY <1>1
<1>6. IndexedIsWhole'
  <2> SUFFICES ASSUME ~torn'
               PROVE  source' = source /\ ~torn
    BY <1>3 DEF IndexedIsWhole
  <2> QED
    BY <1>1
<1> QED
  BY <1>1, <1>4, <1>5, <1>6, EffectKeeps

LEMMA IndexKeeps ==
  ASSUME SourceInv, NEW o \in Operators, NEW fails \in BOOLEAN, Index(o, fails)
  PROVE  SourceInv'
<1>0. Overtake /\ Effected(o) /\ UNCHANGED <<corpus, cache, now, bindings>>
  BY DEF Index
<1>1. source \in Source /\ torn \in BOOLEAN /\ IndexedIsWhole
  BY DEF SourceInv, SourceTypeOK
<1>2. CASE ~fails /\ Resolved /\ Held(source.accepted) # {}
  <2>1. source' = [source EXCEPT !.indexed = source.accepted, !.indexing = "indexed"]
        /\ torn' = FALSE /\ source.outstanding = {}
    BY <1>2 DEF Index, Resolved
  <2>2. /\ source' \in Source /\ SameSource(source, source')
        /\ source'.indexed = source'.accepted /\ source'.outstanding = {}
    BY <1>1, <2>1 DEF Source, SameSource, IndexingStates
  <2> QED
    BY <1>0, <2>1, <2>2, EffectKeeps DEF IndexedIsWhole
<1>3. CASE ~(~fails /\ Resolved /\ Held(source.accepted) # {})
  <2> DEFINE indexing == IF fails THEN "failed" ELSE IF ~Resolved THEN "partial" ELSE "empty"
  <2>1. source' = [source EXCEPT !.indexing = indexing] /\ torn' = torn
    BY <1>3 DEF Index
  <2>2. indexing \in IndexingStates \ {"indexed"}
    BY DEF IndexingStates
  <2> HIDE DEF indexing
  <2>3. /\ source' \in Source /\ SameSource(source, source')
        /\ source'.indexing # "indexed"
    BY <1>1, <2>1, <2>2 DEF Source, SameSource
  <2> QED
    BY <1>0, <1>1, <2>1, <2>3, EffectKeeps DEF IndexedIsWhole
<1> QED
  BY <1>2, <1>3

LEMMA RetireKeeps ==
  ASSUME SourceInv, NEW o \in Operators, Retire(o)
  PROVE  SourceInv'
<1> USE DEF SourceInv
<1>1. calls' \in [Operators -> {"idle", "effected"}] /\ calls'[o] = "effected"
  BY DEF SourceTypeOK, Effected, Retire
<1>2. /\ readers' \in [Readers -> ReaderState]
      /\ \A r \in Readers : readers'[r].at = "judged" => readers'[r].verdict.overtaken
  BY OvertakeKeeps DEF Retire
<1>3. source \in Source
  BY DEF SourceTypeOK
<1>4. source' = [source EXCEPT !.state = "retired", !.indexing = "empty",
                               !.accepted = Empty, !.indexed = Empty, !.applied = {}]
  BY DEF Retire
<1>5. /\ source' \in Source /\ source'.state = "retired"
      /\ source'.revision = source.revision /\ source'.indexing = "empty"
  <2>1. source' = Cleared(source, "retired", source.config, source.revision, source.outstanding)
    BY <1>3, <1>4 DEF Source, Cleared
  <2>2. /\ source.config \in Configs \cup {NoConfig} /\ source.revision \in 0 .. MaxRevision
        /\ source.outstanding \in SUBSET Items
    BY <1>3 DEF Source
  <2> QED
    BY <1>3, <2>1, <2>2, ClearedIs
<1>6. /\ corpus' \in Nat /\ torn' \in BOOLEAN /\ UNCHANGED <<cache, now, bindings>>
  <2>1. corpus' = corpus + 1 /\ torn' = FALSE /\ UNCHANGED <<cache, now, bindings>>
    BY DEF Retire
  <2>2. corpus' \in Nat
    BY <2>1 DEF SourceTypeOK
  <2> QED
    BY <2>1, <2>2
<1>7. SourceTypeOK'
  BY <1>1, <1>2, <1>5, <1>6 DEF SourceTypeOK
<1>8. Provisioned' /\ Dated' /\ IndexedIsWhole'
  BY <1>5, <1>6 DEF Provisioned, Dated, IndexedIsWhole
<1> QED
  BY <1>1, <1>2, <1>7, <1>8 DEF JudgedTruly, CachedTruly, Quiet

\* A call raises, or returns and invalidates.
LEMMA CallEndsKeep ==
  ASSUME SourceInv, NEW o \in Operators, Raises(o) \/ Return(o)
  PROVE  SourceInv'
<1> USE DEF SourceInv
<1>1. /\ UNCHANGED <<source, corpus, torn, now, bindings, readers>>
      /\ calls' \in [Operators -> {"idle", "effected"}]
      /\ cache' = NoVerdict \/ (cache' = cache /\ calls'[o] = "effected")
  BY DEF Raises, Return, Effected, Invalidated, SourceTypeOK, sourceVars
<1>2. SourceTypeOK'
  BY <1>1 DEF SourceTypeOK
<1>3. Provisioned' /\ Dated' /\ IndexedIsWhole' /\ JudgedTruly'
  BY <1>1 DEF Provisioned, Dated, IndexedIsWhole, JudgedTruly, Describes, Queryable, Held
<1>4. CachedTruly'
  BY <1>1 DEF CachedTruly, Quiet
<1> QED
  BY <1>2, <1>3, <1>4

\* What readers do, and the clock: a probe describes what is there, and only
\* its verdict enters the cache.
LEMMA ReadersKeep ==
  ASSUME SourceInv, UNCHANGED <<source, corpus, torn, calls, bindings>>, now' \in 0 .. MaxTime,
         readers' \in [Readers -> ReaderState],
         \A r \in Readers : readers'[r] # readers[r] /\ readers'[r].at = "judged" =>
                              Describes(readers'[r].verdict),
         \/ cache' \in {cache, NoVerdict}
         \/ \E r \in Readers : 
              /\ readers[r].at = "judged" /\ readers[r].verdict.ready
              /\ \E expires \in Nat : cache' = [verdict |-> readers[r].verdict, expires |-> expires]
  PROVE  SourceInv'
<1> USE DEF SourceInv
<1>1. \A r \in Readers : readers[r].verdict \in Verdict
  BY DEF SourceTypeOK, ReaderState
<1>2. cache' = NoVerdict \/ cache' \in [verdict : Verdict, expires : Nat]
  BY <1>1 DEF SourceTypeOK
<1>3. SourceTypeOK'
  BY <1>2 DEF SourceTypeOK
<1>4. Provisioned' /\ Dated' /\ IndexedIsWhole'
  BY DEF Provisioned, Dated, IndexedIsWhole
<1>5. Queryable' <=> Queryable
  BY DEF Queryable, Held
<1>6. JudgedTruly'
  BY <1>5 DEF JudgedTruly, Describes
<1>7. CachedTruly'
  <2> SUFFICES ASSUME cache' # NoVerdict, ~cache'.verdict.overtaken, Quiet'
               PROVE  (Describes(cache.verdict) /\ cache.verdict.ready)'
    BY DEF CachedTruly
  <2>1. CASE cache' \in {cache, NoVerdict}
    BY <1>5, <2>1 DEF CachedTruly, Quiet, Describes
  <2>2. CASE cache' \notin {cache, NoVerdict}
    <3>1. PICK r \in Readers : /\ readers[r].at = "judged" /\ readers[r].verdict.ready
                               /\ cache'.verdict = readers[r].verdict
      BY <2>2
    <3>2. Describes(readers[r].verdict)
      BY <3>1 DEF JudgedTruly
    <3> QED
      BY <1>5, <3>1, <3>2 DEF Describes
  <2> QED
    BY <2>1, <2>2
<1> QED
  BY <1>3, <1>4, <1>6, <1>7

\* What each reader's step does to it.
LEMMA ReaderStepKeeps ==
  ASSUME SourceInv, NEW r \in Readers, NEW moment \in {"on_start", "on_invoke"},
         Verify(r, moment) \/ Probe(r) \/ ProbeFails(r) \/ Conclude(r) \/ Retrieve(r)
  PROVE  SourceInv'
<1>1. /\ now \in 0 .. MaxTime /\ now + TTL \in Nat
      /\ readers \in [Readers -> ReaderState] /\ source \in Source
  BY SourcesAssumption DEF SourceInv, SourceTypeOK
<1>2. Empty \in Content /\ NotJudged \in Verdict
  BY EmptyIsContent, SourcesAssumption DEF NotJudged, Verdict
<1>3. ASSUME NEW where \in {"idle", "probing", "verified"}, Goes(r, where)
      PROVE  /\ readers' \in [Readers -> ReaderState]
             /\ \A q \in Readers : readers'[q] # readers[q] => readers'[q].at # "judged"
  <2>1. Reader(where) \in ReaderState /\ Reader(where).at = where
    BY <1>2 DEF Reader, ReaderState
  <2>2. readers' = [readers EXCEPT ![r] = Reader(where)]
    BY <1>3 DEF Goes
  <2> QED
    BY <1>1, <2>1, <2>2
<1>4. CASE Verify(r, moment)
  <2>1. /\ UNCHANGED <<source, corpus, torn, calls, bindings, now>>
        /\ \E where \in {"probing", "verified"} : Goes(r, where)
        /\ cache' \in {cache, NoVerdict}
    BY <1>4 DEF Verify, sourceVars
  <2> QED
    BY <1>1, <1>3, <2>1, ReadersKeep
<1>5. CASE ProbeFails(r)
  <2>1. /\ UNCHANGED <<source, corpus, torn, calls, bindings, now>>
        /\ Goes(r, "idle") /\ cache' = NoVerdict
    BY <1>5 DEF ProbeFails, sourceVars
  <2> QED
    BY <1>1, <1>3, <2>1, ReadersKeep
<1>6. CASE Retrieve(r)
  <2>1. /\ UNCHANGED <<source, corpus, torn, calls, bindings, now>>
        /\ Goes(r, "idle") /\ cache' = cache
    BY <1>6 DEF Retrieve, sourceVars
  <2> QED
    BY <1>1, <1>3, <2>1, ReadersKeep
<1>7. CASE Conclude(r)
  <2>1. /\ UNCHANGED <<source, corpus, torn, calls, bindings, now>>
        /\ readers[r].at = "judged" /\ \E where \in {"idle", "verified"} : Goes(r, where)
        /\ \/ cache' \in {cache, NoVerdict}
           \/ /\ readers[r].verdict.ready
              /\ cache' = [verdict |-> readers[r].verdict, expires |-> now + TTL]
    BY <1>7 DEF Conclude, sourceVars
  <2>2. \/ cache' \in {cache, NoVerdict}
        \/ \E q \in Readers :
             /\ readers[q].at = "judged" /\ readers[q].verdict.ready
             /\ \E expires \in Nat : cache' = [verdict |-> readers[q].verdict, expires |-> expires]
    BY <1>1, <2>1
  <2> QED
    BY <1>1, <1>3, <2>1, <2>2, ReadersKeep
<1>8. CASE Probe(r)
  <2> DEFINE verdict == [ready |-> Queryable, revision |-> source.revision,
                         indexed |-> source.indexed, overtaken |-> FALSE]
  <2>1. /\ UNCHANGED <<source, corpus, torn, calls, bindings, now>> /\ cache' = cache
        /\ readers' = [readers EXCEPT ![r].at = "judged", ![r].verdict = verdict]
    BY <1>8 DEF Probe, sourceVars
  <2>2. Queryable \in BOOLEAN
    BY DEF Queryable
  <2>3. verdict \in Verdict
    BY <1>1, <2>2 DEF Source, Verdict
  <2>4. Describes(verdict)
    BY DEF Describes
  <2> HIDE DEF verdict
  <2>5. /\ readers' \in [Readers -> ReaderState]
        /\ readers'[r].verdict = verdict
        /\ \A q \in Readers : q # r => readers'[q] = readers[q]
    BY <1>1, <2>1, <2>3 DEF ReaderState
  <2> QED
    BY <1>1, <2>1, <2>4, <2>5, ReadersKeep
<1> QED
  BY <1>4, <1>5, <1>6, <1>7, <1>8

LEMMA SourceInvInit == SourceInit => SourceInv
<1> SUFFICES ASSUME SourceInit
             PROVE  SourceInv
  OBVIOUS
<1>1. Empty \in Content /\ NotJudged \in Verdict
  BY EmptyIsContent, SourcesAssumption DEF NotJudged, Verdict
<1>2. source \in Source
  BY <1>1, SourcesAssumption DEF SourceInit, Source, IndexingStates
<1>3. Reader("idle") \in ReaderState /\ Reader("idle").at = "idle"
  BY <1>1 DEF Reader, ReaderState
<1>4. readers \in [Readers -> ReaderState] /\ \A r \in Readers : readers[r].at = "idle"
  BY <1>3 DEF SourceInit
<1>5. /\ corpus = 0 /\ torn = FALSE /\ cache = NoVerdict /\ now = 0
      /\ calls = [o \in Operators |-> "idle"] /\ bindings = [o \in Operators |-> NoBinding]
      /\ source.state = "absent" /\ source.indexing = "empty"
  BY DEF SourceInit
<1>6. SourceTypeOK
  <2>1. torn \in BOOLEAN
    BY <1>5
  <2>2. corpus \in Nat /\ now \in 0 .. MaxTime
    BY <1>5, SourcesAssumption
  <2> QED
    BY <1>2, <1>4, <1>5, <2>1, <2>2 DEF SourceTypeOK
<1>7. Provisioned /\ Dated /\ IndexedIsWhole /\ JudgedTruly /\ CachedTruly
  BY <1>4, <1>5 DEF Provisioned, Dated, IndexedIsWhole, JudgedTruly, CachedTruly
<1> QED
  BY <1>6, <1>7 DEF SourceInv

LEMMA SourceInvStep == SourceInv /\ [SourceNext]_resourceVars => SourceInv'
<1> SUFFICES ASSUME SourceInv, [SourceNext]_resourceVars
             PROVE  SourceInv'
  OBVIOUS
<1>1. CASE UNCHANGED resourceVars
  BY <1>1 DEF resourceVars, sourceVars, SourceInv, SourceTypeOK, Provisioned, Dated,
     IndexedIsWhole, JudgedTruly, CachedTruly, Describes, Queryable, Held, Quiet
<1>2. CASE \E o \in Operators :
             \/ \E config \in Configs : Provision(o, config)
             \/ \E batch \in Batches : \E refused \in SUBSET DOMAIN batch :
                  \/ Ingest(o, batch, refused)
                  \/ \E item \in DOMAIN batch : IngestCut(o, batch, refused, item)
             \/ \E fails \in BOOLEAN : Index(o, fails)
             \/ Retire(o) \/ Raises(o) \/ Return(o)
  BY <1>2, ProvisionKeeps, IngestKeeps, IngestCutKeeps, IndexKeeps, RetireKeeps, CallEndsKeep
<1>3. CASE \E r \in Readers :
             \/ \E moment \in {"on_start", "on_invoke"} : Verify(r, moment)
             \/ Probe(r) \/ ProbeFails(r) \/ Conclude(r) \/ Retrieve(r)
  BY <1>3, ReaderStepKeeps
<1>4. CASE Tick
  <2>1. /\ UNCHANGED <<source, corpus, torn, cache, calls, bindings, readers>>
        /\ now' \in 0 .. MaxTime
    BY <1>4, SourcesAssumption DEF Tick, sourceVars, SourceInv, SourceTypeOK
  <2>2. readers \in [Readers -> ReaderState]
    BY DEF SourceInv, SourceTypeOK
  <2> QED
    BY <2>1, <2>2, ReadersKeep
<1> QED
  BY <1>1, <1>2, <1>3, <1>4 DEF SourceNext

LEMMA SourceInvariant == SourceSpec => []SourceInv
<1> QED
  BY SourceInvInit, SourceInvStep, PTL DEF SourceSpec

-----------------------------------------------------------------------------
(***************************************************************************)
(* The types of a source, its calls, its readers and the cached verdict.    *)
(***************************************************************************)
THEOREM SourceTypeCorrect == SourceSpec => []SourceTypeOK
<1>1. SourceInv => SourceTypeOK
  BY DEF SourceInv
<1> QED
  BY <1>1, SourceInvariant, PTL

(***************************************************************************)
(* Whatever content is refused, cut off or indexed in whichever order, a     *)
(* source that reports INDEXED serves all it accepted (unless a budget cut   *)
(* a batch in the middle), and a binding never becomes valid again for a     *)
(* corpus it was not issued for (resources/adapters/in_memory.py).          *)
(***************************************************************************)
THEOREM CorpusWholeAndOne == SourceSpec => []CorpusIsWholeAndOne
<1>1. SourceInv => CorpusIsWholeAndOne
  <2> SUFFICES ASSUME SourceInv, NEW o \in Operators, Live(bindings[o])
               PROVE  bindings[o].corpus = corpus
    BY DEF SourceInv, CorpusIsWholeAndOne, BindingsNameOneCorpus
  <2> QED
    BY DEF SourceInv, Dated, Live
<1> QED
  BY <1>1, SourceInvariant, PTL

(***************************************************************************)
(* However probes, mutations and their invalidations overlap, once every     *)
(* mutation was followed by its invalidation a cached verdict describes the  *)
(* corpus that is there, unless a mutation overtook the probe it comes from  *)
(* (resources/readiness.py, resources/lifecycle.py).                        *)
(***************************************************************************)
THEOREM VerdictsAreTrue == SourceSpec => []VerdictsDescribeTheCorpus
<1>1. SourceInv => VerdictsDescribeTheCorpus
  BY DEF SourceInv, CachedTruly, Quiet, Describes, VerdictsDescribeTheCorpus
<1> QED
  BY <1>1, SourceInvariant, PTL
=============================================================================
