---------------------------- MODULE Registration ----------------------------
(***************************************************************************)
(* Remote registration (registration/): clients that retry one immutable    *)
(* request, the ASGI adapter that bounds each attempt, the service that      *)
(* surrounds the catalog's managed operations with evidence, and its expiry  *)
(* sweep, over ManagedCatalog.                                              *)
(*                                                                         *)
(* An attempt goes on in the service after its client has given it up, so    *)
(* the attempts of one request overlap.  Between two awaits the service runs *)
(* undisturbed: a step here is what happens from one await to the next.     *)
(***************************************************************************)
EXTENDS ManagedCatalog, Sequences

CONSTANTS Clients, Requests,   \* the commands a client may send
          MaxAttempts,         \* max_attempts of each client
          MaxAge,              \* max_request_age
          Services,            \* services that share the catalog and sweep it
          NoRequest

\* What a client sends, with its issued_at.
RequestRecord == [cmd : Requests, issued : Nat]

ASSUME RegistrationAssumption ==
  /\ MaxAttempts \in [Clients -> 1 .. 3] /\ MaxAge \in Nat
  /\ Requests \subseteq Commands /\ NoRequest \notin RequestRecord

VARIABLES
  request,    \* what each client sends
  attempt,    \* how often it has sent it
  told,       \* the result send() returned
  handling,   \* RegistrationService.handle of each attempt
  events,     \* history: acknowledged evidence of each request
  executed,   \* history: how often the catalog executed the request
  queue,      \* _pending_expiry of each service
  sweeping,   \* whether expire() of a service awaits the sink
  expiries    \* history: identities whose expiry the sink acknowledged

clientState == <<request, attempt, told>>
sweepState == <<queue, sweeping, expiries>>
registrationVars == <<vars, clientState, handling, events, executed, sweepState>>

Attempts == {h \in Clients \X (1 .. 3) : h[2] <= MaxAttempts[h[1]]}
\* The service says "catalog_unavailable" of a catalog that cannot be read
\* (service.py:235); this one is in memory and raises no such error.
Retryable == {"service_unavailable", "card_unavailable", "catalog_unavailable",
              "audit_unavailable", "capacity_exceeded"}
NoAnswer == [code |-> "none", generation |-> 0, state |-> "absent", lease |-> 0]
Failure(code) == [NoAnswer EXCEPT !.code = code]

RegistrationInit ==
  /\ Init
  /\ request = [c \in Clients |-> NoRequest]
  /\ attempt = [c \in Clients |-> 0] /\ told = [c \in Clients |-> NoAnswer]
  /\ handling = [h \in Attempts |-> [stage |-> "none", answer |-> NoAnswer]]
  /\ events = [c \in Clients |-> {}] /\ executed = [c \in Clients |-> 0]
  /\ queue = [s \in Services |-> <<>>] /\ sweeping = [s \in Services |-> FALSE]
  /\ expiries = {}

Handles(h, stage, answer) == handling' = [handling EXCEPT ![h] = [stage |-> stage, answer |-> answer]]
Current(c) == <<c, attempt[c]>>
\* An answer nobody waits for is dropped with its connection.
Over == [stage |-> "over", answer |-> NoAnswer]
Answers(h, answer) ==
  IF h = Current(h[1]) /\ told[h[1]] = NoAnswer THEN Handles(h, "answered", answer)
  ELSE handling' = [handling EXCEPT ![h] = Over]

-----------------------------------------------------------------------------
(* RegistrationClient.send.                                                 *)

Handed(h) == IF handling[h].stage = "answered" THEN Over ELSE handling[h]
Sends(c) ==
  /\ attempt' = [attempt EXCEPT ![c] = @ + 1]
  /\ handling' = [h \in Attempts |->
       IF h = <<c, attempt[c] + 1>> THEN [stage |-> "received", answer |-> NoAnswer]
       ELSE IF h = Current(c) THEN Handed(h) ELSE handling[h]]

\* A key names one immutable request: no two clients share one.
Start(c, cmd) ==
  /\ request[c] = NoRequest
  /\ \A d \in Clients : request[d] # NoRequest => request[d].cmd.key # cmd.key
  /\ request' = [request EXCEPT ![c] = [cmd |-> cmd, issued |-> now]]
  /\ Sends(c)
  /\ UNCHANGED <<vars, told, events, executed, sweepState>>

\* _valid_success: what the client accepts as the success of its request.
ValidSuccess(c, answer) ==
  LET cmd == request[c].cmd IN
  /\ answer.generation > 0 /\ answer.state # "absent"
  /\ answer.state = "active" => answer.lease > request[c].issued
  /\ cmd.op \in {"register", "renew"} =>
       answer.state = "active" /\ answer.generation > cmd.expected
  /\ cmd.op = "drain" => answer.state = "draining" /\ answer.generation >= cmd.expected
  /\ cmd.op \in TerminalOps =>
       answer.state = TerminalState(cmd.op) /\ answer.generation > cmd.expected

Waiting(c) == attempt[c] > 0 /\ told[c] = NoAnswer
Returns(c, answer) ==
  /\ told' = [told EXCEPT ![c] = answer]
  /\ handling' = [handling EXCEPT ![Current(c)] = Handed(Current(c))]
  /\ UNCHANGED attempt

\* A response: invalid successes and refusals end the loop.
Receive(c) ==
  LET answer == handling[Current(c)].answer IN
  /\ Waiting(c) /\ handling[Current(c)].stage = "answered"
  /\ IF answer.code \in Retryable /\ attempt[c] < MaxAttempts[c]
     THEN Sends(c) /\ UNCHANGED told
     ELSE Returns(c, IF answer.code = "ok" /\ ~ValidSuccess(c, answer)
                     THEN Failure("service_unavailable") ELSE answer)
  /\ UNCHANGED <<vars, request, events, executed, sweepState>>

\* The attempt's timeout, or a transport error: the request or the response is lost.
GiveUp(c) ==
  /\ Waiting(c)
  /\ IF attempt[c] < MaxAttempts[c] THEN Sends(c) /\ UNCHANGED told
     ELSE Returns(c, Failure("service_unavailable"))
  /\ UNCHANGED <<vars, request, events, executed, sweepState>>

-----------------------------------------------------------------------------
(* RegistrationService.handle.                                              *)

Fresh(c) == now - request[c].issued <= MaxAge

\* Until the intent is emitted: authentication, version, freshness and grants.
Admit(h) ==
  /\ handling[h].stage = "received"
  /\ IF ~Fresh(h[1]) THEN Handles(h, "completing", Failure("replay_rejected"))
     ELSE \/ Handles(h, "requesting", NoAnswer)
          \/ Handles(h, "completing", Failure("unauthorized"))
  /\ UNCHANGED <<vars, clientState, events, executed, sweepState>>

\* manage_instance or lookup_managed_request, and the answer made of it.
Manages(h) ==
  LET c == request[h[1]].cmd
      code == ManageCode(c)
      result == IF Applies(c) THEN ResultOf(ledger'[c.id]) ELSE receipts[ReceiptKey(c)].result
  IN
  /\ \/ ManageLapse(c) \/ ManageRegister(c) \/ ManageRenew(c) \/ ManageDrain(c)
     \/ ManageRead(c) \/ ManageTerminate(c)
     \/ ~(Observes(c) /\ Lapsed(c.id)) /\ ~Applies(c) /\ UNCHANGED vars
  /\ executed' = [executed EXCEPT ![h[1]] = IF Applies(c) THEN @ + 1 ELSE @]
  /\ Handles(h, "completing",
       IF code = "ok" THEN [code |-> code, generation |-> result.generation,
                            state |-> result.state, lease |-> result.lease]
       ELSE Failure(code))

\* The request may have expired during the awaits, or the token, which must
\* also outlive the lease.
FreshlyManages(h) ==
  \/ Fresh(h[1]) /\ Manages(h)
  \/ /\ Handles(h, "completing", Failure("replay_rejected"))
     /\ UNCHANGED <<vars, executed>>

\* Mutant: the intent need not be acknowledged.
Unrecorded(c, event) == events' = events
Acknowledged(c, event) == events' = [events EXCEPT ![c] = @ \cup {event}]

\* The intent is acknowledged: a known key is answered, a card is fetched, or
\* the catalog is asked at once.
Proceed(h) ==
  LET c == request[h[1]].cmd IN
  /\ handling[h].stage = "requesting"
  /\ Acknowledged(h[1], "requested")
  /\ IF HasReceipt(c) THEN Manages(h)
     ELSE IF c.op = "register" THEN Handles(h, "retrieving", NoAnswer) /\ UNCHANGED <<vars, executed>>
     ELSE FreshlyManages(h)
  /\ UNCHANGED <<clientState, sweepState>>

\* The card arrived and is the granted one, or it did not.
Retrieved(h) ==
  /\ handling[h].stage = "retrieving"
  /\ \/ FreshlyManages(h)
     \/ /\ Handles(h, "completing", Failure("card_unavailable"))
        /\ UNCHANGED <<vars, executed>>
  /\ UNCHANGED <<clientState, events, sweepState>>

\* Mutant: the answer of the catalog stands although its evidence failed.
KeptAnswer(h) == handling[h].answer
WithoutEvidence(h) == Failure("audit_unavailable")

Complete(h) ==
  /\ handling[h].stage = "completing"
  /\ Answers(h, handling[h].answer)
  /\ Acknowledged(h[1], "completed")
  /\ UNCHANGED <<vars, clientState, executed, sweepState>>

\* AuditDeliveryError: a required event was not acknowledged.
EvidenceFails(h) ==
  /\ handling[h].stage \in {"requesting", "completing"}
  /\ Answers(h, IF handling[h].stage = "completing" THEN WithoutEvidence(h)
                ELSE Failure("audit_unavailable"))
  /\ UNCHANGED <<vars, clientState, events, executed, sweepState>>

\* RegistrationASGI: the timeout cancels the handler in one of its awaits, and
\* answers.
TimesOut(h) ==
  /\ handling[h].stage \in {"received", "requesting", "retrieving", "completing"}
  /\ Answers(h, Failure("service_unavailable"))
  /\ UNCHANGED <<vars, clientState, events, executed, sweepState>>

-----------------------------------------------------------------------------
(* RegistrationService.expire, under its lock.                              *)

Orders(ids) == {s \in [1 .. Cardinality(ids) -> ids] : \A i, j \in DOMAIN s : s[i] = s[j] => i = j}

Sweep(s) ==
  /\ ~sweeping[s]
  /\ IF LapsedIds \cup pending # {} THEN ExpireManagedInstances ELSE UNCHANGED vars
  /\ \E batch \in Orders(Evidence(LapsedIds)) :
       /\ queue' = [queue EXCEPT ![s] = @ \o batch]
       /\ queue'[s] # <<>>
  /\ sweeping' = [sweeping EXCEPT ![s] = TRUE]
  /\ UNCHANGED <<clientState, handling, events, executed, expiries>>

\* The head of the queue is acknowledged and leaves it.
ExpiryDelivered(s) ==
  /\ sweeping[s]
  /\ expiries' = expiries \cup {Head(queue[s])}
  /\ queue' = [queue EXCEPT ![s] = Tail(@)]
  /\ sweeping' = [sweeping EXCEPT ![s] = queue'[s] # <<>>]
  /\ UNCHANGED <<vars, clientState, handling, events, executed>>

\* Mutant: what was popped for delivery is not put back.
Popped(s) == Tail(queue[s])
Kept(s) == queue[s]

\* The sink refuses, or expire() is cancelled.
SweepFails(s) ==
  /\ sweeping[s]
  /\ sweeping' = [sweeping EXCEPT ![s] = FALSE]
  /\ queue' = [queue EXCEPT ![s] = Kept(s)]
  /\ UNCHANGED <<vars, clientState, handling, events, executed, expiries>>

-----------------------------------------------------------------------------
\* Trusted code removes an agent; time passes.
Elsewhere ==
  /\ Tick \/ \E a \in Agents : Remove(a)
  /\ UNCHANGED <<clientState, handling, events, executed, sweepState>>

RegistrationNext ==
  \/ \E c \in Clients : (\E cmd \in Requests : Start(c, cmd)) \/ Receive(c) \/ GiveUp(c)
  \/ \E h \in Attempts : Admit(h) \/ Proceed(h) \/ Retrieved(h) \/ Complete(h)
                         \/ EvidenceFails(h) \/ TimesOut(h)
  \/ \E s \in Services : Sweep(s) \/ ExpiryDelivered(s) \/ SweepFails(s)
  \/ Elsewhere

\* The host calls expire() again and again, and the sink recovers.
SweepFairness == \A s \in Services : /\ WF_registrationVars(Sweep(s))
                                     /\ SF_registrationVars(ExpiryDelivered(s))
RegistrationSpec == RegistrationInit /\ [][RegistrationNext]_registrationVars /\ SweepFairness

-----------------------------------------------------------------------------
(* Properties.                                                              *)

\* Overlapping and repeated attempts of a request, in whatever order they pass
\* the card retrieval, make the catalog execute it at most once, and never
\* before the intent of an attempt was acknowledged.
ExecutedOnceAfterIntent ==
  \A c \in Clients : executed[c] <= 1 /\ (executed[c] = 1 => "requested" \in events[c])

\* A client told "ok" was executed, and the outcome acknowledged as evidence:
\* an audit failure after the mutation is not reported as success.
OkIsExecutedAndRecorded ==
  \A c \in Clients : told[c].code = "ok" =>
    executed[c] = 1 /\ {"requested", "completed"} \subseteq events[c]

\* What this service answers passes the client's own test of a success, so no
\* effective mutation is turned into "unavailable" by the client.
SuccessesAreAccepted ==
  \A h \in Attempts : handling[h].stage = "answered" /\ handling[h].answer.code = "ok" =>
    ValidSuccess(h[1], handling[h].answer)

\* Success is told exactly: never without effect and evidence, and no effect of
\* this service is told as a failure by the client.
SuccessIsTold == OkIsExecutedAndRecorded /\ SuccessesAreAccepted

\* An expiry is acknowledged as evidence in the end, though the sink fails and sweeps
\* are cancelled, if the host keeps sweeping and the sink recovers.
ExpiriesAreReported ==
  \A id \in Identities : ledger[id].state = "expired" ~> id \in expiries
=============================================================================
