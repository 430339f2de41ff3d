--------------------------- MODULE RequestBoundary ---------------------------
(***************************************************************************)
(* The HTTP boundary around the A2A protocol application (a2a/hardening.py, *)
(* a2a/guard.py): what a request may claim about itself and who its caller  *)
(* is, admission without a queue, and serving: the bounded pump of the      *)
(* request's body, the bounded buffer of the response, the deadline and the *)
(* bounded wait for a cancelled application.                                *)
(*                                                                         *)
(* The ASGI server (receive, send, cancellation) and the application are    *)
(* outside.  Bytes and chunks are counted in the same units.  A2AHost has   *)
(* what the application does with tasks.                                    *)
(***************************************************************************)
EXTENDS Naturals, FiniteSets

CONSTANTS BoundaryRequests,
          Addresses,    \* of peers, and what proxies call the clients they speak for
          MtlsSubjects, \* verified peer subjects, strings that are no address
          Deployed,     \* configurations a behaviour may start with
          Arriving,     \* ASGI scopes a request may come with
          Accepted,     \* max_accepted_concurrency
          PerCaller,    \* max_caller_concurrency
          MaxBody,      \* max_request_body_bytes, max_request_body_chunks
          MaxResponse   \* max_response_body_bytes

NoHeader == "absent"
ForwardedNames == {"for", "host", "proto", "port"}
\* x-conducto-mtls-subject and x-conducto-client-address
Reserved == {"mtls-subject", "client-address"}

\* A2AHostSecurityConfig, normalized: forwarded headers are trusted only of proxies.
Configs ==
  {c \in [proxies : SUBSET Addresses, trusts : SUBSET {"for", "host", "proto"}, rejects : BOOLEAN] :
     c.trusts # {} => c.proxies # {}}

\* What a scope says: the server gives peer, scheme and the verified subject,
\* all headers are the client's or its proxy's.  faults are the checks on form
\* and size that it fails.
Checks == {"method", "headers", "path", "content", "authorization", "correlation", "trace_size",
           "identity"}
AllScopes ==
  [peer : Addresses, scheme : {"https", "other"}, host : {"ours", "other", NoHeader},
   forwarded : {f \in [ForwardedNames -> Addresses \cup {"https", "ours", "other", NoHeader}] :
                  f["for"] \in Addresses \cup {NoHeader}},
   reserved : SUBSET Reserved, trace : {NoHeader, "valid", "malformed"},
   subject : MtlsSubjects \cup {NoHeader}, path : {"rpc", "liveness", "readiness"},
   faults : SUBSET Checks]

ASSUME BoundaryAssumption ==
  /\ Deployed \subseteq Configs /\ Arriving \subseteq AllScopes
  /\ {Accepted, PerCaller, MaxBody, MaxResponse} \subseteq Nat \ {0}

VARIABLES
  config,  \* A2AHostSecurityConfig of the host
  ready,   \* whether its lifecycle is ready
  serving, \* of each request: where its guard is and what the server handed it
  pumped,  \* _RequestChannel of each request
  app,     \* the execution of each request, and what it wrote
  reply,   \* what was sent to its client
  held,    \* A2AConcurrencyLimiter._held
  perKey   \* A2AConcurrencyLimiter._per_key

boundaryVars == <<config, ready, serving, pumped, app, reply, held, perKey>>

(***************************************************************************)
(* evaluate_request and sanitize_scope.                                    *)
(***************************************************************************)
Present(s) == {n \in ForwardedNames : s.forwarded[n] # NoHeader}
ViaProxy(s) == s.peer \in config.proxies

\* Bug: what an untrusted peer forwarded is believed when it is not rejected.
BelievesAnyone(s, n) == n \in config.trusts /\ s.forwarded[n] # NoHeader

\* A forwarded value counts when a trusted proxy says it and it is configured.
Believed(s, n) == ViaProxy(s) /\ n \in config.trusts /\ s.forwarded[n] # NoHeader

\* _resolve_forwarded_headers: rejected, or else which ones are dropped.
UntrustedForwarding(s) == Present(s) # {} /\ ~ViaProxy(s) /\ config.rejects
ForwardedDropped(s) == IF ViaProxy(s) THEN Present(s) \ config.trusts ELSE Present(s)

\* _validate_trace: a malformed traceparent is dropped, not rejected.
TraceDropped(s) == IF s.trace = "malformed" THEN {"trace"} ELSE {}

Scheme(s) == IF Believed(s, "proto") THEN s.forwarded["proto"] ELSE s.scheme
Authority(s) == IF Believed(s, "host") THEN s.forwarded["host"] ELSE s.host
Client(s) == IF Believed(s, "for") THEN s.forwarded["for"] ELSE s.peer

RejectedScope(s) ==
  \/ s.faults # {} \/ UntrustedForwarding(s)
  \/ Scheme(s) # "https" \/ Authority(s) # "ours"

\* caller_key: the verified subject, else the effective client.
CallerKey(s) == IF s.subject # NoHeader THEN s.subject ELSE Client(s)
Keys == Addresses \cup MtlsSubjects

\* sanitize_scope: what the application sees beside the server's own headers.
Arrived(s) == Present(s) \cup s.reserved \cup (IF s.trace # NoHeader THEN {"trace"} ELSE {})
Dropped(s) == ForwardedDropped(s) \cup TraceDropped(s) \cup Reserved
Sanitized(s) == [client |-> Client(s), subject |-> s.subject, host |-> Authority(s),
                 headers |-> Arrived(s) \ Dropped(s)]

(***************************************************************************)
(* Admission.                                                              *)
(***************************************************************************)
NotServed == [phase |-> "new", scope |-> NoHeader, sees |-> NoHeader, why |-> "none"]
InService == {"serving", "cancelling", "sending"}

TryAcquire(key) == held < Accepted /\ perKey[key] < PerCaller

\* Bug: the slot of the whole host is returned, the caller's is not.
ReleasesHostOnly(key) == held' = held - 1 /\ UNCHANGED perKey

\* A2AConcurrencyLimiter.release
Release(key) == held' = held - 1 /\ perKey' = [perKey EXCEPT ![key] = @ - 1]

\* What the guard sends at once, and holds no slot for.
AnswersAtOnce(r, kind) ==
  /\ serving' = [serving EXCEPT ![r].phase = "over"]
  /\ reply' = [reply EXCEPT ![r] = [kind |-> kind, times |-> 1]]
  /\ UNCHANGED <<pumped, app, held, perKey>>

Admits(r, s) ==
  /\ serving' = [serving EXCEPT ![r] = [phase |-> "serving", scope |-> s, sees |-> Sanitized(s),
                                        why |-> "none"]]
  /\ held' = held + 1 /\ perKey' = [perKey EXCEPT ![CallerKey(s)] = @ + 1]
  /\ pumped' = [pumped EXCEPT ![r].state = "reading"]
  /\ app' = [app EXCEPT ![r].state = "running"]
  /\ UNCHANGED reply

\* A2ARequestGuard.__call__: valid, a probe, ready, a slot, in this order.
ArriveRequest(r, s) ==
  /\ serving[r].phase = "new"
  /\ \/ RejectedScope(s) /\ AnswersAtOnce(r, "rejected")
     \/ /\ ~RejectedScope(s)
        /\ \/ s.path # "rpc" /\ AnswersAtOnce(r, "probe")
           \/ s.path = "rpc" /\ ~ready /\ AnswersAtOnce(r, "rejected")
           \/ s.path = "rpc" /\ ready /\ ~TryAcquire(CallerKey(s)) /\ AnswersAtOnce(r, "rejected")
           \/ s.path = "rpc" /\ ready /\ TryAcquire(CallerKey(s)) /\ Admits(r, s)
  /\ UNCHANGED <<config, ready>>

Leave(r, why) ==
  /\ serving' = [serving EXCEPT ![r] = [NotServed EXCEPT !.phase = "over", !.why = why]]
  /\ Release(CallerKey(serving[r].scope))

(***************************************************************************)
(* The pump and the application.                                           *)
(***************************************************************************)
\* The pump stops mattering once _serve's wait is over.
Stopped(r) == pumped' = [pumped EXCEPT ![r] = [state |-> "closed", read |-> 0]]
Pumping(r) == serving[r].phase = "serving" /\ pumped[r].state = "reading"

\* _RequestChannel._run: a chunk over the bound is not queued and stops the pump.
Chunk(r, size) ==
  /\ Pumping(r)
  /\ pumped' = [pumped EXCEPT ![r] =
       IF @.read + size > MaxBody THEN [state |-> "exceeded", read |-> 0]
       ELSE [state |-> "reading", read |-> @.read + size]]
  /\ UNCHANGED <<config, ready, serving, app, reply, held, perKey>>

Disconnects(r) ==
  /\ Pumping(r)
  /\ pumped' = [pumped EXCEPT ![r] = [state |-> "disconnected", read |-> 0]]
  /\ UNCHANGED <<config, ready, serving, app, reply, held, perKey>>

Running(r) == app[r].state = "running" /\ serving[r].phase \in InService
AppFails(r) == app' = [app EXCEPT ![r] = [state |-> "failed", wrote |-> 0]]

\* _ResponseBuffer.send: past the bound the buffer is cleared and the send
\* raises, which ends the application.  An application that outlives its
\* request is left to run; A2AHost has what becomes of it.
Writes(r) ==
  /\ Running(r)
  /\ IF app[r].wrote = MaxResponse THEN AppFails(r)
     ELSE app' = [app EXCEPT ![r].wrote = @ + 1]
  /\ UNCHANGED <<config, ready, serving, pumped, reply, held, perKey>>

\* It returns after its response, or it raises or is cancelled, by its guard or
\* by the host's shutdown.
AppEnds(r) ==
  /\ Running(r)
  /\ \/ app[r].wrote > 0 /\ app' = [app EXCEPT ![r].state = "finished"]
     \/ AppFails(r)
  /\ UNCHANGED <<config, ready, serving, pumped, reply, held, perKey>>

(***************************************************************************)
(* _serve.                                                                 *)
(***************************************************************************)
Sends(r, kind) ==
  /\ serving' = [serving EXCEPT ![r].phase = "sending"]
  /\ reply' = [reply EXCEPT ![r] = [kind |-> kind, times |-> @.times + 1]]

\* Bug: whatever was buffered is flushed.
FlushesAnyway(r) == IF app[r].state # "none" THEN "whole" ELSE "rejected"

\* _complete: the buffered response only of an application that returned.
Outcome(r) == IF app[r].state = "finished" THEN "whole" ELSE "rejected"

Completes(r) ==
  /\ serving[r].phase = "serving" /\ app[r].state # "running"
  /\ Sends(r, Outcome(r)) /\ Stopped(r)
  /\ UNCHANGED <<config, ready, app, held, perKey>>

\* The wait ends with something else than the application: its body is too
\* large or it is out of time, or its client is gone.  It is cancelled.
WaitEnds(r) ==
  /\ serving[r].phase = "serving" /\ app[r].state = "running"
  /\ serving' = [serving EXCEPT ![r].phase = "cancelling",
                                ![r].why = IF pumped[r].state = "disconnected"
                                           THEN "disconnected" ELSE "bound"]
  /\ Stopped(r)
  /\ UNCHANGED <<config, ready, app, reply, held, perKey>>

\* Bug: the wait for the cancelled application has no bound.
OnceItEnded(r) == app[r].state # "running"

\* cancellation_deadline_seconds: the wait ends with the application or before.
Unheld(r) == TRUE

CancellationEnds(r) ==
  /\ serving[r].phase = "cancelling" /\ Unheld(r)
  /\ IF serving[r].why \in {"disconnected", "server"}
       THEN Leave(r, serving[r].why) /\ UNCHANGED reply
       ELSE Sends(r, "rejected") /\ UNCHANGED <<held, perKey>>
  /\ UNCHANGED <<config, ready, pumped, app>>

\* The server took the response.
Sent(r) ==
  /\ serving[r].phase = "sending"
  /\ Leave(r, serving[r].why)
  /\ UNCHANGED <<config, ready, pumped, app, reply>>

\* The server cancels the request: in _serve's wait its execution is cancelled
\* too, anywhere else only the cleanup is left.
ServerCancels(r) ==
  /\ \/ /\ serving[r].phase = "serving"
        /\ serving' = [serving EXCEPT ![r].phase = "cancelling", ![r].why = "server"]
        /\ Stopped(r) /\ UNCHANGED <<held, perKey, reply>>
     \/ /\ serving[r].phase \in {"cancelling", "sending"}
        /\ reply' = [reply EXCEPT ![r].kind = IF serving[r].phase = "sending" THEN "cut" ELSE @]
        /\ Leave(r, "server") /\ UNCHANGED pumped
  /\ UNCHANGED <<config, ready, app>>

\* The host drains.
Drains == /\ ready /\ ready' = FALSE
          /\ UNCHANGED <<config, serving, pumped, app, reply, held, perKey>>

BoundaryInit ==
  /\ config \in Deployed /\ ready = TRUE
  /\ serving = [r \in BoundaryRequests |-> NotServed]
  /\ pumped = [r \in BoundaryRequests |-> [state |-> "none", read |-> 0]]
  /\ app = [r \in BoundaryRequests |-> [state |-> "none", wrote |-> 0]]
  /\ reply = [r \in BoundaryRequests |-> [kind |-> "none", times |-> 0]]
  /\ held = 0 /\ perKey = [k \in Keys |-> 0]

BoundaryStep(r) ==
  \/ \E s \in Arriving : ArriveRequest(r, s)
  \/ \E size \in {1, 2} : Chunk(r, size)
  \/ Disconnects(r) \/ Writes(r) \/ AppEnds(r)
  \/ Completes(r) \/ WaitEnds(r) \/ CancellationEnds(r) \/ Sent(r) \/ ServerCancels(r)

BoundaryNext == Drains \/ \E r \in BoundaryRequests : BoundaryStep(r)

\* Timers fire and the guard resumes; clients, servers and applications may not.
BoundaryFairness ==
  \A r \in BoundaryRequests : /\ WF_boundaryVars(Completes(r) \/ WaitEnds(r))
                              /\ WF_boundaryVars(CancellationEnds(r))

BoundarySpec == BoundaryInit /\ [][BoundaryNext]_boundaryVars /\ BoundaryFairness

(***************************************************************************)
(* Properties.                                                             *)
(***************************************************************************)
\* "A direct client can therefore never assert" who it is (docs/a2a-server.md):
\* client, host and subject the application sees, and the caller the request
\* counts against, come from the server or from a trusted proxy that is
\* configured to say so; no forged or untrusted header is left beside them.
IdentityIsNotTheClients ==
  \A r \in BoundaryRequests : serving[r].phase \in InService =>
    LET s == serving[r].scope  sees == serving[r].sees IN
    /\ sees.subject = s.subject /\ sees.headers \cap Reserved = {}
    /\ s.trace = "malformed" => "trace" \notin sees.headers
    /\ s.peer \notin config.proxies =>
         sees.client = s.peer /\ sees.host = s.host /\ sees.headers \cap ForwardedNames = {}
    /\ sees.headers \cap ForwardedNames \subseteq config.trusts
    /\ sees.client # s.peer => sees.client = s.forwarded["for"] /\ "for" \in sees.headers

Serving(k) == {r \in BoundaryRequests :
                 serving[r].phase \in InService /\ CallerKey(serving[r].scope) = k}

\* Slots are counted exactly through every exit of a request, so a caller gets
\* its share and no more, and nobody's slot is lost.
SharesAreExact ==
  /\ \A k \in Keys : perKey[k] = Cardinality(Serving(k)) /\ perKey[k] <= PerCaller
  /\ held = Cardinality({r \in BoundaryRequests : serving[r].phase \in InService}) /\ held <= Accepted

\* A client that neither left nor was cut off is answered exactly once; what
\* it gets is the application's response only if the application returned it
\* whole, never what a cancelled or oversized one had written.
AnsweredOnceAndWhole ==
  \A r \in BoundaryRequests :
    /\ reply[r].times <= 1
    /\ serving[r].phase = "over" /\ serving[r].why \notin {"disconnected", "server"}
         => reply[r].times = 1
    /\ reply[r].kind = "whole" => app[r].state = "finished" /\ app[r].wrote \in 1 .. MaxResponse

\* A request leaves the deadline's care: it answers or is over, also when its
\* application ignores the cancellation.
ServingEnds ==
  \A r \in BoundaryRequests : serving[r].phase \in {"serving", "cancelling"}
    ~> serving[r].phase \in {"sending", "over"}
=============================================================================
