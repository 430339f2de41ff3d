--------------------------- MODULE ModelCompletion ---------------------------
(***************************************************************************)
(* One provider adapter (providers/openai_compatible.py, ollama.py) that   *)
(* several runs call at once through complete_with_retries                 *)
(* (core/provider/execution.py).  A run holds a conversation: a turn may   *)
(* end in one native tool call, whose assistant message the adapter keeps  *)
(* in an LRU cache until the next turn sends its result.                   *)
(*                                                                         *)
(* complete() suspends nowhere between its closed check and the HTTP       *)
(* request (the cache's lock is held across no await, so it never makes    *)
(* anyone wait), and nowhere between the response and its answer: building *)
(* and sending a request is one step, and so is reading its response.      *)
(* Other runs, deadlines, cancellations and shutdown come in between.      *)
(***************************************************************************)
EXTENDS Naturals, Sequences, FiniteSets, SequencesExt

CONSTANTS Runs,      \* concurrent runs that share the adapter
          Closers,   \* tasks that call aclose()
          Bodies,    \* what a tool call can ask: a tool and its arguments
          ServerNames, \* what servers call their responses and tool calls
          NoName,    \* a response without a name
          Attempts,  \* GenerationOptions.retries + 1
          Limit,     \* ToolCallCache._limit
          MaxTurns,  \* model calls of one conversation
          Deployments, \* an owned or a borrowed client, and the runs that use it
          Deadlined, \* the runs under a deadline
          Statuses,  \* HTTP statuses of failures, 0 for none
          Hints      \* texts ErrorPolicy.map looks for in a failure

ASSUME CompletionAssumption ==
  /\ Attempts \in Nat \ {0} /\ Limit \in Nat \ {0}
  /\ MaxTurns \in Nat /\ Deadlined \subseteq Runs
  /\ Deployments \subseteq [owned : BOOLEAN, users : SUBSET Runs]

VARIABLES
  adapter,   \* which adapter this is: "openai" or "ollama"
  deployment, \* whether its client was made by it or lent, and who uses it
  phase,     \* of a run's model call: idle, ready (to try), waiting, done
  turn,      \* model calls of the run so far
  attempt,   \* tries of this call that have failed
  deadline,  \* the effective deadline of the run: none, ahead or passed
  cancelled, \* the run's caller has cancelled it
  answer,    \* what complete_with_retries returned or raised
  results,   \* ToolResultMessages of the run: the calls it was asked to make
  carried,   \* assistant messages of the request the run waits for
  sent,      \* ghost: a request of this call was put on the wire
  responded, \* ghost: the server has answered one of them with a result
  cache,     \* ToolCallCache._calls, least recently used first
  since,     \* ghost: the other calls used since a call was last used
  pool,      \* the HTTP client: open, closing (close task), closed, failed
  closed,    \* AsyncClientLifecycle._closed
  queue,     \* AsyncClientLifecycle._lock: its holder, then who waits for it
  closer     \* what a closer does: idle, queued, awaiting, closed, ...

callVars  == <<phase, turn, attempt, deadline, cancelled, answer, results,
               carried, sent, responded>>
cacheVars == <<cache, since>>
closeVars == <<pool, closed, queue, closer>>
completionVars == <<adapter, deployment, callVars, cacheVars, closeVars>>

(***************************************************************************)
(* Errors (core/provider/errors.py).                                       *)
(***************************************************************************)
Err(class, retryable, accepted, attempted) ==
  [class |-> class, retryable |-> retryable /\ ~accepted,
   accepted |-> accepted, attempted |-> attempted]

Unavailable(attempted) == Err("unavailable", TRUE, FALSE, attempted)
Timeout(attempted)     == Err("timeout", TRUE, FALSE, attempted)
Malformed(accepted)    == Err("malformed", FALSE, accepted, TRUE)
Oversized              == Err("oversized", FALSE, TRUE, TRUE)
Unsupported            == Err("unsupported", FALSE, FALSE, FALSE)
Cancellation           == Err("cancelled", FALSE, FALSE, FALSE)
Authentication         == Err("authentication", FALSE, FALSE, TRUE)
RateLimit              == Err("rate_limit", TRUE, FALSE, TRUE)
ModelNotFound          == Err("not_found", TRUE, FALSE, TRUE)

\* ErrorPolicy.map: what a failed request is taken for.  Only the
\* OpenAI-compatible adapter reads a rate limit out of the text.
Mapped(status, hints) ==
  IF status \in {401, 403} \/ "unauthorized" \in hints THEN Authentication
  ELSE IF status = 404 \/ "not found" \in hints THEN ModelNotFound
  ELSE IF status = 408 \/ "timeout" \in hints THEN Timeout(TRUE)
  ELSE IF status = 429 \/ (adapter = "openai" /\ "rate limit" \in hints) THEN RateLimit
  ELSE Unavailable(TRUE)

Failures == {Mapped(s, h) : s \in Statuses, h \in {{}} \cup {{x} : x \in Hints}}

(***************************************************************************)
(* The tool call cache (_tool_cache.py).                                   *)
(***************************************************************************)
Cached(calls, id)   == \E i \in DOMAIN calls : calls[i].id = id
Position(calls, id) == CHOOSE i \in DOMAIN calls : calls[i].id = id
Entry(calls, id)    == calls[Position(calls, id)]
Without(calls, id)  == IF Cached(calls, id) THEN RemoveAt(calls, Position(calls, id)) ELSE calls

\* lookup: a hit becomes the most recently used call.
Refreshed(calls, id) == Append(Without(calls, id), Entry(calls, id))

\* remember: the call becomes the most recently used and the oldest are dropped.
Remembered(calls, call) ==
  LET all == Append(Without(calls, call.id), call)
  IN  SubSeq(all, IF Len(all) > Limit THEN Len(all) - Limit + 1 ELSE 1, Len(all))

\* The ghost that goes with either.
Used(gone, id) ==
  [i \in DOMAIN gone \cup {id} |-> IF i = id THEN {} ELSE gone[i] \cup {id}]

\* _to_openai_messages, _to_ollama_messages: the result of every prior call is
\* sent behind its assistant message, found by call ID; an unknown one ends it.
Untranslated == [ok |-> TRUE, cache |-> cache, since |-> since, sent |-> <<>>]
LookedUp(request, call) ==
  IF request.ok /\ Cached(request.cache, call.id)
    THEN [ok |-> TRUE, cache |-> Refreshed(request.cache, call.id),
          since |-> Used(request.since, call.id),
          sent |-> Append(request.sent, Entry(request.cache, call.id).body)]
    ELSE [request EXCEPT !.ok = FALSE]
Translated(calls) ==
  LET first[n \in 0 .. Len(calls)] ==
        IF n = 0 THEN Untranslated ELSE LookedUp(first[n - 1], calls[n])
  IN  first[Len(calls)]

\* Bug: the call itself left out of its ID.
Nameless(request, body) == <<"made", request>>

\* synthesize_call_id: the ID of a call whose server gave none, a hash of the
\* call and of what the server calls its response.
Synthesized(request, body) == <<"made", request, body>>

\* The IDs servers give are taken as they are: nothing keeps two servers, runs
\* or turns from using one for two calls.
Given == {<<"server", name>> : name \in ServerNames}
CallIds(body) == Given \cup {Synthesized(request, body) : request \in ServerNames \cup {NoName}}

(***************************************************************************)
(* complete_with_retries.                                                  *)
(***************************************************************************)
NoAnswer == Err("none", FALSE, FALSE, FALSE)
Result(class) == Err(class, FALSE, TRUE, TRUE)

\* attempt and the request are local to the call: over with it, or with the try.
Ends(r, a) == /\ phase' = [phase EXCEPT ![r] = "done"]
              /\ answer' = [answer EXCEPT ![r] = a]
              /\ attempt' = [attempt EXCEPT ![r] = 0]
              /\ carried' = [carried EXCEPT ![r] = <<>>]

\* A ProviderError that leaves provider.complete() says it was attempted.
Marked(err) == [err EXCEPT !.attempted = TRUE]

\* Bug: whatever was not accepted is retried.
RetriesUnaccepted(r, err) == ~err.accepted /\ attempt[r] < Attempts - 1
MayRetry(r, err) == err.retryable /\ ~err.accepted /\ attempt[r] < Attempts - 1

\* The except branch for a ProviderError: another try, or the error.
Raises(r, err) ==
  IF MayRetry(r, err)
    THEN /\ phase' = [phase EXCEPT ![r] = "ready"]
         /\ attempt' = [attempt EXCEPT ![r] = @ + 1]
         /\ carried' = [carried EXCEPT ![r] = <<>>]
         /\ UNCHANGED answer
    ELSE Ends(r, Marked(err))

\* A model call starts, unless its run is known to be cancelled.
Start(r) ==
  /\ phase[r] = "idle" /\ turn[r] < MaxTurns
  /\ turn' = [turn EXCEPT ![r] = @ + 1]
  /\ sent' = [sent EXCEPT ![r] = FALSE]
  /\ responded' = [responded EXCEPT ![r] = FALSE]
  /\ \/ cancelled[r] /\ Ends(r, Cancellation)
     \/ /\ ~cancelled[r]
        /\ phase' = [phase EXCEPT ![r] = "ready"]
        /\ answer' = [answer EXCEPT ![r] = NoAnswer]
        /\ UNCHANGED <<attempt, carried>>
  /\ UNCHANGED <<adapter, deployment, deadline, cancelled, results, cacheVars, closeVars>>

\* The provider's contract is checked before the first try.
Refuses(r) ==
  /\ phase[r] = "ready" /\ attempt[r] = 0
  /\ Ends(r, Unsupported)
  /\ UNCHANGED <<adapter, deployment, turn, deadline, cancelled, results, sent,
                 responded, cacheVars, closeVars>>

\* The deadline is found to have passed: before the try, between the two
\* readings of the clock, or by the adapter's request_timeout once the request
\* was built.  Nothing is sent.
FindsDeadline(r) ==
  /\ phase[r] = "ready" /\ deadline[r] # "none"
  /\ deadline' = [deadline EXCEPT ![r] = "passed"]
  /\ \/ Ends(r, Timeout(attempt[r] > 0)) /\ UNCHANGED cacheVars
     \/ deadline[r] = "ahead" /\ Ends(r, Timeout(TRUE)) /\ UNCHANGED cacheVars
     \/ LET request == Translated(results[r]) IN
        /\ deadline[r] = "ahead" /\ ~closed /\ request.ok
        /\ Raises(r, Timeout(FALSE))
        /\ cache' = request.cache /\ since' = request.since
  /\ UNCHANGED <<adapter, deployment, turn, cancelled, results, sent, responded, closeVars>>

\* One try: the adapter refuses it once closed, or translates the messages and
\* sends the request.  A pool that is closing accepts no request.
Try(r) ==
  /\ phase[r] = "ready" /\ deadline[r] # "passed"
  /\ LET request == Translated(results[r]) IN
     \/ /\ closed
        /\ Raises(r, Unavailable(FALSE))
        /\ UNCHANGED <<sent, cacheVars>>
     \/ /\ ~closed
        /\ cache' = request.cache /\ since' = request.since
        /\ IF ~request.ok THEN Raises(r, Malformed(FALSE)) /\ UNCHANGED sent
           ELSE IF pool # "open" THEN Raises(r, Unavailable(TRUE)) /\ UNCHANGED sent
           ELSE /\ phase' = [phase EXCEPT ![r] = "waiting"]
                /\ carried' = [carried EXCEPT ![r] = request.sent]
                /\ sent' = [sent EXCEPT ![r] = TRUE]
                /\ UNCHANGED <<attempt, answer>>
  /\ UNCHANGED <<adapter, deployment, turn, deadline, cancelled, results, responded, closeVars>>

\* The request fails: the server refuses it or the transport breaks.
Fails(r) ==
  /\ phase[r] = "waiting"
  /\ \E err \in Failures : Raises(r, err)
  /\ UNCHANGED <<adapter, deployment, turn, deadline, cancelled, results, sent,
                 responded, cacheVars, closeVars>>

\* _normalize_tool_call: the call, resolved against the offered tools, is
\* remembered before it is returned.
ToolCalled(r, body, id) ==
  LET call == [id |-> id, body |-> body] IN
  /\ cache' = Remembered(cache, call) /\ since' = Used(since, id)
  /\ results' = [results EXCEPT ![r] = Append(@, call)]
  /\ Ends(r, Result("tool_call"))

\* The request is answered: the response is bounded, parsed and validated.
\* An unusable answer says it was accepted; a response without choices, with an
\* unknown tool or against the schema does not, though it is not retried.
Responds(r) ==
  /\ phase[r] = "waiting"
  /\ responded' = [responded EXCEPT ![r] = TRUE]
  /\ \/ Ends(r, Result("structured")) /\ UNCHANGED <<cacheVars, results>>
     \/ \E body \in Bodies : \E id \in CallIds(body) : ToolCalled(r, body, id)
     \/ /\ \E err \in {Malformed(TRUE), Malformed(FALSE), Oversized} : Raises(r, err)
        /\ UNCHANGED <<cacheVars, results>>
  /\ UNCHANGED <<adapter, deployment, turn, deadline, cancelled, sent, closeVars>>

\* The timer of complete_with_retries fires.  It was set before the adapter's
\* own for the same time, so it is the one that fires for options.timeout; for
\* the deadline it is either.  The adapter turns the CancelledError it sees
\* into a ProviderCancellationError, which wait_for lets through.
OuterTimer(r) ==
  /\ phase[r] = "waiting"
  /\ Raises(r, Cancellation)
  /\ UNCHANGED <<adapter, deployment, turn, deadline, cancelled, results, sent,
                 responded, cacheVars, closeVars>>

\* For the deadline the adapter's own timer may be the first to fire.
InnerTimer(r) ==
  /\ phase[r] = "waiting" /\ deadline[r] = "passed"
  /\ Raises(r, Timeout(TRUE))
  /\ UNCHANGED <<adapter, deployment, turn, deadline, cancelled, results, sent,
                 responded, cacheVars, closeVars>>

\* The caller cancels: at the await of the request the adapter reports it, and
\* between two tries the CancelledError leaves complete_with_retries itself.
Cancel(r) ==
  /\ ~cancelled[r] /\ phase[r] # "done"
  /\ cancelled' = [cancelled EXCEPT ![r] = TRUE]
  /\ CASE phase[r] = "waiting" -> Raises(r, Cancellation)
       [] phase[r] = "ready"   -> Ends(r, Err("interrupted", FALSE, FALSE, TRUE))
       [] OTHER                -> UNCHANGED <<phase, attempt, answer, carried>>
  /\ UNCHANGED <<adapter, deployment, turn, deadline, results, sent, responded,
                 cacheVars, closeVars>>

DeadlinePasses(r) ==
  /\ deadline[r] = "ahead" /\ phase[r] # "done"
  /\ deadline' = [deadline EXCEPT ![r] = "passed"]
  /\ UNCHANGED <<adapter, deployment, phase, turn, attempt, cancelled, answer, results, carried,
                 sent, responded, cacheVars, closeVars>>

\* The run has made the call it was asked for and takes its next turn.
NextTurn(r) ==
  /\ phase[r] = "done" /\ answer[r].class = "tool_call"
  /\ phase' = [phase EXCEPT ![r] = "idle"]
  /\ UNCHANGED <<adapter, deployment, turn, attempt, deadline, cancelled, answer, results,
                 carried, sent, responded, cacheVars, closeVars>>

(***************************************************************************)
(* Shutdown of an owned client: aclose of the adapter, its lifecycle       *)
(* (_lifecycle.py) and the bounded HTTP client (_http.py), which keeps one *)
(* close task for ever and shields it from its waiters.  A borrowed client *)
(* is left alone: aclose returns.                                          *)
(***************************************************************************)
Leaves(c) == queue' = SelectSeq(queue, LAMBDA x : x # c)

Close(c) ==
  /\ deployment.owned
  /\ closer[c] \in {"idle", "failed"}
  /\ closer' = [closer EXCEPT ![c] = "queued"]
  /\ queue' = Append(queue, c)
  /\ UNCHANGED <<adapter, deployment, callVars, cacheVars, pool, closed>>

\* With the lock: nothing to do once closed, else the close task is awaited,
\* the one there is or a new one.
Enters(c) ==
  /\ closer[c] = "queued" /\ Head(queue) = c
  /\ IF closed
       THEN closer' = [closer EXCEPT ![c] = "closed"] /\ Leaves(c) /\ UNCHANGED pool
       ELSE /\ closer' = [closer EXCEPT ![c] = "awaiting"]
            /\ pool' = IF pool = "open" THEN "closing" ELSE pool
            /\ UNCHANGED queue
  /\ UNCHANGED <<adapter, deployment, callVars, cacheVars, closed>>

PoolCloses ==
  /\ pool = "closing"
  /\ pool' \in {"closed", "failed"}
  /\ UNCHANGED <<adapter, deployment, callVars, cacheVars, closed, queue, closer>>

\* The close task has ended: only its success closes the lifecycle.
CloserEnds(c) ==
  /\ closer[c] = "awaiting" /\ pool \in {"closed", "failed"}
  /\ closed' = (pool = "closed")
  /\ closer' = [closer EXCEPT ![c] = pool]
  /\ Leaves(c)
  /\ UNCHANGED <<adapter, deployment, callVars, cacheVars, pool>>

\* Bug: the place in the lock's line is kept.
AbandonsWithLock(c) ==
  /\ closer[c] \in {"queued", "awaiting"}
  /\ closer' = [closer EXCEPT ![c] = "cancelled"]
  /\ UNCHANGED <<adapter, deployment, callVars, cacheVars, pool, closed, queue>>

\* A waiter is cancelled; the close task goes on.
Abandons(c) ==
  /\ closer[c] \in {"queued", "awaiting"}
  /\ closer' = [closer EXCEPT ![c] = "cancelled"]
  /\ Leaves(c)
  /\ UNCHANGED <<adapter, deployment, callVars, cacheVars, pool, closed>>

(***************************************************************************)
(* The specification.                                                      *)
(***************************************************************************)
\* A new adapter: its cache is empty, its client its own or lent, and open.
AdapterInit ==
  /\ adapter \in {"openai", "ollama"} /\ deployment \in Deployments
  /\ cache = <<>> /\ since = <<>>
  /\ pool = "open" /\ closed = FALSE /\ queue = <<>>
CompletionInit ==
  /\ AdapterInit
  /\ phase = [r \in Runs |-> "idle"] /\ turn = [r \in Runs |-> 0]
  /\ attempt = [r \in Runs |-> 0]
  /\ deadline = [r \in Runs |-> IF r \in Deadlined THEN "ahead" ELSE "none"]
  /\ cancelled = [r \in Runs |-> FALSE]
  /\ answer = [r \in Runs |-> NoAnswer]
  /\ results = [r \in Runs |-> <<>>] /\ carried = [r \in Runs |-> <<>>]
  /\ sent = [r \in Runs |-> FALSE] /\ responded = [r \in Runs |-> FALSE]
  /\ closer = [c \in Closers |-> "idle"]

Serves(r) == FindsDeadline(r) \/ Try(r)

CompletionNext ==
  \/ \E r \in deployment.users :
       \/ Start(r) \/ Refuses(r) \/ FindsDeadline(r) \/ Try(r)
       \/ Fails(r) \/ Responds(r) \/ OuterTimer(r) \/ InnerTimer(r)
       \/ Cancel(r) \/ DeadlinePasses(r) \/ NextTurn(r)
  \/ \E c \in Closers : Close(c) \/ Enters(c) \/ CloserEnds(c) \/ Abandons(c)
  \/ PoolCloses

\* The event loop runs what is ready and fires what is due (the model gateway
\* sets a timeout on every call); the HTTP client's close comes to an end.
CompletionSpec == /\ CompletionInit /\ [][CompletionNext]_completionVars
        /\ \A r \in Runs : WF_completionVars(Serves(r)) /\ WF_completionVars(OuterTimer(r))
        /\ \A c \in Closers : WF_completionVars(Enters(c)) /\ WF_completionVars(CloserEnds(c))
        /\ WF_completionVars(PoolCloses)

(***************************************************************************)
(* Properties.                                                             *)
(***************************************************************************)
\* A retry never repeats work the provider has answered: once a request of a
\* call has got a response, usable or not, the call sends nothing more.
AnsweredMeansOver ==
  \A r \in Runs : responded[r] => phase[r] \notin {"ready", "waiting"}

\* Whoever reads "not attempted" in an error and repeats the work elsewhere
\* repeats nothing: no request of that call was ever sent.
NotAttemptedMeansNotSent ==
  \A r \in Runs : phase[r] = "done" /\ ~answer[r].attempted => ~sent[r]

\* A retry repeats nothing that was answered, a fallback nothing that was sent.
RetriesStopInTime == AnsweredMeansOver /\ NotAttemptedMeansNotSent

\* A server has given one ID to two different calls.
Asked == UNION {Range(results[r]) : r \in Runs}
Reused(id) ==
  id \in Given /\ \E call, other \in Asked : call.id = id /\ other.id = id /\ call.body # other.body

\* Every tool result goes back behind the very call the run was asked to make,
\* although all runs share the cache and servers may leave calls unnamed; only
\* where a server gave the ID of that call to another one too may it be that
\* other one, and it is never a call that was not asked under this ID.
ToolTurnsCarryTheirCall ==
  \A r \in Runs : phase[r] = "waiting" =>
    /\ Len(carried[r]) = Len(results[r])
    /\ \A i \in DOMAIN results[r] :
         /\ carried[r][i] = results[r][i].body \/ Reused(results[r][i].id)
         /\ \E call \in Asked : call.id = results[r][i].id /\ call.body = carried[r][i]

\* Without that exception, which no run checks: ToolCallCache is "needed to
\* round-trip a tool result" (_tool_cache.py:16), but it takes IDs as they come.
EveryResultMeetsItsCall ==
  \A r \in Runs : phase[r] = "waiting" =>
    carried[r] = [i \in DOMAIN results[r] |-> results[r][i].body]

\* The cache forgets a call exactly when as many others as it holds have been
\* used since that call was last remembered or looked up.
RecentCallsAreKept ==
  \A id \in DOMAIN since : Cached(cache, id) <=> Cardinality(since[id]) < Limit

\* Results meet the calls of this or an earlier turn while the cache has them.
ResultsMeetTheirCalls == ToolTurnsCarryTheirCall /\ RecentCallsAreKept

\* A provider says it is closed only when its connection pool is.
ClosedMeansPoolClosed == closed => pool = "closed"

\* A model call ends, whatever the server does.
CallsEnd == \A r \in Runs : phase[r] \in {"ready", "waiting"} ~> phase[r] = "done"

\* Everyone who waits for the shutdown learns how it ended, also behind a
\* waiter that gave up.
ClosesEnd == \A c \in Closers :
  closer[c] = "queued" ~> closer[c] \in {"closed", "failed", "cancelled"}

\* "The caller cancelled an in-flight provider request." (errors.py)
CancelledByTheCaller ==
  \A r \in Runs : phase[r] = "done" /\ answer[r].class = "cancelled" => cancelled[r]
=============================================================================
