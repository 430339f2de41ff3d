---------------------------- MODULE TokenExchange ----------------------------
(***************************************************************************)
(* Delegated authority at one agent.  A request arrives with a bearer      *)
(* token and perhaps a client certificate (transport/auth.py,              *)
(* security/tokens.py, security/trust.py); to call a destination on its    *)
(* behalf the agent builds a scope-attenuated exchange request and gets    *)
(* the outgoing token through the TokenCache all its requests share.  The  *)
(* authorization server that exchanges tokens is outside src/.             *)
(*                                                                         *)
(* The guard lock of the cache is held across no await: what happens under *)
(* it is one step.  Requests wait only for the lock of an entry and for    *)
(* the server.  A lock is named by the request that made it and when; its  *)
(* line is the requests that wait for it, its holder first.                *)
(***************************************************************************)
EXTENDS Naturals, Sequences

CONSTANTS Requests,    \* inbound requests the agent serves
          Subjects, Destinations,
          Scopes,
          AllowedHere, \* ScopePolicy.allowed_scopes of the agent's policy
          RequiredHere, \* ScopePolicy.required_scopes
          AllowedAt,   \* destination_allowed_scopes of each destination
          MaxEntries,  \* max_entries
          RefreshSkew, \* refresh_skew_seconds
          Leeway,      \* ClockSkewPolicy.leeway_seconds
          MaxDepth,    \* MAX_ACTOR_CHAIN_DEPTH
          MaxTime,     \* bound: the clock stops here
          MaxLife      \* bound: lifetime of an exchanged token

ASSUME TokenAssumption ==
  /\ AllowedHere \subseteq Scopes /\ RequiredHere \subseteq AllowedHere
  /\ AllowedAt \in [Destinations -> SUBSET Scopes]
  /\ MaxEntries \in Nat \ {0} /\ {RefreshSkew, Leeway, MaxDepth, MaxTime, MaxLife} \subseteq Nat

VARIABLES
  clock,
  certified, \* CertificatePolicy.require_client_certificate
  stage,     \* of a request: new, known, waiting, acquiring, served, ...
  identity,  \* the ValidatedIdentity of a request
  wants,     \* TokenExchangeRequest of a request
  asked,     \* when a waiting request asked the cache
  lockOf,    \* the entry lock it waits for or holds
  line,      \* of each lock: its holder and who waits behind it
  entries,   \* TokenCache._entries, least recently used first
  got        \* the outgoing token of a request, and its lifetime then

tokenVars == <<clock, certified, stage, identity, wants, asked, lockOf, line, entries, got>>

Locks == Requests \X {"asked", "stored"}
None  == [none |-> TRUE]

(***************************************************************************)
(* Inbound authentication.                                                 *)
(***************************************************************************)
Times == 0 .. MaxTime
\* What a compact JWS can be: not well formed, of an issuer, algorithm or
\* signature that is not trusted, or genuine; then its claims.
Bearers ==
  [genuine : BOOLEAN, subject : Subjects, audience : {"here", "elsewhere"},
   nbf : {0, MaxTime}, exp : {1, MaxTime}, scopes : SUBSET Scopes, depth : {0, MaxDepth + 1}]

\* ClockSkewPolicy: both bounds of a token's life give way by the leeway.
Premature(b) == b.nbf > clock + Leeway
Lapsed(b)    == b.exp + Leeway < clock

\* ScopePolicy: all that is required, nothing that is not allowed.
WithinPolicy(b) == RequiredHere \subseteq b.scopes /\ b.scopes \subseteq AllowedHere

\* _validate_claims: the first check that fails names the error.
ClaimsError(b) ==
  IF b.audience # "here" THEN "audience"
  ELSE IF Premature(b) THEN "not_yet_valid"
  ELSE IF Lapsed(b) THEN "expired"
  ELSE IF b.exp <= b.nbf THEN "malformed"
  ELSE IF ~WithinPolicy(b) THEN "scope"
  ELSE IF b.depth > MaxDepth THEN "actor_chain"
  ELSE "none"

\* JWTBearerTokenValidator.validate
Validates(b) == b.genuine /\ ClaimsError(b) = "none"

\* The ValidatedIdentity of a bearer, as far as anything depends on it.
Identified(b) == [subject |-> b.subject, scopes |-> b.scopes]

\* authenticate_incoming_request: the certificate first, when one is required;
\* with it no bearer token is needed, but its principal has no delegated scopes.
Authenticate(q) ==
  /\ stage[q] = "new"
  /\ \/ certified /\ stage' = [stage EXCEPT ![q] = "rejected"] /\ UNCHANGED identity
     \/ certified /\ stage' = [stage EXCEPT ![q] = "certificate_only"] /\ UNCHANGED identity
     \/ \E b \in Bearers :
          IF Validates(b)
            THEN /\ stage' = [stage EXCEPT ![q] = "known"]
                 /\ identity' = [identity EXCEPT ![q] = Identified(b)]
            ELSE stage' = [stage EXCEPT ![q] = "rejected"] /\ UNCHANGED identity
  /\ UNCHANGED <<clock, certified, wants, asked, lockOf, line, entries, got>>

(***************************************************************************)
(* The cache.                                                              *)
(***************************************************************************)
\* TokenCache.make_key: every input of the exchange (issuer, client and policy
\* version are one here, and the chain of actors belongs to its subject).
KeyOf(w) == <<w.subject, w.destination, w.scopes>>

Held(key) == \E i \in DOMAIN entries : entries[i].key = key
Position(key) == CHOOSE i \in DOMAIN entries : entries[i].key = key
EntryOf(key) == entries[Position(key)]
Others(key) ==
  IF Held(key)
    THEN SubSeq(entries, 1, Position(key) - 1) \o SubSeq(entries, Position(key) + 1, Len(entries))
    ELSE entries

\* An entry without a token is the placeholder of an acquisition.
Usable(entry, now) == entry.token # None /\ entry.token.exp > now + RefreshSkew

Serve(q, token, from) ==
  /\ stage' = [stage EXCEPT ![q] = "served"]
  /\ got' = [got EXCEPT ![q] = [for |-> token.for, left |-> token.exp - clock, from |-> from]]

\* attenuate_scopes: what may be asked for.
Attenuated(q, d) == SUBSET (identity[q].scopes \cap AllowedAt[d])

\* The TokenExchangeRequest for a destination, on behalf of a request's subject.
Exchange(q, d, scopes) ==
  [subject |-> identity[q].subject, destination |-> d, scopes |-> scopes]

\* build_delegated_token_request, and the part of get_or_acquire under the
\* guard: a usable token is served, else the request joins the entry's line,
\* behind a placeholder if there was no entry.
AskToken(q) ==
  /\ stage[q] = "known"
  /\ \E d \in Destinations : \E scopes \in Attenuated(q, d) \ {{}} :
       LET w   == Exchange(q, d, scopes)
           key == KeyOf(w)
       IN
       /\ wants' = [wants EXCEPT ![q] = w]
       /\ IF Held(key) /\ Usable(EntryOf(key), clock)
            THEN /\ Serve(q, EntryOf(key).token, "cache")
                 /\ entries' = Append(Others(key), EntryOf(key))
                 /\ UNCHANGED <<asked, lockOf, line>>
            ELSE LET l == IF Held(key) THEN EntryOf(key).lock ELSE <<q, "asked">> IN
                 /\ stage' = [stage EXCEPT ![q] = "waiting"]
                 /\ asked' = [asked EXCEPT ![q] = clock]
                 /\ lockOf' = [lockOf EXCEPT ![q] = l]
                 /\ line' = [line EXCEPT ![l] = Append(@, q)]
                 /\ entries' = IF Held(key) THEN entries
                               ELSE Append(entries, [key |-> key, token |-> None, lock |-> l])
                 /\ UNCHANGED got
  /\ UNCHANGED <<clock, certified, identity>>

\* A request that would exceed its authority or its destination's is refused.
Refused(q) ==
  /\ stage[q] = "known"
  /\ \E d \in Destinations : \E scopes \in SUBSET Scopes : scopes \notin Attenuated(q, d)
  /\ stage' = [stage EXCEPT ![q] = "denied"]
  /\ UNCHANGED <<clock, certified, identity, wants, asked, lockOf, line, entries, got>>

\* A line after one of it left.
Behind(s, q) ==
  [i \in 1 .. Len(s) - 1 |-> IF \E j \in 1 .. i : s[j] = q THEN s[i + 1] ELSE s[i]]

Unlocks(q) == /\ line' = [line EXCEPT ![lockOf[q]] = Behind(@, q)]
              /\ lockOf' = [lockOf EXCEPT ![q] = None]
              /\ asked' = [asked EXCEPT ![q] = 0]

\* Bug: the time read before the wait decides.
StaleNow(q) == asked[q]

\* The clock is read again under the lock.
Now(q) == clock

\* The lock is had: a token acquired meanwhile is served, else one is acquired.
Recheck(q) ==
  /\ stage[q] = "waiting" /\ Head(line[lockOf[q]]) = q
  /\ LET key == KeyOf(wants[q]) IN
     IF Held(key) /\ Usable(EntryOf(key), Now(q))
       THEN Serve(q, EntryOf(key).token, "cache") /\ Unlocks(q)
       ELSE /\ stage' = [stage EXCEPT ![q] = "acquiring"]
            /\ UNCHANGED <<asked, lockOf, line, got>>
  /\ UNCHANGED <<clock, certified, identity, wants, entries>>

\* Under the guard the entry is replaced, with a new lock, and the oldest
\* entries go, placeholders of others among them.
Stored(entry) ==
  LET all == Append(Others(entry.key), entry)
  IN  SubSeq(all, IF Len(all) > MaxEntries THEN Len(all) - MaxEntries + 1 ELSE 1, Len(all))

\* The AcquiredToken for an exchange.
Granted(w, life) == [for |-> w, exp |-> clock + life]

\* The server answers with a token for what was asked.
Acquired(q) ==
  /\ stage[q] = "acquiring"
  /\ \E life \in 0 .. MaxLife :
       LET token == Granted(wants[q], life) IN
       /\ entries' = Stored([key |-> KeyOf(wants[q]), token |-> token, lock |-> <<q, "stored">>])
       /\ Serve(q, token, "server")
  /\ Unlocks(q)
  /\ UNCHANGED <<clock, certified, identity, wants>>

\* Bug: a failed acquisition keeps the lock.
KeepsLock(q) ==
  /\ stage[q] = "acquiring"
  /\ stage' = [stage EXCEPT ![q] = "failed"]
  /\ UNCHANGED <<clock, certified, identity, wants, asked, lockOf, line, entries, got>>

\* The exchange fails, or its request is cancelled; the placeholder stays.
AcquireFails(q) ==
  /\ stage[q] = "acquiring"
  /\ stage' = [stage EXCEPT ![q] = "failed"]
  /\ Unlocks(q)
  /\ UNCHANGED <<clock, certified, identity, wants, entries, got>>

GiveUp(q) ==
  /\ stage[q] = "waiting"
  /\ stage' = [stage EXCEPT ![q] = "failed"]
  /\ Unlocks(q)
  /\ UNCHANGED <<clock, certified, identity, wants, entries, got>>

Tick == /\ clock < MaxTime /\ clock' = clock + 1
        /\ UNCHANGED <<certified, stage, identity, wants, asked, lockOf, line, entries, got>>

TokenInit ==
  /\ clock = 0 /\ certified \in BOOLEAN
  /\ stage = [q \in Requests |-> "new"]
  /\ identity = [q \in Requests |-> None] /\ wants = [q \in Requests |-> None]
  /\ asked = [q \in Requests |-> 0] /\ lockOf = [q \in Requests |-> None]
  /\ line = [l \in Locks |-> <<>>] /\ entries = <<>>
  /\ got = [q \in Requests |-> None]

TokenNext ==
  \/ \E q \in Requests : \/ Authenticate(q) \/ AskToken(q) \/ Refused(q) \/ Recheck(q)
                         \/ Acquired(q) \/ AcquireFails(q) \/ GiveUp(q)
  \/ Tick

TokenSpec == TokenInit /\ [][TokenNext]_tokenVars

(***************************************************************************)
(* Properties.                                                             *)
(***************************************************************************)
\* The token a request goes out with speaks for its own subject, to the
\* destination it asked for, with scopes its own inbound token granted and no
\* others, although requests with wider authority fill the same cache.
AuthorityNeverGrows ==
  \A q \in Requests : stage[q] = "served" =>
    /\ got[q].for = wants[q]
    /\ wants[q].subject = identity[q].subject
    /\ wants[q].scopes \subseteq identity[q].scopes \cap AllowedHere

\* A token out of the cache is good for longer than the refresh skew at the
\* moment it is served, however long the request waited for it.
CachedTokensAreFresh ==
  \A q \in Requests : stage[q] = "served" /\ got[q].from = "cache" =>
    got[q].left > RefreshSkew

\* What a request is served is what it may have, and lasts.
ServedTokensAreSound == AuthorityNeverGrows /\ CachedTokensAreFresh

\* Whoever waits for another's acquisition waits for a request that is still
\* at work, also after acquisitions that failed or were given up: a line is
\* never held by a request that is over.
WaitersHaveAHolder ==
  \A q \in Requests : stage[q] = "waiting" =>
    stage[Head(line[lockOf[q]])] \in {"waiting", "acquiring"}

\* "Concurrent callers sharing one cache key await a single in-flight
\* acquisition instead of triggering a refresh stampede." (tokens.py)
OneAcquisitionPerKey ==
  \A p, q \in Requests :
    stage[p] = "acquiring" /\ stage[q] = "acquiring" /\ wants[p] = wants[q] => p = q
=============================================================================
