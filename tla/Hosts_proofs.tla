----------------------------- MODULE Hosts_proofs -----------------------------
(***************************************************************************)
(* Proofs about the hosts a request enters by: the boundary in front of the *)
(* A2A application (RequestBoundary), the MCP host (McpHost) and the A2A    *)
(* host (A2AHost), for every set of requests, addresses, configurations,    *)
(* sessions and tasks and every limit.                                      *)
(***************************************************************************)
EXTENDS RequestBoundary, McpHost, A2AHost, FiniteSetTheorems, TLAPS

(***************************************************************************)
(* The boundary: its state, and the invariant.                              *)
(***************************************************************************)
Phases == {"new", "over"} \cup InService
Values == Addresses \cup {"https", "ours", "other", NoHeader}
Views ==
  [client : Addresses, subject : MtlsSubjects \cup {NoHeader}, host : Values,
   headers : SUBSET (ForwardedNames \cup Reserved \cup {"trace"})]
ServedRecords == [phase : Phases, scope : AllScopes \cup {NoHeader}, sees : Views \cup {NoHeader},
           why : {"none", "bound", "disconnected", "server"}]
Applications == [state : {"none", "running", "finished", "failed"}, wrote : Nat]
Replies == [kind : {"none", "rejected", "probe", "whole", "cut"}, times : Nat]
Pumps == [state : {"none", "reading", "exceeded", "disconnected", "closed"}, read : Nat]

BoundaryTyped ==
  /\ config \in Configs
  /\ serving \in [BoundaryRequests -> ServedRecords]
  /\ pumped \in [BoundaryRequests -> Pumps]
  /\ app \in [BoundaryRequests -> Applications]
  /\ reply \in [BoundaryRequests -> Replies]
  /\ held \in Nat /\ perKey \in [Keys -> Nat]

IsServed(r) == serving[r].phase \in InService

\* The application of a request in service sees its scope sanitized.
Sees(r) == IsServed(r) => serving[r].scope \in AllScopes
                          /\ serving[r].sees = Sanitized(serving[r].scope)

\* Slots are as many as requests in service, in all and of each caller.
AllServed == {r \in BoundaryRequests : IsServed(r)}
Shares ==
  /\ IsFiniteSet(AllServed) /\ held = Cardinality(AllServed) /\ held <= Accepted
  /\ \A k \in Keys : /\ IsFiniteSet(Serving(k)) /\ perKey[k] = Cardinality(Serving(k))
                     /\ perKey[k] <= PerCaller

\* How often a request was answered, by where its guard is; and what its
\* application wrote.
Answers(r) ==
  /\ serving[r].phase \in {"new", "serving", "cancelling"} =>
       reply[r].times = 0 /\ reply[r].kind = "none"
  /\ serving[r].phase \in {"new", "serving"} => serving[r].why = "none"
  /\ serving[r].phase = "sending" => reply[r].times = 1 /\ serving[r].why \in {"none", "bound"}
  /\ serving[r].phase = "over" =>
       reply[r].times <= 1 /\ (serving[r].why \notin {"disconnected", "server"} => reply[r].times = 1)
  /\ serving[r].phase = "new" => app[r].wrote = 0
  /\ reply[r].kind = "whole" => app[r].state = "finished"
  /\ app[r].state = "running" => app[r].wrote <= MaxResponse
  /\ app[r].state = "finished" => app[r].wrote \in 1 .. MaxResponse

BoundaryInv ==
  BoundaryTyped /\ Shares /\ \A r \in BoundaryRequests : Sees(r) /\ Answers(r)

-----------------------------------------------------------------------------
(***************************************************************************)
(* Who a request's caller is, and what is left of its headers.              *)
(***************************************************************************)
LEMMA ClientIsAddress ==
  ASSUME NEW s \in AllScopes
  PROVE  Client(s) \in Addresses /\ CallerKey(s) \in Keys
<1>1. s.peer \in Addresses /\ s.forwarded["for"] \in Addresses \cup {NoHeader}
      /\ s.subject \in MtlsSubjects \cup {NoHeader}
  BY DEF AllScopes
<1>2. Client(s) \in Addresses
  BY <1>1 DEF Client, Believed
<1> QED
  BY <1>1, <1>2 DEF CallerKey, Keys

LEMMA SanitizedIsView ==
  ASSUME NEW s \in AllScopes
  PROVE  Sanitized(s) \in Views
<1>1. s.subject \in MtlsSubjects \cup {NoHeader} /\ s.host \in Values /\ s.reserved \subseteq Reserved
      /\ s.forwarded["host"] \in Values
  BY DEF AllScopes, Values, ForwardedNames
<1>2. Authority(s) \in Values
  BY <1>1 DEF Authority
<1>3. Arrived(s) \subseteq ForwardedNames \cup Reserved \cup {"trace"}
  BY <1>1 DEF Arrived, Present
<1> QED
  BY <1>1, <1>2, <1>3, ClientIsAddress DEF Sanitized, Views

\* Whatever the scope says: what the application is told of the caller.
LEMMA SanitizedIdentity ==
  ASSUME NEW s \in AllScopes
  PROVE  LET sees == Sanitized(s) IN
         /\ sees.subject = s.subject /\ sees.headers \cap Reserved = {}
         /\ s.trace = "malformed" => "trace" \notin sees.headers
         /\ s.peer \notin config.proxies =>
              sees.client = s.peer /\ sees.host = s.host /\ sees.headers \cap ForwardedNames = {}
         /\ sees.headers \cap ForwardedNames \subseteq config.trusts
         /\ sees.client # s.peer => sees.client = s.forwarded["for"] /\ "for" \in sees.headers
<1> DEFINE sees == Sanitized(s)
<1>1. /\ sees.client = Client(s) /\ sees.subject = s.subject /\ sees.host = Authority(s)
      /\ sees.headers = Arrived(s) \ Dropped(s)
  BY DEF Sanitized
<1>2. sees.headers \cap Reserved = {} /\ (s.trace = "malformed" => "trace" \notin sees.headers)
  BY <1>1 DEF Dropped, TraceDropped
<1>3. Arrived(s) \cap ForwardedNames = Present(s)
  <2>1. s.reserved \subseteq Reserved
    BY DEF AllScopes
  <2> QED
    BY <2>1 DEF Arrived, Present, ForwardedNames, Reserved
<1>4. CASE ~ViaProxy(s)
  <2>1. Client(s) = s.peer /\ Authority(s) = s.host
    BY <1>4 DEF Client, Authority, Believed
  <2>2. sees.headers \cap ForwardedNames = {}
    BY <1>1, <1>3, <1>4 DEF Dropped, ForwardedDropped
  <2> QED
    BY <1>1, <1>2, <2>1, <2>2
<1>5. CASE ViaProxy(s)
  <2>1. sees.headers \cap ForwardedNames \subseteq config.trusts
    BY <1>1, <1>3, <1>5 DEF Dropped, ForwardedDropped
  <2>2. ASSUME Client(s) # s.peer
        PROVE  Client(s) = s.forwarded["for"] /\ "for" \in sees.headers
    <3>1. "for" \in config.trusts /\ s.forwarded["for"] # NoHeader /\ Client(s) = s.forwarded["for"]
      BY <2>2 DEF Client, Believed
    <3>2. "for" \in Present(s)
      BY <3>1 DEF Present, ForwardedNames
    <3>3. "for" \notin Dropped(s)
      BY <1>5, <3>1 DEF Dropped, ForwardedDropped, TraceDropped, Reserved
    <3> QED
      BY <1>1, <3>1, <3>2, <3>3 DEF Arrived
  <2> QED
    BY <1>1, <1>2, <1>5, <2>1, <2>2 DEF ViaProxy
<1> QED
  BY <1>4, <1>5

-----------------------------------------------------------------------------
(***************************************************************************)
(* Slots.                                                                   *)
(***************************************************************************)
\* A step on which nobody enters or leaves.
LEMMA NobodyLeaves ==
  ASSUME Shares, UNCHANGED <<config, held, perKey>>,
         \A r \in BoundaryRequests :
           (IsServed(r) <=> IsServed(r)') /\ (IsServed(r) => serving'[r].scope = serving[r].scope)
  PROVE  Shares'
<1>1. AllServed' = AllServed
  BY DEF AllServed
<1>2. \A r \in BoundaryRequests : IsServed(r) =>
        CallerKey(serving[r].scope)' = CallerKey(serving[r].scope)
  BY DEF CallerKey, Client, Believed, ViaProxy
<1>3. \A k \in Keys : Serving(k)' = Serving(k)
  BY <1>2 DEF Serving, IsServed
<1> QED
  BY <1>1, <1>3 DEF Shares

LEMMA OneEnters ==
  ASSUME BoundaryTyped, Shares, config' = config, NEW r \in BoundaryRequests, NEW s \in AllScopes,
         ~IsServed(r), TryAcquire(CallerKey(s)),
         IsServed(r)', serving'[r].scope = s, held' = held + 1,
         perKey' = [perKey EXCEPT ![CallerKey(s)] = @ + 1],
         \A q \in BoundaryRequests \ {r} : serving'[q] = serving[q]
  PROVE  Shares'
<1> DEFINE key == CallerKey(s)
<1>1. AllServed' = AllServed \cup {r} /\ r \notin AllServed
  BY DEF AllServed, IsServed
<1>2. IsFiniteSet(AllServed') /\ Cardinality(AllServed') = Cardinality(AllServed) + 1
  BY <1>1, FS_AddElement DEF Shares
<1>3. \A x : CallerKey(x)' = CallerKey(x)
  BY DEF CallerKey, Client, Believed, ViaProxy
<1>4. \A k \in Keys : Serving(k)' = (IF k = key THEN Serving(k) \cup {r} ELSE Serving(k))
                      /\ r \notin Serving(k)
  BY <1>3 DEF Serving, IsServed
<1>5. ASSUME NEW k \in Keys
      PROVE  IsFiniteSet(Serving(k)') /\ perKey'[k] = Cardinality(Serving(k)') /\ perKey'[k] <= PerCaller
  <2>1. IsFiniteSet(Serving(k)) /\ perKey[k] = Cardinality(Serving(k)) /\ perKey[k] <= PerCaller
        /\ perKey[k] \in Nat /\ PerCaller \in Nat
    BY BoundaryAssumption DEF Shares, BoundaryTyped
  <2>2. CASE k = key
    <3>1. IsFiniteSet(Serving(k) \cup {r}) /\ Cardinality(Serving(k) \cup {r}) = perKey[k] + 1
      BY <1>4, <2>1, FS_AddElement
    <3>2. perKey'[k] = perKey[k] + 1 /\ perKey[k] < PerCaller
      BY <2>2 DEF BoundaryTyped, TryAcquire
    <3>3. Serving(k)' = Serving(k) \cup {r}
      BY <1>4, <2>2
    <3>4. perKey'[k] = Cardinality(Serving(k)') /\ IsFiniteSet(Serving(k)')
      BY <3>1, <3>2, <3>3
    <3> QED
      BY <2>1, <3>2, <3>4
  <2>3. CASE k # key
    <3>1. perKey'[k] = perKey[k]
      BY <2>3 DEF BoundaryTyped
    <3> QED
      BY <1>4, <2>1, <2>3, <3>1
  <2> QED
    BY <2>2, <2>3
<1>6. held' = Cardinality(AllServed') /\ held' <= Accepted
  BY <1>2, BoundaryAssumption DEF Shares, BoundaryTyped, TryAcquire
<1> QED
  BY <1>2, <1>5, <1>6 DEF Shares

LEMMA OneLeaves ==
  ASSUME BoundaryTyped, Shares, config' = config, NEW r \in BoundaryRequests, IsServed(r),
         serving[r].scope \in AllScopes, ~IsServed(r)', Release(CallerKey(serving[r].scope)),
         \A q \in BoundaryRequests \ {r} : serving'[q] = serving[q]
  PROVE  Shares' /\ held' \in Nat /\ perKey' \in [Keys -> Nat]
<1> DEFINE key == CallerKey(serving[r].scope)
<1>0. key \in Keys
  BY ClientIsAddress
<1>1. AllServed' = AllServed \ {r} /\ r \in AllServed
  BY DEF AllServed, IsServed
<1>2. /\ IsFiniteSet(AllServed') /\ Cardinality(AllServed') = Cardinality(AllServed) - 1
      /\ Cardinality(AllServed') \in Nat
  BY <1>1, FS_RemoveElement, FS_CardinalityType DEF Shares
<1>3. \A x : CallerKey(x)' = CallerKey(x)
  BY DEF CallerKey, Client, Believed, ViaProxy
<1>4. \A k \in Keys : Serving(k)' = (IF k = key THEN Serving(k) \ {r} ELSE Serving(k))
                      /\ (k = key => r \in Serving(k))
  BY <1>3 DEF Serving, IsServed
<1>5. ASSUME NEW k \in Keys
      PROVE  IsFiniteSet(Serving(k)') /\ perKey'[k] = Cardinality(Serving(k)')
             /\ perKey'[k] <= PerCaller /\ perKey'[k] \in Nat
  <2>1. IsFiniteSet(Serving(k)) /\ perKey[k] = Cardinality(Serving(k)) /\ perKey[k] <= PerCaller
        /\ perKey[k] \in Nat /\ PerCaller \in Nat
    BY BoundaryAssumption DEF Shares, BoundaryTyped
  <2>2. CASE k = key
    <3>1. IsFiniteSet(Serving(k) \ {r}) /\ Cardinality(Serving(k) \ {r}) = perKey[k] - 1
          /\ Cardinality(Serving(k) \ {r}) \in Nat
      BY <1>4, <2>1, <2>2, FS_RemoveElement, FS_CardinalityType
    <3>2. perKey'[k] = perKey[k] - 1
      BY <2>2 DEF BoundaryTyped, Release
    <3>3. Serving(k)' = Serving(k) \ {r}
      BY <1>4, <2>2
    <3>4. perKey'[k] = Cardinality(Serving(k)') /\ IsFiniteSet(Serving(k)') /\ perKey'[k] \in Nat
      BY <3>1, <3>2, <3>3
    <3> QED
      BY <2>1, <3>2, <3>4
  <2>3. CASE k # key
    <3>1. perKey'[k] = perKey[k]
      BY <2>3 DEF BoundaryTyped, Release
    <3> QED
      BY <1>4, <2>1, <2>3, <3>1
  <2> QED
    BY <2>2, <2>3
<1>6. held' = Cardinality(AllServed') /\ held' <= Accepted
  BY <1>2, BoundaryAssumption DEF Shares, BoundaryTyped, Release
<1>7. perKey' \in [Keys -> Nat]
  BY <1>5 DEF BoundaryTyped, Release
<1> QED
  BY <1>2, <1>5, <1>6, <1>7 DEF Shares

-----------------------------------------------------------------------------
(***************************************************************************)
(* Each step of a request keeps the invariant.                              *)
(***************************************************************************)
LEMMA SameViews ==
  ASSUME config' = config
  PROVE  \A s : Sanitized(s)' = Sanitized(s)
BY DEF Sanitized, Client, Authority, Believed, ViaProxy, Arrived, Dropped, Present, ForwardedDropped,
       TraceDropped

\* What is left to show of a step of request r.
LEMMA OthersStay ==
  ASSUME BoundaryInv, config' = config, NEW r \in BoundaryRequests, Sees(r)', Answers(r)',
         \A q \in BoundaryRequests \ {r} :
           serving'[q] = serving[q] /\ app'[q] = app[q] /\ reply'[q] = reply[q]
  PROVE  \A q \in BoundaryRequests : Sees(q)' /\ Answers(q)'
<1> SUFFICES ASSUME NEW q \in BoundaryRequests, q # r
             PROVE  Sees(q)' /\ Answers(q)'
  OBVIOUS
<1>1. Sees(q) /\ Answers(q)
  BY DEF BoundaryInv
<1>2. serving'[q] = serving[q] /\ app'[q] = app[q] /\ reply'[q] = reply[q]
  OBVIOUS
<1>3. Sees(q)'
  BY <1>1, <1>2, SameViews DEF Sees, IsServed
<1>4. Answers(q)'
  BY <1>1, <1>2 DEF Answers
<1> QED
  BY <1>3, <1>4

LEMMA ArriveKeeps ==
  ASSUME BoundaryInv, NEW r \in BoundaryRequests, NEW s \in Arriving, ArriveRequest(r, s)
  PROVE  BoundaryInv'
<1>0. s \in AllScopes
  BY BoundaryAssumption
<1>1. /\ serving[r].phase = "new" /\ ~IsServed(r) /\ config' = config /\ serving[r] \in ServedRecords
      /\ reply[r] \in Replies /\ app[r] \in Applications
  BY DEF ArriveRequest, IsServed, InService, BoundaryInv, BoundaryTyped
<1>2. Sees(r) /\ Answers(r)
  BY DEF BoundaryInv
<1>3. CASE \E kind \in {"rejected", "probe"} : AnswersAtOnce(r, kind)
  <2>1. PICK kind \in {"rejected", "probe"} :
          /\ serving' = [serving EXCEPT ![r].phase = "over"]
          /\ reply' = [reply EXCEPT ![r] = [kind |-> kind, times |-> 1]]
          /\ UNCHANGED <<pumped, app, held, perKey>>
    BY <1>3 DEF AnswersAtOnce
  <2>2. serving'[r] = [serving[r] EXCEPT !.phase = "over"] /\ reply'[r] = [kind |-> kind, times |-> 1]
    BY <2>1 DEF BoundaryInv, BoundaryTyped
  <2>3. serving'[r].phase = "over" /\ serving'[r] \in ServedRecords /\ serving'[r].why = serving[r].why
    BY <1>1, <2>2 DEF ServedRecords, Phases
  <2>4. BoundaryTyped'
    BY <1>1, <2>1, <2>3 DEF BoundaryInv, BoundaryTyped, Replies
  <2>5. ~IsServed(r)' /\ \A q \in BoundaryRequests \ {r} :
          serving'[q] = serving[q] /\ app'[q] = app[q] /\ reply'[q] = reply[q]
    BY <2>1, <2>3 DEF IsServed, InService, BoundaryInv, BoundaryTyped
  <2>6. Shares'
    BY <1>1, <2>1, <2>5, NobodyLeaves DEF BoundaryInv, IsServed
  <2>7. Sees(r)' /\ Answers(r)'
    BY <1>1, <1>2, <2>1, <2>2, <2>3, <2>5 DEF Sees, Answers
  <2> QED
    BY <1>1, <2>4, <2>5, <2>6, <2>7, OthersStay DEF BoundaryInv
<1>4. CASE TryAcquire(CallerKey(s)) /\ Admits(r, s)
  <2>1. /\ serving' = [serving EXCEPT ![r] = [phase |-> "serving", scope |-> s,
                                              sees |-> Sanitized(s), why |-> "none"]]
        /\ held' = held + 1 /\ perKey' = [perKey EXCEPT ![CallerKey(s)] = @ + 1]
        /\ pumped' = [pumped EXCEPT ![r].state = "reading"]
        /\ app' = [app EXCEPT ![r].state = "running"]
        /\ reply' = reply
    BY <1>4 DEF Admits
  <2>2. serving'[r] = [phase |-> "serving", scope |-> s, sees |-> Sanitized(s), why |-> "none"]
        /\ app'[r] = [app[r] EXCEPT !.state = "running"]
        /\ pumped'[r] = [pumped[r] EXCEPT !.state = "reading"]
    BY <2>1 DEF BoundaryInv, BoundaryTyped
  <2>3. serving'[r] \in ServedRecords /\ app'[r] \in Applications /\ pumped'[r] \in Pumps
    <3>1. serving'[r] \in ServedRecords
      BY <1>0, <2>2, SanitizedIsView DEF ServedRecords, Phases, InService
    <3>2. pumped[r] \in Pumps
      BY DEF BoundaryInv, BoundaryTyped
    <3> QED
      BY <1>1, <2>2, <3>1, <3>2 DEF Applications, Pumps
  <2>4. held' \in Nat /\ perKey' \in [Keys -> Nat]
    BY <1>0, <2>1, ClientIsAddress DEF BoundaryInv, BoundaryTyped
  <2>5. BoundaryTyped'
    BY <1>1, <2>1, <2>3, <2>4 DEF BoundaryInv, BoundaryTyped
  <2>6. \A q \in BoundaryRequests \ {r} :
          serving'[q] = serving[q] /\ app'[q] = app[q] /\ reply'[q] = reply[q]
    BY <2>1 DEF BoundaryInv, BoundaryTyped
  <2>7. IsServed(r)' /\ serving'[r].scope = s /\ serving'[r].sees = Sanitized(s)
    BY <2>2 DEF IsServed, InService
  <2>8. Shares'
    BY <1>0, <1>1, <1>4, <2>1, <2>6, <2>7, OneEnters DEF BoundaryInv
  <2>9. Sees(r)' /\ Answers(r)'
    <3>1. Sees(r)'
      BY <1>0, <1>1, <2>7, SameViews DEF Sees
    <3>2. app'[r].state = "running" /\ app'[r].wrote = app[r].wrote
      BY <1>1, <2>2 DEF Applications
    <3> QED
      BY <1>1, <1>2, <2>1, <2>2, <3>1, <3>2, BoundaryAssumption DEF Answers
  <2> QED
    BY <1>1, <2>5, <2>6, <2>8, <2>9, OthersStay DEF BoundaryInv
<1> QED
  BY <1>3, <1>4 DEF ArriveRequest

\* The steps of the pump change nothing the rest of the invariant looks at.
LEMMA PumpKeeps ==
  ASSUME BoundaryInv, pumped' \in [BoundaryRequests -> Pumps],
         UNCHANGED <<config, serving, app, reply, held, perKey>>
  PROVE  BoundaryInv'
<1>1. BoundaryTyped'
  BY DEF BoundaryInv, BoundaryTyped
<1>2. Shares'
  BY NobodyLeaves DEF BoundaryInv, IsServed
<1>3. \A r \in BoundaryRequests : Sees(r)' /\ Answers(r)'
  BY SameViews DEF BoundaryInv, Sees, IsServed, Answers
<1> QED
  BY <1>1, <1>2, <1>3 DEF BoundaryInv

LEMMA ChunkKeeps ==
  ASSUME BoundaryInv, NEW r \in BoundaryRequests, NEW size \in {1, 2}, Chunk(r, size) \/ Disconnects(r)
  PROVE  BoundaryInv'
<1>1. pumped \in [BoundaryRequests -> Pumps]
  BY DEF BoundaryInv, BoundaryTyped
<1>2. CASE Chunk(r, size)
  <2> DEFINE p == IF pumped[r].read + size > MaxBody THEN [state |-> "exceeded", read |-> 0]
                  ELSE [state |-> "reading", read |-> pumped[r].read + size]
  <2>1. p \in Pumps
    <3>1. pumped[r] \in Pumps
      BY <1>1
    <3>2. pumped[r].read + size \in Nat
      BY <3>1 DEF Pumps
    <3>3. [state |-> "reading", read |-> pumped[r].read + size] \in Pumps
      BY <3>2 DEF Pumps
    <3>4. [state |-> "exceeded", read |-> 0] \in Pumps
      BY DEF Pumps
    <3> QED
      BY <3>3, <3>4
  <2>3. pumped' = [pumped EXCEPT ![r] = p]
    BY <1>2 DEF Chunk
  <2> HIDE DEF p
  <2>2. pumped' \in [BoundaryRequests -> Pumps]
    BY <1>1, <2>1, <2>3
  <2> QED
    BY <1>2, <2>2, PumpKeeps DEF Chunk
<1>3. CASE Disconnects(r)
  <2>1. pumped' \in [BoundaryRequests -> Pumps]
    BY <1>1, <1>3 DEF Disconnects, Pumps
  <2> QED
    BY <1>3, <2>1, PumpKeeps DEF Disconnects
<1> QED
  BY <1>2, <1>3

\* A step of the application, of a request in service: it may not be one whose
\* response was sent.
LEMMA AppKeeps ==
  ASSUME BoundaryInv, NEW r \in BoundaryRequests, Writes(r) \/ AppEnds(r)
  PROVE  BoundaryInv'
<1>0. /\ UNCHANGED <<config, serving, pumped, reply, held, perKey>>
      /\ Answers(r) /\ IsServed(r) /\ app[r].state = "running" /\ reply[r].kind # "whole"
      /\ app[r] \in Applications /\ app[r].wrote <= MaxResponse /\ MaxResponse \in Nat
      /\ serving[r].phase # "new"
  BY BoundaryAssumption DEF Writes, AppEnds, Running, BoundaryInv, BoundaryTyped, Answers, IsServed,
                            InService
<1>1. PICK a \in Applications :
        /\ app' = [app EXCEPT ![r] = a]
        /\ a.state = "running" => a.wrote <= MaxResponse
        /\ a.state = "finished" => a.wrote \in 1 .. MaxResponse
  <2>1. ASSUME AppFails(r)
        PROVE  app' = [app EXCEPT ![r] = [state |-> "failed", wrote |-> 0]]
               /\ [state |-> "failed", wrote |-> 0] \in Applications
    BY <2>1 DEF AppFails, Applications
  <2>2. CASE Writes(r) /\ app[r].wrote # MaxResponse
    <3> DEFINE a == [app[r] EXCEPT !.wrote = @ + 1]
    <3>1. a \in Applications /\ a.state = "running" /\ a.wrote <= MaxResponse
      BY <1>0, <2>2 DEF Applications
    <3>2. app' = [app EXCEPT ![r] = a]
      BY <2>2 DEF Writes
    <3> HIDE DEF a
    <3> QED
      BY <3>1, <3>2
  <2>3. CASE app[r].wrote > 0 /\ app' = [app EXCEPT ![r].state = "finished"]
    <3> DEFINE a == [app[r] EXCEPT !.state = "finished"]
    <3>1. a \in Applications /\ a.state = "finished" /\ a.wrote \in 1 .. MaxResponse
      BY <1>0, <2>3 DEF Applications
    <3>2. app' = [app EXCEPT ![r] = a]
      BY <2>3
    <3> HIDE DEF a
    <3> QED
      BY <3>1, <3>2
  <2>4. CASE AppFails(r)
    <3> DEFINE a == [state |-> "failed", wrote |-> 0]
    <3>1. a \in Applications /\ a.state = "failed" /\ app' = [app EXCEPT ![r] = a]
      BY <2>1, <2>4
    <3> HIDE DEF a
    <3> QED
      BY <3>1
  <2> QED
    BY <2>2, <2>3, <2>4 DEF Writes, AppEnds
<1>2. app' \in [BoundaryRequests -> Applications] /\ app'[r] = a
      /\ \A q \in BoundaryRequests \ {r} : app'[q] = app[q]
  BY <1>1 DEF BoundaryInv, BoundaryTyped
<1>3. BoundaryTyped'
  BY <1>0, <1>2 DEF BoundaryInv, BoundaryTyped
<1>4. Shares'
  BY <1>0, NobodyLeaves DEF BoundaryInv, IsServed
<1>5. Sees(r)'
  BY <1>0, SameViews DEF BoundaryInv, Sees, IsServed
<1>6. Answers(r)'
  BY <1>0, <1>1, <1>2 DEF Answers
<1> QED
  BY <1>0, <1>2, <1>3, <1>4, <1>5, <1>6, OthersStay DEF BoundaryInv

\* A step of the guard that keeps its slot: it goes on to cancel or to send.
LEMMA GuardKeeps ==
  ASSUME BoundaryInv, NEW r \in BoundaryRequests, IsServed(r), NEW v \in ServedRecords,
         v.phase \in InService, v.scope = serving[r].scope, v.sees = serving[r].sees,
         serving' = [serving EXCEPT ![r] = v],
         NEW b \in Replies, reply' = [reply EXCEPT ![r] = b], Answers(r)',
         pumped' \in [BoundaryRequests -> Pumps], UNCHANGED <<config, app, held, perKey>>
  PROVE  BoundaryInv'
<1>1. /\ serving'[r] = v /\ serving' \in [BoundaryRequests -> ServedRecords]
      /\ reply'[r] = b /\ reply' \in [BoundaryRequests -> Replies]
      /\ \A q \in BoundaryRequests \ {r} :
           serving'[q] = serving[q] /\ app'[q] = app[q] /\ reply'[q] = reply[q]
  BY DEF BoundaryInv, BoundaryTyped
<1>2. BoundaryTyped'
  BY <1>1 DEF BoundaryInv, BoundaryTyped
<1>3. Shares'
  BY <1>1, NobodyLeaves DEF BoundaryInv, IsServed
<1>4. Sees(r)'
  BY <1>1, SameViews DEF BoundaryInv, Sees, IsServed
<1> QED
  BY <1>1, <1>2, <1>3, <1>4, OthersStay DEF BoundaryInv

\* A step on which the request is over and returns its slot.
LEMMA LeaveKeeps ==
  ASSUME BoundaryInv, NEW r \in BoundaryRequests, IsServed(r),
         NEW why \in {"none", "bound", "disconnected", "server"}, Leave(r, why),
         NEW b \in Replies, reply' = [reply EXCEPT ![r] = b],
         b.times <= 1, why \notin {"disconnected", "server"} => b.times = 1,
         b.kind = "whole" => reply[r].kind = "whole",
         pumped' \in [BoundaryRequests -> Pumps], UNCHANGED <<config, app>>
  PROVE  BoundaryInv'
<1> DEFINE v == [NotServed EXCEPT !.phase = "over", !.why = why]
<1>1. v \in ServedRecords /\ v.phase = "over" /\ v.why = why
  BY DEF ServedRecords, Phases, NotServed
<1>2. serving' = [serving EXCEPT ![r] = v] /\ Release(CallerKey(serving[r].scope))
  BY DEF Leave
<1> HIDE DEF v
<1>3. /\ serving'[r] = v /\ serving' \in [BoundaryRequests -> ServedRecords]
      /\ reply'[r] = b /\ reply' \in [BoundaryRequests -> Replies]
      /\ \A q \in BoundaryRequests \ {r} :
           serving'[q] = serving[q] /\ app'[q] = app[q] /\ reply'[q] = reply[q]
  BY <1>1, <1>2 DEF BoundaryInv, BoundaryTyped
<1>4. ~IsServed(r)' /\ serving[r].scope \in AllScopes /\ Answers(r)
  BY <1>1, <1>3 DEF IsServed, InService, BoundaryInv, Sees
<1>5. Shares' /\ held' \in Nat /\ perKey' \in [Keys -> Nat]
  BY <1>2, <1>3, <1>4, OneLeaves DEF BoundaryInv
<1>6. BoundaryTyped'
  BY <1>3, <1>5 DEF BoundaryInv, BoundaryTyped
<1>7. Sees(r)' /\ Answers(r)'
  BY <1>1, <1>3, <1>4 DEF Sees, Answers
<1> QED
  BY <1>3, <1>5, <1>6, <1>7, OthersStay DEF BoundaryInv

\* What is known of a request whose guard takes a step.
LEMMA GuardFacts ==
  ASSUME BoundaryInv, NEW r \in BoundaryRequests
  PROVE  /\ serving[r] \in ServedRecords /\ reply[r] \in Replies /\ pumped[r] \in Pumps /\ Answers(r)
         /\ serving \in [BoundaryRequests -> ServedRecords] /\ reply \in [BoundaryRequests -> Replies]
         /\ pumped \in [BoundaryRequests -> Pumps]
         /\ Stopped(r) => pumped' \in [BoundaryRequests -> Pumps]
<1>1. [state |-> "closed", read |-> 0] \in Pumps
  BY DEF Pumps
<1> QED
  BY <1>1 DEF BoundaryInv, BoundaryTyped, Stopped

LEMMA SendsKeep ==
  ASSUME BoundaryInv, NEW r \in BoundaryRequests, serving[r].phase \in {"serving", "cancelling"},
         serving[r].why \in {"none", "bound"}, NEW kind \in {"rejected", "whole"},
         kind = "whole" => app[r].state = "finished", Sends(r, kind),
         pumped' \in [BoundaryRequests -> Pumps], UNCHANGED <<config, app, held, perKey>>
  PROVE  BoundaryInv'
<1> DEFINE v == [serving[r] EXCEPT !.phase = "sending"]
           b == [kind |-> kind, times |-> reply[r].times + 1]
<1>1. /\ v \in ServedRecords /\ v.phase = "sending" /\ v.scope = serving[r].scope
      /\ v.sees = serving[r].sees /\ v.why = serving[r].why
  BY GuardFacts DEF ServedRecords, Phases, InService
<1>2. b \in Replies /\ b.kind = kind /\ b.times = 1
  BY GuardFacts DEF Replies, Answers
<1>3. serving' = [serving EXCEPT ![r] = v] /\ reply' = [reply EXCEPT ![r] = b]
  BY DEF Sends
<1> HIDE DEF v, b
<1>4. serving'[r] = v /\ reply'[r] = b
  BY <1>3, GuardFacts
<1>5. Answers(r)'
  BY <1>1, <1>2, <1>4, GuardFacts DEF Answers
<1>6. IsServed(r) /\ v.phase \in InService
  BY <1>1 DEF IsServed, InService
<1> QED
  BY <1>1, <1>2, <1>3, <1>5, <1>6, GuardKeeps

LEMMA CancelsKeep ==
  ASSUME BoundaryInv, NEW r \in BoundaryRequests, serving[r].phase = "serving",
         NEW why \in {"bound", "disconnected", "server"},
         serving' = [serving EXCEPT ![r].phase = "cancelling", ![r].why = why],
         pumped' \in [BoundaryRequests -> Pumps], UNCHANGED <<config, app, reply, held, perKey>>
  PROVE  BoundaryInv'
<1> DEFINE v == [serving[r] EXCEPT !.phase = "cancelling", !.why = why]
<1>1. /\ v \in ServedRecords /\ v.phase = "cancelling" /\ v.scope = serving[r].scope
      /\ v.sees = serving[r].sees /\ v.why = why
  BY GuardFacts DEF ServedRecords, Phases, InService
<1>2. serving' = [serving EXCEPT ![r] = v]
  BY GuardFacts
<1> HIDE DEF v
<1>3. reply' = [reply EXCEPT ![r] = reply[r]] /\ serving'[r] = v
  BY <1>2, GuardFacts
<1>4. Answers(r)'
  BY <1>1, <1>3, GuardFacts DEF Answers
<1>5. IsServed(r) /\ v.phase \in InService
  BY <1>1 DEF IsServed, InService
<1> QED
  BY <1>1, <1>2, <1>3, <1>4, <1>5, GuardFacts, GuardKeeps

LEMMA ServerCancelsKeep ==
  ASSUME BoundaryInv, NEW r \in BoundaryRequests, ServerCancels(r)
  PROVE  BoundaryInv'
<1>1. CASE serving[r].phase = "serving"
  <2>1. /\ serving' = [serving EXCEPT ![r].phase = "cancelling", ![r].why = "server"]
        /\ Stopped(r) /\ UNCHANGED <<config, app, held, perKey, reply>>
    BY <1>1 DEF ServerCancels
  <2> QED
    BY <1>1, <2>1, GuardFacts, CancelsKeep
<1>2. CASE serving[r].phase \in {"cancelling", "sending"}
  <2> DEFINE b == [reply[r] EXCEPT !.kind = IF serving[r].phase = "sending" THEN "cut" ELSE @]
  <2>1. /\ reply' = [reply EXCEPT ![r].kind = IF serving[r].phase = "sending" THEN "cut" ELSE @]
        /\ Leave(r, "server") /\ UNCHANGED <<pumped, config, app>>
    BY <1>2 DEF ServerCancels
  <2>2. /\ b \in Replies /\ b.times = reply[r].times
        /\ b.kind = IF serving[r].phase = "sending" THEN "cut" ELSE reply[r].kind
    BY GuardFacts DEF Replies
  <2>3. reply' = [reply EXCEPT ![r] = b]
    BY <2>1
  <2>4. b.times <= 1 /\ IsServed(r) /\ (b.kind = "whole" => reply[r].kind = "whole")
    BY <1>2, <2>2, GuardFacts DEF Answers, IsServed, InService
  <2> HIDE DEF b
  <2> QED
    BY <2>1, <2>2, <2>3, <2>4, GuardFacts, LeaveKeeps
<1> QED
  BY <1>1, <1>2 DEF ServerCancels

LEMMA ServeKeeps ==
  ASSUME BoundaryInv, NEW r \in BoundaryRequests,
         Completes(r) \/ WaitEnds(r) \/ CancellationEnds(r) \/ Sent(r)
  PROVE  BoundaryInv'
<1>0. reply' = reply => reply' = [reply EXCEPT ![r] = reply[r]]
  BY GuardFacts
<1>1. CASE Completes(r)
  <2>1. serving[r].why = "none"
    BY <1>1, GuardFacts DEF Completes, Answers
  <2>2. Outcome(r) \in {"rejected", "whole"} /\ (Outcome(r) = "whole" => app[r].state = "finished")
    BY DEF Outcome
  <2> QED
    BY <1>1, <2>1, <2>2, GuardFacts, SendsKeep DEF Completes
<1>2. CASE WaitEnds(r)
  <2>1. PICK why \in {"bound", "disconnected", "server"} :
          serving' = [serving EXCEPT ![r].phase = "cancelling", ![r].why = why]
    BY <1>2 DEF WaitEnds
  <2> QED
    BY <1>2, <2>1, GuardFacts, CancelsKeep DEF WaitEnds
<1>3. CASE CancellationEnds(r) /\ serving[r].why \in {"disconnected", "server"}
  <2>1. Leave(r, serving[r].why) /\ UNCHANGED <<reply, config, pumped, app>>
        /\ serving[r].phase = "cancelling"
    BY <1>3 DEF CancellationEnds
  <2>2. IsServed(r) /\ reply[r].times <= 1
    BY <2>1, GuardFacts DEF Answers, IsServed, InService, Replies
  <2> QED
    BY <1>0, <1>3, <2>1, <2>2, GuardFacts, LeaveKeeps
<1>4. CASE CancellationEnds(r) /\ serving[r].why \notin {"disconnected", "server"}
  <2>1. Sends(r, "rejected") /\ UNCHANGED <<config, pumped, app, held, perKey>>
        /\ serving[r].phase = "cancelling"
    BY <1>4 DEF CancellationEnds
  <2>2. serving[r].why \in {"none", "bound"}
    BY <1>4, GuardFacts DEF ServedRecords
  <2> QED
    BY <2>1, <2>2, GuardFacts, SendsKeep
<1>5. CASE Sent(r)
  <2>1. Leave(r, serving[r].why) /\ UNCHANGED <<reply, config, pumped, app>>
        /\ serving[r].phase = "sending"
    BY <1>5 DEF Sent
  <2>2. IsServed(r) /\ reply[r].times = 1 /\ serving[r].why \in {"none", "bound"}
    BY <2>1, GuardFacts DEF Answers, IsServed, InService
  <2> QED
    BY <1>0, <2>1, <2>2, GuardFacts, LeaveKeeps
<1> QED
  BY <1>1, <1>2, <1>3, <1>4, <1>5

LEMMA BoundaryInvInit ==
  BoundaryInit => BoundaryInv
<1> SUFFICES ASSUME BoundaryInit
             PROVE  BoundaryInv
  OBVIOUS
<1>1. BoundaryTyped
  <2>1. NotServed \in ServedRecords
    BY DEF NotServed, ServedRecords, Phases
  <2>2. [state |-> "none", read |-> 0] \in Pumps
    BY DEF Pumps
  <2>3. [state |-> "none", wrote |-> 0] \in Applications
    BY DEF Applications
  <2>4. [kind |-> "none", times |-> 0] \in Replies
    BY DEF Replies
  <2> QED
    BY <2>1, <2>2, <2>3, <2>4, BoundaryAssumption DEF BoundaryInit, BoundaryTyped
<1>2. \A r \in BoundaryRequests : ~IsServed(r) /\ serving[r].phase = "new" /\ serving[r].why = "none"
  BY DEF BoundaryInit, NotServed, IsServed, InService
<1>3. AllServed = {} /\ \A k \in Keys : Serving(k) = {}
  BY <1>2 DEF AllServed, Serving, IsServed
<1>4. Shares
  BY <1>3, FS_EmptySet, BoundaryAssumption DEF BoundaryInit, Shares
<1>5. \A r \in BoundaryRequests : Sees(r) /\ Answers(r)
  BY <1>2 DEF BoundaryInit, Sees, Answers
<1> QED
  BY <1>1, <1>4, <1>5 DEF BoundaryInv

LEMMA BoundaryInvStep ==
  BoundaryInv /\ [BoundaryNext]_boundaryVars => BoundaryInv'
<1> SUFFICES ASSUME BoundaryInv, [BoundaryNext]_boundaryVars
             PROVE  BoundaryInv'
  OBVIOUS
<1>1. ASSUME NEW r \in BoundaryRequests, BoundaryStep(r)
      PROVE  BoundaryInv'
  BY <1>1, ArriveKeeps, ChunkKeeps, AppKeeps, ServeKeeps, ServerCancelsKeep DEF BoundaryStep
<1>2. CASE Drains \/ UNCHANGED boundaryVars
  <2>1. pumped' \in [BoundaryRequests -> Pumps] /\ UNCHANGED <<config, serving, app, reply, held, perKey>>
    BY <1>2 DEF Drains, boundaryVars, BoundaryInv, BoundaryTyped
  <2> QED
    BY <2>1, PumpKeeps
<1> QED
  BY <1>1, <1>2 DEF BoundaryNext

LEMMA BoundaryInvariant == BoundarySpec => []BoundaryInv
BY BoundaryInvInit, BoundaryInvStep, PTL DEF BoundarySpec

\* Client, host, subject and caller of a request come from the server or from a
\* proxy that is trusted to say so, whatever its headers are; no forged header
\* reaches the application (evaluate_request, sanitize_scope).
THEOREM NobodySpeaksForAnother == BoundarySpec => []IdentityIsNotTheClients
<1>1. BoundaryInv => IdentityIsNotTheClients
  BY SanitizedIdentity DEF BoundaryInv, Sees, IsServed, IdentityIsNotTheClients
<1> QED
  BY <1>1, BoundaryInvariant, PTL

\* Slots are counted exactly through every exit of a request, and neither the
\* host nor a caller has more than its limit (A2AConcurrencyLimiter).
THEOREM EveryCallerGetsItsShare == BoundarySpec => []SharesAreExact
<1>1. BoundaryInv => SharesAreExact
  <2>1. AllServed = {r \in BoundaryRequests : serving[r].phase \in InService}
    BY DEF AllServed, IsServed
  <2> QED
    BY <2>1 DEF BoundaryInv, Shares, SharesAreExact
<1> QED
  BY <1>1, BoundaryInvariant, PTL

\* A client that stayed is answered once, and with a response of the
\* application only if the application returned it within its bound
\* (_serve, _complete, _cancel, _ResponseBuffer).
THEOREM AnsweredOnce == BoundarySpec => []AnsweredOnceAndWhole
<1>1. BoundaryInv => AnsweredOnceAndWhole
  <2> SUFFICES ASSUME BoundaryInv, NEW r \in BoundaryRequests
               PROVE  /\ reply[r].times <= 1
                      /\ serving[r].phase = "over" /\ serving[r].why \notin {"disconnected", "server"}
                           => reply[r].times = 1
                      /\ reply[r].kind = "whole" =>
                           app[r].state = "finished" /\ app[r].wrote \in 1 .. MaxResponse
    BY DEF AnsweredOnceAndWhole
  <2>1. Answers(r) /\ serving[r].phase \in Phases /\ reply[r].times \in Nat
    BY GuardFacts DEF ServedRecords, Replies
  <2> QED
    BY <2>1 DEF Answers, Phases, InService
<1> QED
  BY <1>1, BoundaryInvariant, PTL

-----------------------------------------------------------------------------
(***************************************************************************)
(* The MCP host: its state, and the invariant.                              *)
(***************************************************************************)
CallRecords ==
  [stage : {"idle", "authenticating", "accepted", "running", "cancelling"} \cup Ended,
   principal : Principals \cup {NoOne}, session : Sessions \cup {NoOne},
   rid : RequestIds \cup {NoOne}]
OpeningRecords ==
  [stage : {"idle", "authenticating", "limited", "opening", "open", "failed"},
   principal : Principals \cup {NoOne}, kept : BOOLEAN]

McpTyped ==
  /\ transport \in {"http", "stdio"} /\ draining \in BOOLEAN /\ closed \in BOOLEAN
  /\ stopping \in {"no", "draining", "drained", "closing", "gathering", "closed"}
  /\ bound \in [Sessions -> Principals \cup {NoOne}]
  /\ counted \in [Principals -> SUBSET Sessions]
  /\ replayIds \in [Sessions -> SUBSET RequestIds]
  /\ inFlight \in [Sessions -> Nat \cup {Absent}]
  /\ active \subseteq Calls /\ alive \subseteq Sessions /\ minted \subseteq Sessions
  /\ opening \in [Openings -> OpeningRecords]
  /\ call \in [Calls -> CallRecords]
  /\ ran \in [Calls -> SUBSET (Sessions \X RequestIds)]

\* A request over HTTP names a session that was opened.
Named ==
  transport = "http" =>
    \A c \in Calls : ~InStage(c, "idle") => call[c].session \in minted /\ call[c].rid \in RequestIds

\* How far the host is with its close.
Lives ==
  /\ transport = "http" => stopping \in {"no", "gathering", "closed"}
  /\ transport = "http" => (closed <=> stopping # "no")
  /\ stopping \in {"gathering", "closed"} => closed

\* Places are those of the calls that run; a closed host has no table of them.
InSession(s) == {c \in UnfinishedCalls : call[c].session = s}
Placed ==
  transport = "http" =>
    \A s \in Sessions : IF closed THEN inFlight[s] = Absent
                                  ELSE InFlightOf(s) = Cardinality(InSession(s))

\* An accepted call is one of the session's own principal.
Identified ==
  transport = "http" =>
    \A c \in Calls : call[c].stage \in {"accepted", "running", "cancelling"} =>
                       closed \/ bound[call[c].session] = call[c].principal

\* What ran is remembered until the close, and no two calls ran the same.
Replayed ==
  transport = "http" =>
    /\ closed \/ \A c \in Calls : \A x \in ran[c] : x[2] \in replayIds[x[1]]
    /\ \A c, d \in Calls : c # d => ran[c] \cap ran[d] = {}

McpInv ==
  /\ McpTyped /\ Named /\ Lives /\ Placed /\ Identified /\ Replayed
  /\ ClosedMeansOver

-----------------------------------------------------------------------------
(***************************************************************************)
(* Types, and sessions that exist.                                          *)
(***************************************************************************)
LEMMA MovedCall ==
  ASSUME McpTyped, NEW c \in Calls, NEW stage \in {"running", "cancelling", "accepted"} \cup Ended,
         Goes(c, stage)
  PROVE  /\ call' \in [Calls -> CallRecords]
         /\ call'[c].stage = stage /\ call'[c].session = call[c].session
         /\ call'[c].principal = call[c].principal /\ call'[c].rid = call[c].rid
         /\ \A d \in Calls \ {c} : call'[d] = call[d]
<1> DEFINE v == [call[c] EXCEPT !.stage = stage]
<1>1. call[c] \in CallRecords
  BY DEF McpTyped
<1>2. /\ v \in CallRecords /\ v.stage = stage /\ v.session = call[c].session
      /\ v.principal = call[c].principal /\ v.rid = call[c].rid
  BY <1>1 DEF CallRecords
<1>3. call' = [call EXCEPT ![c] = v]
  BY DEF Goes
<1> HIDE DEF v
<1> QED
  BY <1>2, <1>3 DEF McpTyped

LEMMA CancelledCalls ==
  ASSUME McpTyped, NEW tasks, call' = CancelledCall(tasks)
  PROVE  /\ call' \in [Calls -> CallRecords]
         /\ \A c \in Calls : /\ call'[c].session = call[c].session
                             /\ call'[c].principal = call[c].principal /\ call'[c].rid = call[c].rid
                             /\ \/ call'[c].stage = call[c].stage
                                \/ call[c].stage = "running" /\ call'[c].stage = "cancelling"
<1> SUFFICES ASSUME NEW c \in Calls
             PROVE  /\ call'[c] \in CallRecords
                    /\ call'[c].session = call[c].session
                    /\ call'[c].principal = call[c].principal /\ call'[c].rid = call[c].rid
                    /\ \/ call'[c].stage = call[c].stage
                       \/ call[c].stage = "running" /\ call'[c].stage = "cancelling"
  BY DEF CancelledCall
<1>1. call[c] \in CallRecords
  BY DEF McpTyped
<1>2. call'[c] = IF c \in tasks /\ InStage(c, "running") THEN [call[c] EXCEPT !.stage = "cancelling"]
                 ELSE call[c]
  BY DEF CancelledCall
<1> QED
  BY <1>1, <1>2 DEF CallRecords, InStage

\* The steps of initialize requests and sessions.
OpeningStep ==
  \/ \E o \in Openings : \/ CheckLimit(o) \/ NotOpened(o)
                         \/ (\E p \in Principals : ArriveOpening(o, p))
                         \/ (\E s \in Sessions : Opened(o, s))
  \/ \E s \in Sessions : SessionEnds(s)

LEMMA OpeningTyped ==
  ASSUME McpTyped, OpeningStep
  PROVE  /\ McpTyped' /\ UNCHANGED <<transport, life, replayIds, inFlight, call, ran>>
         /\ minted \subseteq minted'
         /\ \A s \in minted : bound'[s] = bound[s]
<1>1. ASSUME NEW o \in Openings, CheckLimit(o) \/ NotOpened(o) \/ \E p \in Principals : ArriveOpening(o, p)
      PROVE  /\ opening' \in [Openings -> OpeningRecords]
             /\ UNCHANGED <<transport, life, tables, active, alive, minted, call, ran>>
  <2>1. opening[o] \in OpeningRecords
    BY DEF McpTyped
  <2>2. PICK v \in OpeningRecords : opening' = [opening EXCEPT ![o] = v]
    <3>1. ASSUME NEW stage \in {"limited", "opening", "failed"}
          PROVE  [opening[o] EXCEPT !.stage = stage] \in OpeningRecords
      BY <2>1 DEF OpeningRecords
    <3>2. ASSUME NEW p \in Principals
          PROVE  [stage |-> "authenticating", principal |-> p, kept |-> TRUE] \in OpeningRecords
      BY DEF OpeningRecords
    <3> QED
      BY <1>1, <3>1, <3>2 DEF CheckLimit, NotOpened, ArriveOpening
  <2> QED
    BY <1>1, <2>2 DEF CheckLimit, NotOpened, ArriveOpening, McpTyped
<1>2. ASSUME NEW o \in Openings, NEW s \in Sessions, Opened(o, s)
      PROVE  /\ McpTyped' /\ UNCHANGED <<transport, life, replayIds, inFlight, call, ran>>
             /\ minted \subseteq minted'
             /\ \A x \in minted : bound'[x] = bound[x]
  <2> DEFINE v == [opening[o] EXCEPT !.stage = "open"]
             p == opening[o].principal
  <2>1. opening[o] \in OpeningRecords
    BY DEF McpTyped
  <2>2. v \in OpeningRecords /\ p \in Principals \cup {NoOne}
    BY <2>1 DEF OpeningRecords
  <2>3. opening' = [opening EXCEPT ![o] = v] /\ bound' = [bound EXCEPT ![s] = p]
        /\ counted' = IF opening[o].kept THEN [counted EXCEPT ![p] = @ \cup {s}] ELSE counted
    BY <1>2 DEF Opened
  <2>4. /\ UNCHANGED <<transport, life, replayIds, inFlight, active, call, ran>>
        /\ minted' = minted \cup {s} /\ alive' = alive \cup {s} /\ s \notin minted
    BY <1>2 DEF Opened
  <2> HIDE DEF v
  <2>5. counted' \in [Principals -> SUBSET Sessions]
    BY <2>3 DEF McpTyped
  <2>6. opening' \in [Openings -> OpeningRecords] /\ bound' \in [Sessions -> Principals \cup {NoOne}]
    BY <2>2, <2>3 DEF McpTyped
  <2>7. \A x \in minted : bound'[x] = bound[x]
    BY <2>3, <2>4 DEF McpTyped
  <2> QED
    BY <2>4, <2>5, <2>6, <2>7 DEF McpTyped, life
<1>3. ASSUME NEW s \in Sessions, SessionEnds(s)
      PROVE  /\ alive' \subseteq Sessions
             /\ UNCHANGED <<transport, life, tables, active, minted, opening, call, ran>>
  BY <1>3 DEF SessionEnds, McpTyped
<1>4. ASSUME UNCHANGED <<transport, life, tables, active, minted, call, ran>>,
             opening' \in [Openings -> OpeningRecords], alive' \subseteq Sessions
      PROVE  /\ McpTyped' /\ UNCHANGED <<transport, life, replayIds, inFlight, call, ran>>
             /\ minted \subseteq minted'
             /\ \A x \in minted : bound'[x] = bound[x]
  BY <1>4 DEF McpTyped, life, tables
<1>5. ASSUME NEW o \in Openings, CheckLimit(o) \/ NotOpened(o) \/ \E p \in Principals : ArriveOpening(o, p)
      PROVE  /\ McpTyped' /\ UNCHANGED <<transport, life, replayIds, inFlight, call, ran>>
             /\ minted \subseteq minted'
             /\ \A x \in minted : bound'[x] = bound[x]
  BY <1>1, <1>4, <1>5 DEF McpTyped
<1>6. ASSUME NEW s \in Sessions, SessionEnds(s)
      PROVE  /\ McpTyped' /\ UNCHANGED <<transport, life, replayIds, inFlight, call, ran>>
             /\ minted \subseteq minted'
             /\ \A x \in minted : bound'[x] = bound[x]
  BY <1>3, <1>4, <1>6 DEF McpTyped
<1> QED
  BY <1>2, <1>5, <1>6 DEF OpeningStep

(***************************************************************************)
(* Calls: who runs, in which session.                                       *)
(***************************************************************************)
LEMMA InSessionFinite ==
  ASSUME NEW s
  PROVE  IsFiniteSet(InSession(s)) /\ Cardinality(InSession(s)) \in Nat
<1>1. InSession(s) \in SUBSET Calls
  BY DEF InSession, UnfinishedCalls
<1> QED
  BY <1>1, McpAssumption, FS_Subset, FS_CardinalityType

\* What is left to show of a step on which the same calls run.
LEMMA SameCallsRun ==
  ASSUME McpInv, McpTyped', Named', Lives', UNCHANGED <<transport, closed, bound, inFlight, replayIds, ran>>,
         \A c \in Calls : /\ call[c].stage \in {"running", "cancelling"} <=>
                             call'[c].stage \in {"running", "cancelling"}
                          /\ call'[c].stage \in {"running", "cancelling"} =>
                               call'[c].session = call[c].session /\ call'[c].principal = call[c].principal
                          /\ transport = "http" /\ call'[c].stage = "accepted" =>
                               closed \/ bound[call'[c].session] = call'[c].principal,
         stopping' = stopping \/ (stopping' = "closed" => AllOver)
  PROVE  McpInv'
<1>1. UnfinishedCalls' = UnfinishedCalls
  BY DEF UnfinishedCalls, InStage
<1>2. \A s \in Sessions : InSession(s)' = InSession(s)
  BY <1>1 DEF InSession, UnfinishedCalls
<1>3. Placed'
  BY <1>2 DEF McpInv, Placed, InFlightOf
<1>4. Identified'
  BY DEF McpInv, Identified
<1>5. Replayed'
  BY DEF McpInv, Replayed
<1>6. ClosedMeansOver'
  BY <1>1 DEF McpInv, ClosedMeansOver, AllOver
<1> QED
  BY <1>3, <1>4, <1>5, <1>6 DEF McpInv

LEMMA OpeningKeeps ==
  ASSUME McpInv, OpeningStep
  PROVE  McpInv'
<1>1. /\ McpTyped' /\ UNCHANGED <<transport, life, replayIds, inFlight, call, ran>>
      /\ minted \subseteq minted' /\ \A s \in minted : bound'[s] = bound[s]
  BY OpeningTyped DEF McpInv
<1>2. Named' /\ Lives'
  BY <1>1 DEF McpInv, Named, Lives, InStage, life
<1>3. \A s : InSession(s)' = InSession(s) /\ UnfinishedCalls' = UnfinishedCalls
  BY <1>1 DEF InSession, UnfinishedCalls
<1>4. Placed' /\ Replayed' /\ ClosedMeansOver'
  BY <1>1, <1>3 DEF McpInv, Placed, InFlightOf, Replayed, ClosedMeansOver, life
<1>5. Identified'
  <2> SUFFICES ASSUME transport = "http", NEW c \in Calls, ~closed,
                      call[c].stage \in {"accepted", "running", "cancelling"}
               PROVE  bound'[call[c].session] = call[c].principal
    BY <1>1 DEF Identified, life
  <2>1. call[c].session \in minted
    BY DEF McpInv, Named, InStage
  <2> QED
    BY <1>1, <2>1 DEF McpInv, Identified
<1> QED
  BY <1>1, <1>2, <1>4, <1>5 DEF McpInv

LEMMA WaitingKeeps ==
  ASSUME McpInv, NEW c \in Calls,
         \/ \E p \in Principals, s \in Sessions, r \in RequestIds : ArriveCall(c, p, s, r)
         \/ Identify(c) \/ Refuse(c)
  PROVE  McpInv'
<1>0. McpTyped /\ call[c] \in CallRecords
  BY DEF McpInv, McpTyped
<1>1. UNCHANGED <<transport, life, tables, active, alive, minted, opening, ran>>
  BY DEF ArriveCall, Identify, Refuse
<1>2. /\ call' \in [Calls -> CallRecords]
      /\ call[c].stage \notin {"running", "cancelling"} /\ call'[c].stage \notin {"running", "cancelling"}
      /\ \A d \in Calls \ {c} : call'[d] = call[d]
      /\ transport = "http" => call'[c].session \in minted /\ call'[c].rid \in RequestIds
      /\ transport = "http" /\ call'[c].stage = "accepted" => bound[call'[c].session] = call'[c].principal
  <2>1. ASSUME NEW p \in Principals, NEW s \in Sessions, NEW r \in RequestIds, ArriveCall(c, p, s, r)
        PROVE  <1>2!:
    <3>1. PICK v \in CallRecords :
            /\ call' = [call EXCEPT ![c] = v] /\ v.stage \in {"accepted", "authenticating"}
            /\ transport = "http" => v.stage = "authenticating" /\ v.session = s /\ v.rid = r /\ s \in minted
      <4>1. transport \in {"http", "stdio"}
        BY <1>0 DEF McpTyped
      <4>2. CASE transport = "stdio"
        <5> DEFINE v == [NoCall EXCEPT !.stage = "accepted"]
        <5>1. v \in CallRecords /\ v.stage = "accepted"
          BY DEF NoCall, CallRecords
        <5>2. call' = [call EXCEPT ![c] = v]
          BY <2>1, <4>2 DEF ArriveCall
        <5> HIDE DEF v
        <5> QED
          BY <4>2, <5>1, <5>2
      <4>3. CASE transport = "http"
        <5> DEFINE v == [stage |-> "authenticating", principal |-> p, session |-> s, rid |-> r]
        <5>1. v \in CallRecords /\ v.stage = "authenticating" /\ v.session = s /\ v.rid = r
          BY DEF CallRecords
        <5>2. call' = [call EXCEPT ![c] = v] /\ s \in minted
          BY <2>1, <4>3 DEF ArriveCall
        <5> HIDE DEF v
        <5> QED
          BY <4>3, <5>1, <5>2
      <4> QED
        BY <4>1, <4>2, <4>3
    <3>2. call[c].stage = "idle"
      BY <2>1 DEF ArriveCall, InStage
    <3> QED
      BY <1>0, <3>1, <3>2 DEF McpTyped
  <2>2. CASE Identify(c) \/ Refuse(c)
    <3>1. PICK stage \in {"accepted", "refused"} :
            /\ Goes(c, stage) /\ call[c].stage \in {"authenticating", "accepted"}
            /\ stage = "accepted" => SameIdentity(c)
      BY <2>2 DEF Identify, Refuse, InStage
    <3>2. transport = "http" => call[c].session \in minted /\ call[c].rid \in RequestIds
      BY <3>1 DEF McpInv, Named, InStage
    <3> QED
      BY <1>0, <3>1, <3>2, MovedCall DEF SameIdentity, Ended
  <2> QED
    BY <2>1, <2>2
<1>3. McpTyped'
  BY <1>0, <1>1, <1>2 DEF McpTyped, life, tables
<1>4. Named' /\ Lives'
  BY <1>1, <1>2 DEF McpInv, Named, Lives, InStage, life
<1>5. \A d \in Calls : transport = "http" /\ call'[d].stage = "accepted" =>
        closed \/ bound[call'[d].session] = call'[d].principal
  BY <1>2 DEF McpInv, Identified
<1> QED
  BY <1>1, <1>2, <1>3, <1>4, <1>5, SameCallsRun DEF life, tables

\* Cancelling calls, or telling the host how far it is, changes nobody who runs.
LEMMA CancellingKeeps ==
  ASSUME McpInv, call' = call \/ (\E c \in Calls : ClientCancels(c)) \/ call' = CancelledCall(active),
         UNCHANGED <<transport, tables, active, alive, minted, opening, ran>>,
         Lives', draining' \in BOOLEAN, UNCHANGED closed,
         stopping' \in {"no", "draining", "drained", "closing", "gathering", "closed"},
         stopping' = stopping \/ (stopping' = "closed" => AllOver)
  PROVE  McpInv'
<1>0. McpTyped
  BY DEF McpInv
<1>1. /\ call' \in [Calls -> CallRecords]
      /\ \A c \in Calls : /\ call'[c].session = call[c].session
                          /\ call'[c].principal = call[c].principal /\ call'[c].rid = call[c].rid
                          /\ \/ call'[c].stage = call[c].stage
                             \/ call[c].stage = "running" /\ call'[c].stage = "cancelling"
  <2>1. CASE call' = call
    BY <1>0, <2>1 DEF McpTyped
  <2>2. ASSUME NEW c \in Calls, ClientCancels(c)
        PROVE  <1>1!:
    BY <1>0, <2>2, MovedCall DEF ClientCancels, InStage
  <2>3. CASE call' = CancelledCall(active)
    BY <1>0, <2>3, CancelledCalls
  <2> QED
    BY <2>1, <2>2, <2>3
<1>2. McpTyped'
  BY <1>0, <1>1 DEF McpTyped, tables
<1>3. Named'
  BY <1>1 DEF McpInv, Named, InStage
<1>4. \A c \in Calls : transport = "http" /\ call'[c].stage = "accepted" =>
        closed \/ bound[call'[c].session] = call'[c].principal
  BY <1>1 DEF McpInv, Identified
<1> QED
  BY <1>1, <1>2, <1>3, <1>4, SameCallsRun DEF tables

LEMMA LifeKeeps ==
  ASSUME McpInv,
         \/ \E c \in Calls : ClientCancels(c)
         \/ HttpDrain \/ HttpClosed \/ StdioClosed \/ \E closing \in BOOLEAN : StdioDrain(closing)
  PROVE  McpInv'
<1>0. Lives /\ McpTyped
  BY DEF McpInv
<1>1. CASE \E c \in Calls : ClientCancels(c)
  BY <1>0, <1>1, CancellingKeeps DEF ClientCancels, Lives, life, McpTyped
<1>2. CASE HttpDrain
  BY <1>0, <1>2, CancellingKeeps DEF HttpDrain, Lives, McpTyped
<1>3. CASE HttpClosed
  BY <1>0, <1>3, CancellingKeeps DEF HttpClosed, Lives, McpTyped
<1>4. CASE StdioClosed
  BY <1>0, <1>4, CancellingKeeps DEF StdioClosed, Lives, McpTyped
<1>5. CASE \E closing \in BOOLEAN : StdioDrain(closing)
  BY <1>0, <1>5, CancellingKeeps DEF StdioDrain, Lives, McpTyped
<1> QED
  BY <1>1, <1>2, <1>3, <1>4, <1>5

\* The grace period of a stdio host ends.
LEMMA GraceKeeps ==
  ASSUME McpInv, GraceOver
  PROVE  McpInv'
<1>0. /\ McpTyped /\ Lives /\ transport = "stdio"
      /\ stopping \in {"draining", "closing"}
  BY DEF McpInv, GraceOver, Lives, McpTyped
<1>1. /\ closed' \in BOOLEAN /\ stopping' \in {"gathering", "drained"}
      /\ stopping' = "gathering" => closed'
      /\ UNCHANGED <<transport, draining, tables, active, alive, minted, opening, ran>>
  BY DEF GraceOver
<1>2. call' \in [Calls -> CallRecords]
  BY <1>0, CancelledCalls DEF GraceOver, McpTyped
<1>3. McpTyped'
  BY <1>0, <1>1, <1>2 DEF McpTyped, tables
<1> QED
  BY <1>0, <1>1, <1>3 DEF McpInv, Named, Lives, Placed, Identified, Replayed, ClosedMeansOver

\* aclose over HTTP drops the tables.
LEMMA HttpCloseKeeps ==
  ASSUME McpInv, HttpClose
  PROVE  McpInv'
<1>0. McpTyped
  BY DEF McpInv
<1>1. /\ call' \in [Calls -> CallRecords]
      /\ \A c \in Calls : /\ call'[c].session = call[c].session /\ call'[c].rid = call[c].rid
                          /\ call[c].stage = "idle" => call'[c].stage = "idle"
  BY <1>0, CancelledCalls DEF HttpClose
<1>2. opening' \in [Openings -> OpeningRecords]
  <2> SUFFICES ASSUME NEW o \in Openings
               PROVE  [opening[o] EXCEPT !.kept = @ /\ opening[o].stage # "opening"] \in OpeningRecords
    BY DEF HttpClose
  <2>1. opening[o] \in OpeningRecords
    BY <1>0 DEF McpTyped
  <2> QED
    BY <2>1 DEF OpeningRecords
<1>3. McpTyped'
  BY <1>0, <1>1, <1>2 DEF HttpClose, McpTyped
<1>4. Named'
  <2>1. \A c \in Calls : call'[c].stage # "idle" => call[c].stage # "idle"
    BY <1>1
  <2> QED
    BY <1>1, <2>1 DEF HttpClose, McpInv, Named, InStage
<1>5. Lives' /\ Placed' /\ Identified' /\ ClosedMeansOver'
  BY DEF HttpClose, Lives, Placed, Identified, ClosedMeansOver
<1>6. Replayed'
  BY DEF HttpClose, McpInv, Replayed
<1> QED
  BY <1>3, <1>4, <1>5, <1>6 DEF McpInv

LEMMA BeginKeeps ==
  ASSUME McpInv, NEW c \in Calls, Begin(c)
  PROVE  McpInv'
<1> DEFINE s == call[c].session
           r == call[c].rid
<1>0. /\ McpTyped /\ Lives /\ ~closed /\ ~draining /\ call[c].stage = "accepted"
      /\ UNCHANGED <<transport, life, bound, counted, alive, minted, opening>>
      /\ transport \in {"http", "stdio"} /\ active' = active \cup {c}
  BY DEF McpInv, Begin, Ready, InStage, McpTyped
<1>1. /\ call' \in [Calls -> CallRecords]
      /\ call'[c].stage = "running" /\ call'[c].session = s /\ call'[c].principal = call[c].principal
      /\ call'[c].rid = r /\ \A d \in Calls \ {c} : call'[d] = call[d]
  BY <1>0, MovedCall DEF Begin
<1>2. Named'
  BY <1>0, <1>1 DEF McpInv, Named, InStage
<1>3. Lives' /\ ClosedMeansOver'
  BY <1>0 DEF Lives, life, ClosedMeansOver
<1>4. Identified'
  BY <1>0, <1>1 DEF McpInv, Identified, life
<1>5. CASE transport = "stdio"
  <2>1. ran' \in [Calls -> SUBSET (Sessions \X RequestIds)] /\ UNCHANGED <<replayIds, inFlight>>
    BY <1>0, <1>5 DEF Begin, McpTyped
  <2>2. McpTyped'
    BY <1>0, <1>1, <2>1 DEF McpTyped, life
  <2> QED
    BY <1>0, <1>2, <1>3, <1>4, <1>5, <2>2 DEF McpInv, Placed, Replayed
<1>6. CASE transport = "http"
  <2>1. /\ s \in Sessions /\ r \in RequestIds
        /\ r \notin replayIds[s]
        /\ replayIds' = [replayIds EXCEPT ![s] = @ \cup {r}]
        /\ inFlight' = [inFlight EXCEPT ![s] = InFlightOf(s) + 1]
        /\ ran' = [ran EXCEPT ![c] = {<<s, r>>}]
    BY <1>0, <1>6 DEF Begin, Admitted, McpInv, McpTyped, Named, InStage
  <2>2. InFlightOf(s) \in Nat
    BY <1>0, <2>1 DEF InFlightOf, McpTyped
  <2>3. /\ replayIds' \in [Sessions -> SUBSET RequestIds]
        /\ inFlight' \in [Sessions -> Nat \cup {Absent}]
        /\ ran' \in [Calls -> SUBSET (Sessions \X RequestIds)]
    BY <1>0, <2>1, <2>2 DEF McpTyped
  <2>4. McpTyped'
    BY <1>0, <1>1, <2>3 DEF McpTyped, life
  <2>5. Placed'
    <3> SUFFICES ASSUME NEW q \in Sessions
                 PROVE  InFlightOf(q)' = Cardinality(InSession(q)')
      BY <1>0 DEF Placed, life
    <3>1. InFlightOf(q) = Cardinality(InSession(q))
      BY <1>0, <1>6 DEF McpInv, Placed
    <3>2. InSession(q)' = (IF q = s THEN InSession(q) \cup {c} ELSE InSession(q)) /\ c \notin InSession(q)
      BY <1>0, <1>1 DEF InSession, UnfinishedCalls, InStage
    <3>3. CASE q = s
      <4>1. InFlightOf(q)' = InFlightOf(q) + 1
        BY <1>0, <2>1, <2>2, <3>3 DEF InFlightOf, McpTyped, Absent
      <4>2. InSession(q)' = InSession(q) \cup {c}
        BY <3>2, <3>3
      <4>3. Cardinality(InSession(q)') = Cardinality(InSession(q)) + 1
        BY <3>2, <4>2, InSessionFinite, FS_AddElement
      <4> QED
        BY <3>1, <4>1, <4>3
    <3>4. CASE q # s
      <4>1. InFlightOf(q)' = InFlightOf(q) /\ InSession(q)' = InSession(q)
        BY <1>0, <2>1, <3>2, <3>4 DEF InFlightOf, McpTyped
      <4> QED
        BY <3>1, <4>1
    <3> QED
      BY <3>3, <3>4
  <2>6. Replayed'
    <3>1. \A d \in Calls : \A x \in ran[d] : x[2] \in replayIds[x[1]]
      BY <1>0, <1>6 DEF McpInv, Replayed
    <3>2. \A d \in Calls \ {c} : ran'[d] = ran[d] /\ <<s, r>> \notin ran[d]
      <4>1. \A d \in Calls : <<s, r>> \notin ran[d]
        BY <2>1, <3>1
      <4> QED
        BY <2>1, <4>1, <1>0 DEF McpTyped
    <3>3. ran'[c] = {<<s, r>>}
      BY <1>0, <2>1 DEF McpTyped
    <3>4. \A d, e \in Calls : d # e => ran'[d] \cap ran'[e] = {}
      <4> SUFFICES ASSUME NEW d \in Calls, NEW e \in Calls, d # e
                   PROVE  ran'[d] \cap ran'[e] = {}
        OBVIOUS
      <4>1. ran[d] \cap ran[e] = {}
        BY <1>6 DEF McpInv, Replayed
      <4>2. CASE d = c
        BY <3>2, <3>3, <4>2
      <4>3. CASE e = c
        BY <3>2, <3>3, <4>3
      <4>4. CASE d # c /\ e # c
        BY <3>2, <4>1, <4>4
      <4> QED
        BY <4>2, <4>3, <4>4
    <3>5. ASSUME NEW d \in Calls, NEW x \in ran'[d]
          PROVE  x[2] \in replayIds'[x[1]]
      <4>1. CASE d = c
        <5>1. x = <<s, r>>
          BY <3>3, <4>1
        <5> QED
          BY <1>0, <2>1, <5>1 DEF McpTyped
      <4>2. CASE d # c
        <5>1. x \in ran[d]
          BY <3>2, <4>2
        <5>2. x \in Sessions \X RequestIds /\ x[2] \in replayIds[x[1]]
          BY <1>0, <3>1, <5>1 DEF McpTyped
        <5> QED
          BY <1>0, <2>1, <5>2 DEF McpTyped
      <4> QED
        BY <4>1, <4>2
    <3> QED
      BY <3>4, <3>5 DEF Replayed
  <2> QED
    BY <1>2, <1>3, <1>4, <2>4, <2>5, <2>6 DEF McpInv
<1> QED
  BY <1>0, <1>5, <1>6

LEMMA EndKeeps ==
  ASSUME McpInv, NEW c \in Calls, EndCall(c) \/ EndCancelled(c)
  PROVE  McpInv'
<1> DEFINE s == call[c].session
<1>0. /\ McpTyped /\ Lives
      /\ call[c].stage \in {"running", "cancelling"}
      /\ UNCHANGED <<transport, life, bound, counted, alive, minted, opening, ran, replayIds>>
      /\ transport \in {"http", "stdio"}
  BY DEF McpInv, EndCall, EndCancelled, Finally, InStage, McpTyped
<1>1. PICK outcome \in {"answered", "cancelled"} : Finally(c, outcome)
  BY DEF EndCall, EndCancelled
<1>2. PICK stage \in {"answered", "cancelled", "crashed"} : Goes(c, stage)
  BY <1>1 DEF Finally
<1>3. /\ call' \in [Calls -> CallRecords] /\ active' \subseteq Calls
      /\ call'[c].stage = stage /\ call'[c].session = s /\ call'[c].rid = call[c].rid
      /\ \A d \in Calls \ {c} : call'[d] = call[d]
  BY <1>0, <1>1, <1>2, MovedCall DEF Ended, Finally, McpTyped
<1>4. Named'
  BY <1>0, <1>3 DEF McpInv, Named, InStage
<1>5. Lives' /\ Replayed'
  BY <1>0 DEF McpInv, Lives, life, Replayed
<1>6. Identified'
  BY <1>0, <1>3 DEF McpInv, Identified, life
<1>7. ClosedMeansOver'
  <2>1. c \in UnfinishedCalls
    BY <1>0 DEF UnfinishedCalls
  <2> QED
    BY <1>0, <2>1 DEF McpInv, ClosedMeansOver, life
<1>8. CASE transport = "stdio"
  <2>1. McpTyped'
    BY <1>0, <1>1, <1>3, <1>8 DEF McpTyped, life, Finally
  <2> QED
    BY <1>0, <1>4, <1>5, <1>6, <1>7, <1>8, <2>1 DEF McpInv, Placed
<1>9. CASE transport = "http" /\ closed
  <2>1. s \in Sessions
    BY <1>0, <1>9 DEF McpInv, McpTyped, Named, InStage
  <2>2. inFlight' = inFlight
    BY <1>1, <1>9, <2>1 DEF McpInv, Placed, Finally
  <2>3. McpTyped'
    BY <1>0, <1>3, <2>2 DEF McpTyped, life
  <2> QED
    BY <1>0, <1>4, <1>5, <1>6, <1>7, <1>9, <2>2, <2>3 DEF McpInv, Placed, life
<1>10. CASE transport = "http" /\ ~closed
  <2>1. s \in Sessions
    BY <1>0, <1>10 DEF McpInv, McpTyped, Named, InStage
  <2>2. \A q \in Sessions : InFlightOf(q) = Cardinality(InSession(q))
    BY <1>10 DEF McpInv, Placed
  <2>3. /\ \A q \in Sessions : InSession(q)' = (IF q = s THEN InSession(q) \ {c} ELSE InSession(q))
        /\ c \in InSession(s)
    BY <1>0, <1>3 DEF InSession, UnfinishedCalls
  <2>4. /\ Cardinality(InSession(s) \ {c}) = Cardinality(InSession(s)) - 1
        /\ Cardinality(InSession(s) \ {c}) \in Nat
    BY <2>3, InSessionFinite, FS_RemoveElement, FS_CardinalityType
  <2>5. inFlight[s] # Absent /\ inFlight[s] = Cardinality(InSession(s)) /\ inFlight[s] - 1 \in Nat
    BY <2>1, <2>2, <2>4, InSessionFinite DEF InFlightOf
  <2>6. inFlight' = [inFlight EXCEPT ![s] = @ - 1]
    BY <1>1, <1>10, <2>5 DEF Finally
  <2>7. McpTyped'
    BY <1>0, <1>3, <2>1, <2>5, <2>6 DEF McpTyped, life
  <2>8. Placed'
    <3> SUFFICES ASSUME NEW q \in Sessions
                 PROVE  InFlightOf(q)' = Cardinality(InSession(q)')
      BY <1>0, <1>10 DEF Placed, life
    <3>1. CASE q = s
      <4>1. inFlight'[q] = inFlight[s] - 1 /\ InSession(q)' = InSession(s) \ {c}
        BY <1>0, <2>1, <2>3, <2>6, <3>1 DEF McpTyped
      <4>2. InFlightOf(q)' = inFlight[s] - 1
        BY <2>5, <4>1 DEF InFlightOf, Absent
      <4> QED
        BY <2>4, <2>5, <4>1, <4>2
    <3>2. CASE q # s
      <4>1. InFlightOf(q)' = InFlightOf(q) /\ InSession(q)' = InSession(q)
        BY <1>0, <2>3, <2>6, <3>2 DEF InFlightOf, McpTyped
      <4> QED
        BY <2>2, <4>1
    <3> QED
      BY <3>1, <3>2
  <2> QED
    BY <1>4, <1>5, <1>6, <1>7, <2>7, <2>8 DEF McpInv
<1> QED
  BY <1>0, <1>8, <1>9, <1>10

LEMMA McpInvInit ==
  McpInit => McpInv
<1> SUFFICES ASSUME McpInit
             PROVE  McpInv
  OBVIOUS
<1>1. McpTyped
  <2>1. NoCall \in CallRecords
    BY DEF NoCall, CallRecords
  <2>2. [stage |-> "idle", principal |-> NoOne, kept |-> TRUE] \in OpeningRecords
    BY DEF OpeningRecords
  <2> QED
    BY <2>1, <2>2, McpAssumption DEF McpInit, McpTyped
<1>2. \A c \in Calls : call[c].stage = "idle"
  BY DEF McpInit, NoCall
<1>3. Named /\ Lives /\ Identified /\ Replayed /\ ClosedMeansOver
  BY <1>2 DEF McpInit, Named, InStage, Lives, Identified, Replayed, ClosedMeansOver
<1>4. Placed
  <2>1. \A s \in Sessions : InSession(s) = {}
    BY <1>2 DEF InSession, UnfinishedCalls
  <2> QED
    BY <2>1, FS_EmptySet DEF McpInit, Placed, InFlightOf
<1> QED
  BY <1>1, <1>3, <1>4 DEF McpInv

LEMMA McpInvStep ==
  McpInv /\ [McpNext]_mcpVars => McpInv'
<1> SUFFICES ASSUME McpInv, [McpNext]_mcpVars
             PROVE  McpInv'
  OBVIOUS
<1>1. CASE UNCHANGED mcpVars
  BY <1>1, CancellingKeeps DEF mcpVars, life, McpInv, McpTyped, Lives
<1> QED
  BY <1>1, OpeningKeeps, WaitingKeeps, BeginKeeps, EndKeeps, LifeKeeps, GraceKeeps, HttpCloseKeeps
  DEF McpNext, OpeningStep

LEMMA McpInvariant == McpSpec => []McpInv
BY McpInvInit, McpInvStep, PTL DEF McpSpec

\* Failed, cancelled and repeated calls leave the places and the request ids of
\* a session right, a call that runs is the session's own principal's, and a
\* closed host runs none (_on_call_tool, drain, aclose).
THEOREM CallsAccounted == McpSpec => []CallsAreAccounted
<1>1. McpInv => CallsAreAccounted
  <2> SUFFICES ASSUME McpInv
               PROVE  CallsAreAccounted
    OBVIOUS
  <2>1. PlacesAreReturned
    BY DEF McpInv, Placed, InSession, PlacesAreReturned
  <2>2. IdsRunOnce
    BY DEF McpInv, Replayed, IdsRunOnce
  <2>3. SessionsServeTheirPrincipal
    BY DEF McpInv, Identified, SessionsServeTheirPrincipal, UnfinishedCalls
  <2> QED
    BY <2>1, <2>2, <2>3 DEF McpInv, CallsAreAccounted
<1> QED
  BY <1>1, McpInvariant, PTL

(***************************************************************************)
(* The A2A host.                                                            *)
(***************************************************************************)
Results == {"input"} \cup Terminal
RequestRecords ==
  [phase : {"idle", "admitted", "evicting", "dispatching", "publishing", "unwinding", "ended"},
   guard : {"waiting", "cancelling", "left"}, task : Tasks \cup {0},
   result : {"none", "input"} \cup Terminal]
StopRecords == [phase : {"idle", "waiting", "cancelling", "sweeping", "done"},
                victims : SUBSET Requests, clean : BOOLEAN, cut : BOOLEAN]

Owning(r) == req[r].phase \in {"dispatching", "publishing", "unwinding"}

\* A request that holds a task names it, and one that will settle it has a result.
Holds(r) ==
  /\ Owning(r) \/ req[r].phase = "evicting" => req[r].task \in Tasks
  /\ req[r].phase \in {"publishing", "unwinding"} => req[r].result \in Results

\* One owner for a task, one at least while it works, and never of a task that
\* is not claimed.
OwnedByOne ==
  \A r1, r2 \in Requests : Owning(r1) /\ Owning(r2) /\ req[r1].task = req[r2].task => r1 = r2
WorkIsOwned ==
  \A t \in Tasks : store[t] = "working" => \E r \in Requests : Owning(r) /\ req[r].task = t
OwnedIsClaimed ==
  \A r \in Requests : Owning(r) => store[req[r].task] \notin {"absent", "submitted", "input"}
OrderedExist == \A i \in 1 .. Len(order) : store[order[i]] # "absent"

\* What a closed host has left: executions that unwind, each one a victim of
\* its close as long as that waits, none when the close saw them all end.
Closing ==
  host = "closed" =>
    LET close == stop["close"] IN
    /\ close.phase \in {"cancelling", "sweeping", "done"}
    /\ \A r \in Requests : req[r].phase \in {"idle", "ended", "unwinding"}
    /\ close.phase = "cancelling" =>
         \A r \in Requests : req[r].phase = "unwinding" => r \in close.victims
    /\ close.phase \in {"sweeping", "done"} /\ close.clean =>
         \A r \in Requests : req[r].phase # "unwinding"
    /\ close.phase = "done" /\ close.clean /\ ~close.cut =>
         \A t \in Tasks : store[t] \notin ActiveStates

HostInv ==
  /\ TypeOK /\ \A r \in Requests : Holds(r)
  /\ OwnedByOne /\ WorkIsOwned /\ OwnedIsClaimed /\ OrderedExist /\ Closing

LEMMA HostTypes ==
  TypeOK =>
    /\ store \in [Tasks -> {"absent", "gone", "input"} \cup ActiveStates \cup Terminal]
    /\ order \in Seq(Tasks) /\ Len(order) <= MaxTasks
    /\ req \in [Requests -> RequestRecords] /\ stop \in [Stoppers -> StopRecords]
BY DEF TypeOK, RequestRecords, StopRecords

\* A request that moves on without touching a task, or gaining or losing one.
LEMMA RequestKeeps ==
  ASSUME HostInv, NEW r \in Requests, NEW v \in RequestRecords,
         req' = [req EXCEPT ![r] = v], UNCHANGED <<host, starting, store, order, stop>>,
         running' \subseteq Requests,
         Owning(r) <=> v.phase \in {"dispatching", "publishing", "unwinding"},
         Owning(r) => v.task = req[r].task,
         v.phase = "evicting" => v.task \in Tasks,
         v.phase \in {"publishing", "unwinding"} => v.result \in Results,
         host = "closed" => /\ v.phase \in {"idle", "ended", "unwinding"}
                            /\ v.phase = "unwinding" => req[r].phase = "unwinding"
  PROVE  HostInv'
<1>1. /\ \A q \in Requests : req'[q] = IF q = r THEN v ELSE req[q]
      /\ req' \in [Requests -> RequestRecords]
  BY HostTypes DEF HostInv
<1>2. TypeOK'
  BY <1>1 DEF HostInv, TypeOK, RequestRecords
<1>3. \A q \in Requests : /\ Owning(q)' <=> Owning(q)
                          /\ Owning(q) => req'[q].task = req[q].task
  BY <1>1 DEF Owning
<1>4. \A q \in Requests : Holds(q)'
  BY <1>1, <1>3 DEF HostInv, Holds, Owning
<1>5. OwnedByOne' /\ WorkIsOwned' /\ OwnedIsClaimed'
  BY <1>3 DEF HostInv, OwnedByOne, WorkIsOwned, OwnedIsClaimed
<1>6. OrderedExist' /\ Closing'
  BY <1>1 DEF HostInv, OrderedExist, Closing
<1> QED
  BY <1>2, <1>4, <1>5, <1>6 DEF HostInv

\* Steps that leave requests and tasks alone.
LEMMA HostKeeps ==
  ASSUME HostInv, UNCHANGED <<store, order, req, running>>, TypeOK', Closing'
  PROVE  HostInv'
<1>1. \A q \in Requests : Holds(q)'
  BY DEF HostInv, Holds, Owning
<1>2. OwnedByOne' /\ WorkIsOwned' /\ OwnedIsClaimed' /\ OrderedExist'
  BY DEF HostInv, OwnedByOne, WorkIsOwned, OwnedIsClaimed, OrderedExist, Owning
<1> QED
  BY <1>1, <1>2 DEF HostInv

\* A request that owned no task claims one that nobody owns.
LEMMA ClaimKeeps ==
  ASSUME HostInv, NEW r \in Requests, NEW t \in Tasks,
         req[r].phase \in {"admitted", "evicting"}, store[t] \in {"absent", "submitted", "input"},
         Proceed(r, "dispatching", t, "none"),
         store' = [store EXCEPT ![t] = "working"],
         order' \in Seq(Tasks), Len(order') <= MaxTasks, OrderedExist',
         running' = running \cup {r}, UNCHANGED <<host, starting, stop>>
  PROVE  HostInv'
<1> DEFINE v == [phase |-> "dispatching", guard |-> req[r].guard, task |-> t, result |-> "none"]
<1>1. v \in RequestRecords /\ ~Owning(r)
  BY HostTypes DEF HostInv, RequestRecords, Owning
<1>2. req' = [req EXCEPT ![r] = v] /\ v.phase = "dispatching" /\ v.task = t
  BY DEF Proceed
<1> HIDE DEF v
<1>3. /\ \A q \in Requests : req'[q] = IF q = r THEN v ELSE req[q]
      /\ req' \in [Requests -> RequestRecords]
  BY <1>1, <1>2, HostTypes DEF HostInv
<1>4. \A x \in Tasks : store'[x] = IF x = t THEN "working" ELSE store[x]
  BY HostTypes DEF HostInv
<1>5. TypeOK'
  BY <1>3, HostTypes DEF HostInv, TypeOK, RequestRecords, ActiveStates
<1>6. \A q \in Requests : /\ Owning(q)' <=> Owning(q) \/ q = r
                          /\ req'[q].task = IF q = r THEN t ELSE req[q].task
  BY <1>2, <1>3 DEF Owning
<1>7. \A q \in Requests : Owning(q) => req[q].task # t
  BY DEF HostInv, OwnedIsClaimed
<1>8. \A q \in Requests : Holds(q)'
  BY <1>2, <1>3 DEF HostInv, Holds, Owning
<1>9. OwnedByOne'
  BY <1>1, <1>6, <1>7 DEF HostInv, OwnedByOne
<1>10. WorkIsOwned'
  BY <1>1, <1>4, <1>6 DEF HostInv, WorkIsOwned
<1>11. OwnedIsClaimed'
  BY <1>4, <1>6, <1>8 DEF HostInv, OwnedIsClaimed, Holds
<1>12. Closing'
  BY DEF HostInv, Closing
<1> QED
  BY <1>5, <1>8, <1>9, <1>10, <1>11, <1>12 DEF HostInv

\* A request ends, or goes on to own nothing, and some tasks change: one that
\* becomes working was so before, one with an owner stays claimed.
LEMMA ReleaseKeeps ==
  ASSUME HostInv, NEW r \in Requests, NEW v \in RequestRecords,
         req' = [req EXCEPT ![r] = v], v.phase \in {"ended", "evicting"},
         v.phase = "evicting" => v.task \in Tasks /\ host # "closed",
         store' \in [Tasks -> {"absent", "gone", "input"} \cup ActiveStates \cup Terminal],
         \A t \in Tasks : store'[t] = "working" =>
           store[t] = "working" /\ (Owning(r) => req[r].task # t),
         \A q \in Requests \ {r} : Owning(q) =>
           store'[req[q].task] \notin {"absent", "submitted", "input"},
         host = "closed" => \A t \in Tasks : store'[t] = "submitted" => store[t] = "submitted",
         order' \in Seq(Tasks), Len(order') <= MaxTasks, OrderedExist',
         UNCHANGED <<host, starting, running, stop>>
  PROVE  HostInv'
<1>1. /\ \A q \in Requests : req'[q] = IF q = r THEN v ELSE req[q]
      /\ req' \in [Requests -> RequestRecords]
  BY HostTypes DEF HostInv
<1>2. TypeOK'
  BY <1>1 DEF HostInv, TypeOK, RequestRecords
<1>3. \A q \in Requests : /\ Owning(q)' <=> Owning(q) /\ q # r
                          /\ q # r => req'[q] = req[q]
  BY <1>1 DEF Owning
<1>4. \A q \in Requests : Holds(q)'
  BY <1>1, <1>3 DEF HostInv, Holds, Owning
<1>5. OwnedByOne' /\ WorkIsOwned' /\ OwnedIsClaimed'
  <2>1. OwnedByOne'
    BY <1>3 DEF HostInv, OwnedByOne
  <2>2. ASSUME NEW t \in Tasks, store'[t] = "working"
        PROVE  \E q \in Requests : Owning(q)' /\ req'[q].task = t
    <3>1. PICK q \in Requests : Owning(q) /\ req[q].task = t
      BY <2>2 DEF HostInv, WorkIsOwned
    <3>2. q # r
      BY <2>2, <3>1
    <3> QED
      BY <1>3, <3>1, <3>2
  <2>3. OwnedIsClaimed'
    BY <1>3 DEF OwnedIsClaimed
  <2> QED
    BY <2>1, <2>2, <2>3 DEF WorkIsOwned
<1>6. Closing'
  <2>1. CASE host = "closed"
    <3> DEFINE close == stop["close"]
    <3>1. \A q \in Requests : /\ req'[q].phase \in {"idle", "ended", "unwinding"}
                              /\ req'[q].phase = "unwinding" => req[q].phase = "unwinding"
      BY <1>1, <2>1 DEF HostInv, Closing
    <3>2. close.phase = "done" /\ close.clean /\ ~close.cut =>
            \A t \in Tasks : store'[t] \notin ActiveStates
      BY <2>1 DEF HostInv, Closing, ActiveStates
    <3> QED
      BY <2>1, <3>1, <3>2 DEF HostInv, Closing
  <2>2. CASE host # "closed"
    BY <2>2 DEF Closing
  <2> QED
    BY <2>1, <2>2
<1> QED
  BY <1>2, <1>4, <1>5, <1>6 DEF HostInv

\* The claim of a new task, or its creation over the oldest one.
LEMMA SendNewKeeps ==
  ASSUME HostInv, NEW r \in Requests, NEW t \in Tasks, SendNew(r, t)
  PROVE  HostInv'
<1>1. /\ req[r].phase = "admitted" /\ store[t] = "absent" /\ ~Owning(r)
      /\ UNCHANGED <<host, starting, stop>> /\ host # "closed"
  BY DEF SendNew, Owning, HostInv, Closing
<1>2. CASE ~Full
  <2>1. /\ order' = Append(order, t) /\ running' = running \cup {r}
        /\ Proceed(r, "dispatching", t, "none")
        /\ store' = [x \in Tasks |-> IF x = t THEN "working" ELSE store[x]]
    BY <1>2 DEF SendNew
  <2>2. store' = [store EXCEPT ![t] = "working"]
    BY <2>1, HostTypes DEF HostInv
  <2>3. /\ order' \in Seq(Tasks) /\ Len(order') <= MaxTasks
        /\ \A i \in 1 .. Len(order') : order'[i] = IF i <= Len(order) THEN order[i] ELSE t
    BY <1>2, <2>1, HostTypes, HostAssumption DEF HostInv, Full
  <2>4. OrderedExist'
    BY <2>1, <2>3, HostTypes DEF HostInv, OrderedExist
  <2> QED
    BY <1>1, <2>1, <2>2, <2>3, <2>4, ClaimKeeps
<1>3. CASE Full
  <2> DEFINE v == [phase |-> "evicting", guard |-> req[r].guard, task |-> t, result |-> "none"]
  <2>1. v \in RequestRecords /\ v.phase = "evicting" /\ v.task = t
    BY HostTypes DEF HostInv, RequestRecords
  <2>2. /\ order' = Append(Tail(order), t) /\ running' = running
        /\ req' = [req EXCEPT ![r] = v]
        /\ store' = [x \in Tasks |-> IF x = t THEN "submitted"
                                     ELSE IF x = Head(order) THEN "gone" ELSE store[x]]
    BY <1>3 DEF SendNew, Proceed
  <2> HIDE DEF v
  <2>3. /\ order' \in Seq(Tasks) /\ Len(order') <= MaxTasks
        /\ \A i \in 1 .. Len(order') : order'[i] = IF i < Len(order) THEN order[i + 1] ELSE t
    BY <1>3, <2>2, HostTypes, HostAssumption DEF HostInv, Full
  <2>4. \A x \in Tasks : \/ x = t /\ store'[x] = "submitted"
                         \/ x # t /\ store'[x] \in {store[x], "gone"}
    BY <2>2
  <2>5. store' \in [Tasks -> {"absent", "gone", "input"} \cup ActiveStates \cup Terminal]
    BY <2>2, <2>4, HostTypes DEF HostInv, ActiveStates
  <2>6. OrderedExist'
    BY <2>3, <2>4, HostTypes DEF HostInv, OrderedExist
  <2>7. \A q \in Requests : Owning(q) =>
          /\ req[q].task \in Tasks /\ req[q].task # t
          /\ store'[req[q].task] \notin {"absent", "submitted", "input"}
    BY <1>1, <2>4 DEF HostInv, OwnedIsClaimed, Holds
  <2>8. \A x \in Tasks : store'[x] = "working" => store[x] = "working"
    BY <2>4
  <2> QED
    BY <1>1, <2>1, <2>2, <2>3, <2>5, <2>6, <2>7, <2>8, ReleaseKeeps
<1> QED
  BY <1>2, <1>3

\* A step that leaves the order alone, and forgets no task, keeps it.
LEMMA OrderKeeps ==
  ASSUME HostInv, order' = order, \A t \in Tasks : store'[t] = "absent" => store[t] = "absent"
  PROVE  order' \in Seq(Tasks) /\ Len(order') <= MaxTasks /\ OrderedExist'
<1>1. \A i \in 1 .. Len(order) : order[i] \in Tasks
  BY HostTypes DEF HostInv
<1> QED
  BY <1>1, HostTypes DEF HostInv, OrderedExist

LEMMA SendAgainKeeps ==
  ASSUME HostInv, NEW r \in Requests, NEW t \in Tasks, SendAgain(r, t)
  PROVE  HostInv'
<1>1. \A x \in Tasks : store'[x] = "absent" => store[x] = "absent"
  BY HostTypes DEF SendAgain, HostInv
<1>2. order' \in Seq(Tasks) /\ Len(order') <= MaxTasks /\ OrderedExist'
  BY <1>1, OrderKeeps DEF SendAgain
<1> QED
  BY <1>2, ClaimKeeps DEF SendAgain

\* A request that ends.
Over(r) == [phase |-> "ended", guard |-> req[r].guard, task |-> 0, result |-> "none"]

LEMMA EndRecord ==
  ASSUME HostInv, NEW r \in Requests
  PROVE  /\ Over(r) \in RequestRecords /\ Over(r).phase = "ended"
         /\ End(r) => req' = [req EXCEPT ![r] = Over(r)]
BY HostTypes DEF HostInv, Over, End, Proceed, RequestRecords

LEMMA EndsKeeps ==
  ASSUME HostInv, NEW r \in Requests, End(r), ~Owning(r),
         UNCHANGED <<host, starting, store, order, running, stop>>
  PROVE  HostInv'
BY EndRecord, RequestKeeps DEF HostInv, TypeOK

LEMMA ClaimStep ==
  ASSUME HostInv, NEW r \in Requests, Claim(r)
  PROVE  HostInv'
<1> DEFINE t == req[r].task
<1>1. req[r].phase = "evicting" /\ ~Owning(r) /\ t \in Tasks /\ UNCHANGED <<host, starting, order, stop>>
  BY DEF Claim, Owning, HostInv, Holds
<1>2. CASE Claimable(t)
  <2>1. /\ store' = [store EXCEPT ![t] = "working"] /\ running' = running \cup {r}
        /\ Proceed(r, "dispatching", t, "none") /\ store[t] = "submitted"
    BY <1>2 DEF Claim, Claimable
  <2>2. \A x \in Tasks : store'[x] = "absent" => store[x] = "absent"
    BY <1>1, <2>1, HostTypes DEF HostInv
  <2>3. order' \in Seq(Tasks) /\ Len(order') <= MaxTasks /\ OrderedExist'
    BY <1>1, <2>2, OrderKeeps
  <2> QED
    BY <1>1, <2>1, <2>3, ClaimKeeps
<1>3. CASE ~Claimable(t)
  BY <1>1, <1>3, EndsKeeps DEF Claim
<1> QED
  BY <1>2, <1>3

\* A result is published, or what unwinds settles: the owner leaves, and what
\* it leaves behind does not work.
LEMMA SettleKeeps ==
  ASSUME HostInv, NEW r \in Requests, req[r].phase \in {"publishing", "unwinding"},
         store' = Settle(req[r].task, req[r].result), End(r),
         UNCHANGED <<host, starting, order, running, stop>>
  PROVE  HostInv'
<1> DEFINE t == req[r].task
<1>1. Owning(r) /\ t \in Tasks /\ req[r].result \in Results
  BY DEF Owning, HostInv, Holds
<1>2. \A x \in Tasks : store'[x] = IF x = t /\ store[x] = "working" THEN req[r].result ELSE store[x]
  BY <1>1, HostTypes DEF HostInv, Settle
<1>3. store' \in [Tasks -> {"absent", "gone", "input"} \cup ActiveStates \cup Terminal]
  BY <1>1, HostTypes DEF HostInv, Settle, Results
<1>4. \A x \in Tasks : /\ store'[x] = "absent" => store[x] = "absent"
                       /\ store'[x] = "submitted" => store[x] = "submitted"
                       /\ store'[x] = "working" => store[x] = "working" /\ x # t
  BY <1>1, <1>2 DEF Results, Terminal
<1>5. order' \in Seq(Tasks) /\ Len(order') <= MaxTasks /\ OrderedExist'
  BY <1>4, OrderKeeps
<1>6. \A q \in Requests \ {r} : Owning(q) =>
        store'[req[q].task] \notin {"absent", "submitted", "input"}
  <2> SUFFICES ASSUME NEW q \in Requests \ {r}, Owning(q)
               PROVE  store'[req[q].task] \notin {"absent", "submitted", "input"}
    OBVIOUS
  <2>1. req[q].task \in Tasks /\ req[q].task # t
    BY <1>1 DEF HostInv, OwnedByOne, Holds
  <2> QED
    BY <1>2, <2>1 DEF HostInv, OwnedIsClaimed
<1> QED
  BY <1>3, <1>4, <1>5, <1>6, EndRecord, ReleaseKeeps

LEMMA CancelTaskKeeps ==
  ASSUME HostInv, NEW r \in Requests, NEW t \in Tasks, CancelTask(r, t)
  PROVE  HostInv'
<1>1. /\ ~Owning(r) /\ End(r) /\ UNCHANGED <<host, starting, order, running, stop>>
      /\ store[t] # "absent"
  BY DEF CancelTask, Owning, Retained
<1>2. \A x \in Tasks : store'[x] = IF x = t THEN "canceled" ELSE store[x]
  BY HostTypes DEF HostInv, CancelTask
<1>3. store' \in [Tasks -> {"absent", "gone", "input"} \cup ActiveStates \cup Terminal]
  BY HostTypes DEF HostInv, CancelTask, Terminal
<1>4. order' \in Seq(Tasks) /\ Len(order') <= MaxTasks /\ OrderedExist'
  BY <1>1, <1>2, OrderKeeps
<1>5. \A q \in Requests : Owning(q) =>
        store'[req[q].task] \notin {"absent", "submitted", "input"}
  BY <1>2 DEF HostInv, OwnedIsClaimed, Holds
<1> QED
  BY <1>1, <1>2, <1>3, <1>4, <1>5, EndRecord, ReleaseKeeps

LEMMA ExecutionKeeps ==
  ASSUME HostInv, NEW r \in Requests, NEW result \in Results, ExecutionEnds(r, result)
  PROVE  HostInv'
<1>1. running' \subseteq Requests /\ UNCHANGED <<host, starting, store, order, stop>>
  BY DEF ExecutionEnds, HostInv, TypeOK
<1>2. CASE req[r].phase = "dispatching"
  <2> DEFINE v == [phase |-> "publishing", guard |-> req[r].guard, task |-> req[r].task,
                   result |-> result]
  <2>1. /\ v \in RequestRecords /\ v.phase = "publishing" /\ v.result = result
        /\ v.task = req[r].task
    BY HostTypes DEF HostInv, RequestRecords, Results
  <2>2. req' = [req EXCEPT ![r] = v] /\ Owning(r) /\ host # "closed"
    BY <1>2 DEF ExecutionEnds, Proceed, Owning, HostInv, Closing
  <2> HIDE DEF v
  <2> QED
    BY <1>1, <2>1, <2>2, RequestKeeps
<1>3. CASE req[r].phase # "dispatching"
  <2>1. req' = [req EXCEPT ![r] = req[r]] /\ req[r] \in RequestRecords
    BY <1>3, HostTypes DEF ExecutionEnds, HostInv
  <2> QED
    BY <1>1, <2>1, RequestKeeps DEF HostInv, Holds, Owning, Closing
<1> QED
  BY <1>2, <1>3

LEMMA DeadlineKeeps ==
  ASSUME HostInv, NEW r \in Requests, CapabilityDeadline(r)
  PROVE  HostInv'
<1> DEFINE v == [phase |-> "unwinding", guard |-> req[r].guard, task |-> req[r].task,
                 result |-> "failed"]
<1>1. /\ v \in RequestRecords /\ v.phase = "unwinding" /\ v.result \in Results
      /\ v.task = req[r].task
  BY HostTypes DEF HostInv, RequestRecords, Results, Terminal
<1>2. /\ req' = [req EXCEPT ![r] = v] /\ Owning(r) /\ host # "closed"
      /\ UNCHANGED <<host, starting, store, order, running, stop>>
  BY DEF CapabilityDeadline, Proceed, Owning, HostInv, Closing
<1> HIDE DEF v
<1> QED
  BY <1>1, <1>2, RequestKeeps DEF HostInv, TypeOK

LEMMA HandlesKeeps ==
  ASSUME HostInv, NEW r \in Requests, Handles(r)
  PROVE  HostInv'
<1>1. CASE Answer(r)
  BY <1>1, EndsKeeps DEF Answer, Owning
<1>2. CASE \E result \in {"completed", "failed", "canceled", "input"} : ExecutionEnds(r, result)
  BY <1>2, ExecutionKeeps DEF Results, Terminal
<1>3. CASE Publish(r)
  BY <1>3, SettleKeeps DEF Publish
<1>4. CASE Unwind(r)
  BY <1>4, SettleKeeps DEF Unwind, SettleUnwound
<1> QED
  BY <1>1, <1>2, <1>3, <1>4, SendNewKeeps, SendAgainKeeps, CancelTaskKeeps, ClaimStep, DeadlineKeeps
  DEF Handles

\* What a cancelled request becomes: ended, or unwinding with what it owns.
LEMMA CancelledFacts ==
  ASSUME NEW q \in RequestRecords
  PROVE  /\ Cancelled(q) \in RequestRecords
         /\ Cancelled(q).phase = CASE q.phase \in {"admitted", "evicting", "ended"} -> "ended"
                                   [] q.phase = "idle" -> "idle"
                                   [] OTHER -> "unwinding"
         /\ Cancelled(q).phase = "unwinding" =>
              Cancelled(q).task = q.task /\ Cancelled(q).result = "canceled"
BY DEF Cancelled, RequestRecords, Terminal

LEMMA GuardsKeeps ==
  ASSUME HostInv, NEW r \in Requests, Guards(r)
  PROVE  HostInv'
<1>0. req[r] \in RequestRecords /\ (host = "closed" => req[r].phase \in {"idle", "ended", "unwinding"})
  BY HostTypes DEF HostInv, Closing
<1>1. CASE Admit(r)
  <2> DEFINE v == [phase |-> "admitted", guard |-> "waiting", task |-> 0, result |-> "none"]
  <2>1. v \in RequestRecords /\ v.phase = "admitted"
    BY DEF RequestRecords
  <2>2. /\ req' = [req EXCEPT ![r] = v] /\ ~Owning(r) /\ host # "closed"
        /\ UNCHANGED <<host, starting, store, order, running, stop>>
    BY <1>1 DEF Admit, Tracked, Owning
  <2> HIDE DEF v
  <2> QED
    BY <2>1, <2>2, RequestKeeps DEF HostInv, TypeOK
<1>2. CASE GuardCancels(r)
  <2> DEFINE q == [phase |-> req[r].phase, guard |-> "cancelling", task |-> req[r].task,
                   result |-> req[r].result]
             v == Cancelled(q)
  <2>1. q \in RequestRecords /\ q.phase = req[r].phase /\ q.task = req[r].task
    BY <1>0 DEF RequestRecords
  <2>2. /\ req' = [req EXCEPT ![r] = v] /\ req[r].phase \notin {"idle", "ended"}
        /\ UNCHANGED <<host, starting, store, order, running, stop>>
    BY <1>2 DEF GuardCancels, Unfinished, Tracked
  <2> HIDE DEF q
  <2>3. /\ v \in RequestRecords /\ v.phase \in {"ended", "unwinding"}
        /\ v.phase = "unwinding" => v.task = req[r].task /\ v.result \in Results
        /\ v.phase = "unwinding" <=> Owning(r)
    BY <1>0, <2>1, <2>2, CancelledFacts DEF RequestRecords, Owning, Results, Terminal
  <2> HIDE DEF v
  <2> QED
    BY <1>0, <2>2, <2>3, RequestKeeps DEF HostInv, TypeOK
<1>3. CASE GuardLeaves(r)
  <2> DEFINE v == [phase |-> req[r].phase, guard |-> "left", task |-> req[r].task,
                   result |-> req[r].result]
  <2>1. /\ v \in RequestRecords /\ v.phase = req[r].phase /\ v.task = req[r].task
        /\ v.result = req[r].result
    BY <1>0 DEF RequestRecords
  <2>2. /\ req' = [req EXCEPT ![r] = v]
        /\ UNCHANGED <<host, starting, store, order, running, stop>>
    BY <1>3 DEF GuardLeaves
  <2> HIDE DEF v
  <2> QED
    BY <1>0, <2>1, <2>2, RequestKeeps DEF HostInv, TypeOK, Holds, Owning
<1>4. CASE Untrack(r)
  <2>1. NoRequest \in RequestRecords /\ NoRequest.phase = "idle"
    BY DEF NoRequest, RequestRecords
  <2>2. /\ req' = [req EXCEPT ![r] = NoRequest] /\ ~Owning(r)
        /\ UNCHANGED <<host, starting, store, order, running, stop>>
    BY <1>4 DEF Untrack, Owning
  <2> QED
    BY <2>1, <2>2, RequestKeeps DEF HostInv, TypeOK
<1> QED
  BY <1>1, <1>2, <1>3, <1>4 DEF Guards

LEMMA StartsKeeps ==
  ASSUME HostInv, NEW s \in Startups, Starts(s)
  PROVE  HostInv'
<1>1. UNCHANGED <<store, order, req, running, stop>>
  BY DEF Starts, StartupBegins, StartupSucceeds, StartupFails, StartupEnds
<1>2. /\ host' \in {"ready", "failed", host} /\ starting' \subseteq Startups
  BY DEF Starts, StartupBegins, StartupSucceeds, StartupFails, StartupEnds, HostInv, TypeOK
<1>3. TypeOK' /\ Closing'
  BY <1>1, <1>2 DEF HostInv, TypeOK, Closing
<1> QED
  BY <1>1, <1>3, HostKeeps

\* drain or aclose cancels every request that has not ended.
LEMMA CancellingKeepsTasks ==
  ASSUME HostInv, NEW p \in Stoppers, Cancelling(p, Inflight), host' \in {host, "closed"},
         p = "close" => host' = "closed",
         host' = "closed" => host = "closed" \/ p = "close",
         UNCHANGED <<starting, store, order, running>>
  PROVE  HostInv'
<1> DEFINE c == [phase |-> "cancelling", victims |-> Inflight, clean |-> TRUE, cut |-> FALSE]
<1>1. c \in StopRecords /\ c.phase = "cancelling" /\ c.victims = Inflight
  BY DEF StopRecords, Inflight
<1>2. stop' = [stop EXCEPT ![p] = c]
  BY DEF Cancelling
<1> HIDE DEF c
<1>3. /\ stop' \in [Stoppers -> StopRecords]
      /\ \A x \in Stoppers : stop'[x] = IF x = p THEN c ELSE stop[x]
  BY <1>1, <1>2, HostTypes DEF HostInv
<1>4. \A q \in Requests : req'[q] = IF q \in Inflight THEN Cancelled(req[q]) ELSE req[q]
  BY DEF Cancelling
<1>5. \A q \in Requests : req[q] \in RequestRecords /\ (q \in Inflight <=> req[q].phase \notin {"idle", "ended"})
  BY HostTypes DEF HostInv, Inflight, Tracked
<1>6. \A q \in Requests :
        /\ req'[q] \in RequestRecords /\ req'[q].phase \in {"idle", "ended", "unwinding"}
        /\ Owning(q)' <=> Owning(q)
        /\ Owning(q) => /\ req'[q].task = req[q].task /\ req'[q].result \in Results
                        /\ q \in Inflight
        /\ req'[q].phase = "unwinding" => Owning(q)
  <2> SUFFICES ASSUME NEW q \in Requests
               PROVE  /\ req'[q] \in RequestRecords /\ req'[q].phase \in {"idle", "ended", "unwinding"}
                      /\ Owning(q)' <=> Owning(q)
                      /\ Owning(q) => /\ req'[q].task = req[q].task /\ req'[q].result \in Results
                                      /\ q \in Inflight
                      /\ req'[q].phase = "unwinding" => Owning(q)
    OBVIOUS
  <2>1. CASE q \in Inflight
    BY <1>4, <1>5, <2>1, CancelledFacts DEF Owning, RequestRecords, Results, Terminal
  <2>2. CASE q \notin Inflight
    BY <1>4, <1>5, <2>2 DEF Owning
  <2> QED
    BY <2>1, <2>2
<1>7. req' \in [Requests -> RequestRecords]
  BY <1>6 DEF Cancelling
<1>8. TypeOK'
  BY <1>3, <1>7 DEF HostInv, TypeOK, RequestRecords, StopRecords
<1>9. \A q \in Requests : Holds(q)'
  BY <1>6 DEF HostInv, Holds
<1>10. OwnedByOne' /\ WorkIsOwned' /\ OwnedIsClaimed' /\ OrderedExist'
  BY <1>6 DEF HostInv, OwnedByOne, WorkIsOwned, OwnedIsClaimed, OrderedExist
<1>11. Closing'
  <2>1. CASE p = "close"
    BY <1>1, <1>3, <1>6, <2>1 DEF Closing
  <2>2. CASE p = "drain"
    <3>1. stop'["close"] = stop["close"]
      BY <1>3, <2>2 DEF Stoppers
    <3>2. \A q \in Requests : host = "closed" /\ req'[q].phase = "unwinding" => req[q].phase = "unwinding"
      BY <1>6 DEF HostInv, Closing, Owning
    <3> QED
      BY <1>6, <2>2, <3>1, <3>2 DEF HostInv, Closing
  <2> QED
    BY <2>1, <2>2 DEF Stoppers
<1> QED
  BY <1>8, <1>9, <1>10, <1>11 DEF HostInv

\* Steps of drain and aclose that only advance them.
LEMMA AdvanceKeeps ==
  ASSUME HostInv, NEW p \in Stoppers, NEW c \in StopRecords, stop' = [stop EXCEPT ![p] = c],
         UNCHANGED <<starting, store, order, req, running>>, host' \in {host, "draining"},
         p = "close" /\ host = "closed" =>
           /\ c.phase = "sweeping"
           /\ c.clean => \A r \in Requests : req[r].phase # "unwinding"
  PROVE  HostInv'
<1>1. /\ stop' \in [Stoppers -> StopRecords]
      /\ \A x \in Stoppers : stop'[x] = IF x = p THEN c ELSE stop[x]
  BY HostTypes DEF HostInv
<1>2. TypeOK'
  BY <1>1 DEF HostInv, TypeOK, StopRecords
<1>3. Closing'
  <2>1. CASE p = "close"
    BY <1>1, <2>1 DEF HostInv, Closing, Stoppers
  <2>2. CASE p = "drain"
    BY <1>1, <2>2 DEF HostInv, Closing, Stoppers
  <2> QED
    BY <2>1, <2>2 DEF Stoppers
<1> QED
  BY <1>2, <1>3, HostKeeps

LEMMA SweepKeeps ==
  ASSUME HostInv, NEW p \in Stoppers, Sweep(p)
  PROVE  HostInv'
<1>1. PICK n \in 1 .. MaxTasks :
        /\ store' = [t \in Tasks |-> IF t \in Scanned(n) /\ store[t] \in SweptStates
                                     THEN "failed" ELSE store[t]]
        /\ Advance(p, "done", stop[p].clean, \E t \in Tasks : Retained(t) /\ t \notin Scanned(n))
  BY DEF Sweep
<1> DEFINE cut == \E t \in Tasks : Retained(t) /\ t \notin Scanned(n)
           c == [phase |-> "done", victims |-> {}, clean |-> stop[p].clean, cut |-> cut]
<1>2. /\ c \in StopRecords /\ c.phase = "done" /\ c.clean = stop[p].clean
      /\ c.cut <=> \E t \in Tasks : Retained(t) /\ t \notin Scanned(n)
  BY HostTypes DEF HostInv, StopRecords
<1>3. stop' = [stop EXCEPT ![p] = c]
  BY <1>1 DEF Advance
<1> HIDE DEF c
<1>4. /\ stop' \in [Stoppers -> StopRecords] /\ stop[p].phase = "sweeping"
      /\ \A x \in Stoppers : stop'[x] = IF x = p THEN c ELSE stop[x]
      /\ UNCHANGED <<host, starting, order, req, running>>
  BY <1>2, <1>3, HostTypes DEF HostInv, Sweep
<1>5. \A t \in Tasks : \/ store'[t] = store[t]
                       \/ store[t] \in ActiveStates /\ store'[t] = "failed"
  BY <1>1 DEF SweptStates
<1>6. store' \in [Tasks -> {"absent", "gone", "input"} \cup ActiveStates \cup Terminal]
  BY <1>1, HostTypes DEF HostInv, Terminal
<1>7. TypeOK'
  BY <1>4, <1>6 DEF HostInv, TypeOK, StopRecords
<1>8. OrderedExist'
  BY <1>4, <1>5, OrderKeeps
<1>9. \A q \in Requests : Holds(q)'
  BY <1>4 DEF HostInv, Holds, Owning
<1>10. OwnedByOne' /\ WorkIsOwned' /\ OwnedIsClaimed'
  <2>1. OwnedByOne'
    BY <1>4 DEF HostInv, OwnedByOne, Owning
  <2>2. WorkIsOwned'
    BY <1>4, <1>5 DEF HostInv, WorkIsOwned, Owning
  <2>3. OwnedIsClaimed'
    BY <1>4, <1>5, <1>9 DEF HostInv, OwnedIsClaimed, Owning, Holds
  <2> QED
    BY <2>1, <2>2, <2>3
<1>11. Closing'
  <2>1. \A t \in Tasks : store[t] \notin ActiveStates => store'[t] \notin ActiveStates
    BY <1>5
  <2>2. CASE p = "close"
    <3>1. ~c.cut => \A t \in Tasks : store'[t] \notin ActiveStates
      <4> SUFFICES ASSUME ~c.cut, NEW t \in Tasks, store[t] \in ActiveStates
                   PROVE  store'[t] = "failed"
        BY <2>1 DEF ActiveStates
      <4>1. t \in Scanned(n)
        BY <1>2 DEF Retained, ActiveStates
      <4> QED
        BY <1>1, <4>1 DEF SweptStates
    <3> QED
      BY <1>2, <1>4, <2>2, <3>1 DEF HostInv, Closing, Stoppers
  <2>3. CASE p = "drain"
    BY <1>4, <2>1, <2>3 DEF HostInv, Closing, Stoppers
  <2> QED
    BY <2>2, <2>3 DEF Stoppers
<1> QED
  BY <1>7, <1>8, <1>9, <1>10, <1>11 DEF HostInv

LEMMA StopsKeeps ==
  ASSUME HostInv, Stops
  PROVE  HostInv'
<1> DEFINE Rec(phase, clean) == [phase |-> phase, victims |-> {}, clean |-> clean, cut |-> FALSE]
<1>0. "drain" \in Stoppers /\ "close" \in Stoppers
  BY DEF Stoppers
<1>1. CASE Drain
  <2>1. Rec("waiting", TRUE) \in StopRecords
    BY DEF StopRecords
  <2>2. stop' = [stop EXCEPT !["drain"] = Rec("waiting", TRUE)]
    BY <1>1 DEF Drain, Advance
  <2> QED
    BY <1>0, <1>1, <2>1, <2>2, AdvanceKeeps DEF Drain
<1>2. CASE DrainIdle
  <2>1. Rec("done", TRUE) \in StopRecords
    BY DEF StopRecords
  <2>2. stop' = [stop EXCEPT !["drain"] = Rec("done", TRUE)]
    BY <1>2 DEF DrainIdle, Advance
  <2> QED
    BY <1>0, <1>2, <2>1, <2>2, AdvanceKeeps DEF DrainIdle
<1>3. CASE DrainExpires
  BY <1>0, <1>3, CancellingKeepsTasks DEF DrainExpires
<1>4. CASE Close
  BY <1>0, <1>4, CancellingKeepsTasks DEF Close
<1>5. ASSUME NEW p \in Stoppers, CancelEnds(p)
      PROVE  HostInv'
  <2>1. Rec("sweeping", Finished(p)) \in StopRecords
    BY DEF StopRecords, Finished
  <2>2. stop' = [stop EXCEPT ![p] = Rec("sweeping", Finished(p))]
    BY <1>5 DEF CancelEnds, Advance
  <2>3. p = "close" /\ host = "closed" =>
          (Finished(p) => \A r \in Requests : req[r].phase # "unwinding")
    BY <1>5 DEF CancelEnds, HostInv, Closing, Finished, Unfinished, Tracked
  <2> QED
    BY <1>5, <2>1, <2>2, <2>3, AdvanceKeeps DEF CancelEnds
<1> QED
  BY <1>1, <1>2, <1>3, <1>4, <1>5, SweepKeeps DEF Stops

LEMMA HostInvInit ==
  Init => HostInv
<1> SUFFICES ASSUME Init
             PROVE  HostInv
  OBVIOUS
<1>1. /\ \A r \in Requests : req[r].phase = "idle"
      /\ host # "closed" /\ order = <<>> /\ \A t \in Tasks : store[t] = "absent"
  BY DEF Init, NoRequest
<1>2. TypeOK
  BY HostAssumption DEF Init, TypeOK, NoRequest, NotCalled
<1> QED
  BY <1>1, <1>2 DEF HostInv, Holds, Owning, OwnedByOne, WorkIsOwned, OwnedIsClaimed, OrderedExist,
                    Closing

LEMMA HostInvStep ==
  HostInv /\ [Next]_vars => HostInv'
<1> SUFFICES ASSUME HostInv, [Next]_vars
             PROVE  HostInv'
  OBVIOUS
<1>1. CASE UNCHANGED vars
  BY <1>1, HostKeeps DEF vars, HostInv, TypeOK, Closing
<1> QED
  BY <1>1, HandlesKeeps, GuardsKeeps, StartsKeeps, StopsKeeps DEF Next

LEMMA HostInvariant == Spec => []HostInv
BY HostInvInit, HostInvStep, PTL DEF Spec

\* The host, its requests, its tasks and its two stops keep their types.
THEOREM HostTypeCorrect == Spec => []TypeOK
BY HostInvariant, PTL DEF HostInv

\* A task is executed by one request at a time, and one that works is never
\* without the request that will settle it (_send and its exits).
THEOREM OneOwner == Spec => []OneOwnerPerWorkingTask
<1>1. HostInv => OneOwnerPerWorkingTask
  <2> SUFFICES ASSUME HostInv, NEW t \in Tasks
               PROVE  /\ Cardinality(Owners(t)) <= 1
                      /\ store[t] = "working" => Owners(t) # {}
                      /\ Owners(t) # {} => store[t] \notin {"absent", "submitted", "input"}
    BY DEF OneOwnerPerWorkingTask
  <2>1. Owners(t) = {r \in Requests : Owning(r) /\ req[r].task = t}
    BY DEF Owners, Owning
  <2>2. Cardinality(Owners(t)) <= 1
    <3>1. CASE Owners(t) = {}
      BY <3>1, FS_EmptySet
    <3>2. ASSUME NEW r \in Owners(t)
          PROVE  Cardinality(Owners(t)) <= 1
      <4>1. Owners(t) = {r}
        BY <2>1, <3>2 DEF HostInv, OwnedByOne
      <4> QED
        BY <4>1, FS_Singleton
    <3> QED
      BY <3>1, <3>2
  <2>3. store[t] = "working" => Owners(t) # {}
    BY <2>1 DEF HostInv, WorkIsOwned
  <2>4. Owners(t) # {} => store[t] \notin {"absent", "submitted", "input"}
    BY <2>1 DEF HostInv, OwnedIsClaimed
  <2> QED
    BY <2>2, <2>3, <2>4
<1> QED
  BY <1>1, HostInvariant, PTL

\* A close that saw every execution end, and every page, leaves no task
\* submitted or working, whatever was admitted, cancelled or evicted before
\* (aclose, _cancel_inflight, _sweep_active_tasks).
THEOREM CloseIsComplete == Spec => []CloseLeavesNothingActive
<1>1. HostInv => CloseLeavesNothingActive
  BY DEF HostInv, Closing, CloseLeavesNothingActive
<1> QED
  BY <1>1, HostInvariant, PTL

\* Terminal tasks are immutable but for their eviction, and no step takes a task
\* back (compare_and_transition, compare_and_update, cancel, create's eviction).
THEOREM TasksOnlyMoveForward == Spec => TasksMoveForward
<1> DEFINE Forward == \A t \in Tasks : store'[t] = store[t] \/ <<store[t], store'[t]>> \in Moves
<1>1. HostInv /\ [Next]_vars => [Forward]_vars
  <2> SUFFICES ASSUME HostInv, Next
               PROVE  Forward
    OBVIOUS
  <2>0. /\ store \in [Tasks -> {"absent", "gone", "input"} \cup ActiveStates \cup Terminal]
        /\ order \in Seq(Tasks) /\ Len(order) <= MaxTasks
    BY HostTypes DEF HostInv
  <2>1. ASSUME NEW r \in Requests, Handles(r)
        PROVE  Forward
    <3>1. CASE UNCHANGED store
      BY <3>1
    <3>2. ASSUME NEW t \in Tasks, SendNew(r, t)
          PROVE  Forward
      <4>1. CASE Full
        <5>1. Len(order) \in 1 .. MaxTasks /\ Head(order) = order[1]
          BY <2>0, <4>1, HostAssumption DEF Full
        <5>2. Head(order) \in Tasks /\ store[Head(order)] # "absent"
          BY <2>0, <5>1 DEF HostInv, OrderedExist
        <5>3. \A x \in Tasks : store'[x] = IF x = t THEN "submitted"
                                          ELSE IF x = Head(order) THEN "gone" ELSE store[x]
          BY <3>2, <4>1 DEF SendNew
        <5> QED
          BY <2>0, <3>2, <5>2, <5>3 DEF SendNew, Moves
      <4>2. CASE ~Full
        <5>1. \A x \in Tasks : store'[x] = IF x = t THEN "working" ELSE store[x]
          BY <3>2, <4>2 DEF SendNew
        <5> QED
          BY <3>2, <5>1 DEF SendNew, Moves
      <4> QED
        BY <4>1, <4>2
    <3>3. ASSUME NEW t \in Tasks, SendAgain(r, t) \/ CancelTask(r, t)
          PROVE  Forward
      <4>1. CASE SendAgain(r, t)
        BY <2>0, <4>1 DEF SendAgain, Moves
      <4>2. CASE CancelTask(r, t)
        <5>1. store[t] \in {"input", "submitted", "working"}
          BY <2>0, <4>2 DEF CancelTask, Retained, ActiveStates
        <5> QED
          BY <2>0, <4>2, <5>1 DEF CancelTask, Moves, Terminal
      <4> QED
        BY <3>3, <4>1, <4>2
    <3>4. CASE Claim(r)
      BY <2>0, <3>4 DEF Claim, Claimable, Moves
    <3>5. CASE Publish(r) \/ Unwind(r)
      <4>1. /\ req[r].task \in Tasks /\ req[r].result \in Results
            /\ store' = Settle(req[r].task, req[r].result)
        BY <3>5 DEF Publish, Unwind, SettleUnwound, HostInv, Holds, Owning
      <4>2. \A x \in Tasks : \/ store'[x] = store[x]
                             \/ store[x] = "working" /\ store'[x] \in Results
        BY <2>0, <4>1 DEF Settle
      <4> QED
        BY <4>2 DEF Moves, Results
    <3>6. CASE \/ Answer(r) \/ CapabilityDeadline(r)
               \/ \E result \in {"completed", "failed", "canceled", "input"} : ExecutionEnds(r, result)
      BY <3>1, <3>6 DEF Answer, CapabilityDeadline, ExecutionEnds
    <3> QED
      BY <2>1, <3>2, <3>3, <3>4, <3>5, <3>6 DEF Handles
  <2>2. ASSUME NEW p \in Stoppers, Sweep(p)
        PROVE  Forward
    <3>1. \A t \in Tasks : \/ store'[t] = store[t]
                           \/ store[t] \in {"submitted", "working"} /\ store'[t] = "failed"
      BY <2>2 DEF Sweep, SweptStates, ActiveStates
    <3> QED
      BY <3>1 DEF Moves, Terminal
  <2>3. CASE \/ \E s \in Startups : Starts(s)
             \/ \E r \in Requests : Guards(r)
             \/ Drain \/ DrainIdle \/ DrainExpires \/ Close
             \/ \E p \in Stoppers : CancelEnds(p)
    <3>1. UNCHANGED store
      BY <2>3 DEF Starts, StartupBegins, StartupSucceeds, StartupFails, StartupEnds, Guards, Admit,
                  GuardCancels, GuardLeaves, Untrack, Drain, DrainIdle, DrainExpires, Close, CancelEnds
    <3> QED
      BY <3>1
  <2> QED
    BY <2>1, <2>2, <2>3 DEF Next, Stops
<1> QED
  BY <1>1, HostInvariant, PTL DEF Spec, TasksMoveForward

=============================================================================
