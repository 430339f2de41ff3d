---------------------------- MODULE Inbound_proofs ----------------------------
(***************************************************************************)
(* Proofs about what an inbound request depends on: the one execution of    *)
(* its message (A2AMessages), for every set of deliveries and messages and  *)
(* every number of registrations, and its delegated tokens (TokenExchange), *)
(* for every set of requests and scopes, policy, skew and size of a cache.  *)
(***************************************************************************)
EXTENDS A2AMessages, TokenExchange, FiniteSetTheorems, SequenceTheorems, TLAPS

(***************************************************************************)
(* Messages: the state and the invariant.                                   *)
(***************************************************************************)
MessageResults == {"expired_binding", "stale_binding", "unavailable", "cancelled",
                   "approval_mismatch", "refused", "success", "approval_required"}
DeliveryRecords ==
  [stage : {"idle", "authenticating", "waiting", "answered", "abandoned"},
   message : Messages \cup {NoMessage}, execution : Deliveries \cup {NoDelivery},
   answer : {"none", "invalid", "unauthorized", "replay"} \cup MessageResults]
ExecutionRecords ==
  [stage : {"none", "created", "running", "done"}, cancelled : BOOLEAN,
   result : {"none"} \cup MessageResults, generation : {0, 1}]

\* The advertised binding is never renewed for another registration.
MessagesTyped ==
  /\ received \in [Deliveries -> DeliveryRecords]
  /\ execution \in [Deliveries -> ExecutionRecords]
  /\ replays \in [Keys -> Deliveries \cup {NoDelivery}]
  /\ cancellations \in [MessageTasks -> Deliveries \cup {NoDelivery}]
  /\ cancelledTasks \subseteq MessageTasks
  /\ approvalBindings \in [Messages -> Messages \cup {NoMessage}]
  /\ binding \in [generation : {1}, expired : BOOLEAN]
  /\ agent \in [generation : 1 .. MaxGeneration, available : BOOLEAN]
  /\ reached = TRUE

HasStarted(x) == execution[x].stage # "none"
IsActive(x) == execution[x].stage \in {"created", "running"}

\* A delivery has a message from its arrival on, and an execution has a
\* result once it is done.
Carried(d) ==
  /\ received[d].stage = "idle" <=> Message(d) = NoMessage
  /\ HasStarted(d) => received[d].stage \notin {"idle", "authenticating"}
  /\ execution[d].stage = "done" => execution[d].result # "none"
  /\ ~HasStarted(d) => execution[d].generation = 0

\* _replays and the executions mirror each other.
Recorded ==
  /\ \A x \in Started : \A k \in ReplayKeys(Message(x)) : replays[k] = x
  /\ \A k \in Keys : replays[k] # NoDelivery =>
       replays[k] \in Started /\ k \in ReplayKeys(Message(replays[k]))

SharesKey(m, x) == \E k \in ReplayKeys(m) : replays[k] = x
Conflict(m) ==
  \/ \E x, y \in Existing(m) : x # y
  \/ \E x \in Existing(m) : Fingerprint(Message(x)) # Fingerprint(m)
Outcome(m, answer) ==
  \E x \in Existing(m) : execution[x].stage = "done" /\ execution[x].result = answer

\* Who waits waits for its message's execution; an answer is that one's result.
Awaits(m, x) == x \in Started /\ SharesKey(m, x)
Justified(m, answer) ==
  answer \notin {"invalid", "unauthorized"} =>
    IF answer = "replay" THEN Conflict(m) ELSE Outcome(m, answer)
Served(d) ==
  /\ received[d].stage = "waiting" => Awaits(Message(d), received[d].execution)
  /\ received[d].stage = "answered" => Justified(Message(d), received[d].answer)

\* The host handles one message of a task at a time.
Idles(d) == Resolved(d) /\ execution[d].stage \in {"none", "done"}
OneMessagePerTask ==
  \A d, e \in Deliveries :
    /\ Message(d) # NoMessage /\ Message(e) # NoMessage
    /\ Message(d).task = Message(e).task /\ Message(d) # Message(e)
    => Idles(d) \/ Idles(e)

\* cancel() finds the execution under way.
Reachable == \A x \in Deliveries : IsActive(x) => cancellations[Message(x).task] = x

\* A challenge is bound to the message it was issued for, and what runs as
\* approved was challenged.
Challenged(m) ==
  \E y \in Started : /\ execution[y].stage = "done" /\ execution[y].result = "approval_required"
                     /\ Message(y) = m
Bound ==
  \A a \in Messages : approvalBindings[a] # NoMessage => approvalBindings[a] = a /\ Challenged(a)
Approved(x) ==
  execution[x].generation > 0 /\ Message(x).decision # "none" =>
    \E a \in Messages : /\ a.mid = Message(x).decision /\ Issued(a) = Issued(Message(x))
                        /\ Challenged(a)

MessagesInv ==
  /\ MessagesTyped /\ \A d \in Deliveries : Carried(d) /\ Served(d)
  /\ Recorded /\ OneMessagePerTask /\ Reachable /\ Bound
  /\ \A x \in Started : Approved(x)

LEMMA MessageFields ==
  ASSUME NEW m \in Messages
  PROVE  /\ m.task \in MessageTasks /\ m.valid \in BOOLEAN /\ m # NoMessage
         /\ ReplayKeys(m) \subseteq Keys
BY MessagesAssumption DEF MessageTasks, ReplayKeys, Keys, Wire

\* Whom a message finds recorded under its ids.
LEMMA ExistingIs ==
  ASSUME NEW m, NEW x
  PROVE  x \in Existing(m) <=> x # NoDelivery /\ SharesKey(m, x)
BY DEF Existing, Records, SharesKey

\* They are executions that share an id with it, and all of those.
LEMMA ExistingStarted ==
  ASSUME MessagesTyped, Recorded, \A d \in Deliveries : Carried(d), NEW m \in Messages
  PROVE  /\ Existing(m) = {x \in Started : ReplayKeys(Message(x)) \cap ReplayKeys(m) # {}}
         /\ IsFiniteSet(Existing(m))
<1>1. ASSUME NEW x \in Existing(m)
      PROVE  x \in Started /\ ReplayKeys(Message(x)) \cap ReplayKeys(m) # {}
  <2>1. PICK k \in ReplayKeys(m) : replays[k] = x /\ x # NoDelivery
    BY ExistingIs DEF SharesKey
  <2>2. k \in Keys
    BY MessageFields
  <2> QED
    BY <2>1, <2>2 DEF Recorded
<1>2. ASSUME NEW x \in Started, ReplayKeys(Message(x)) \cap ReplayKeys(m) # {}
      PROVE  x \in Existing(m)
  <2>1. PICK k \in ReplayKeys(m) : k \in ReplayKeys(Message(x))
    BY <1>2
  <2>2. replays[k] = x /\ x # NoDelivery
    BY <2>1, MessagesAssumption DEF Recorded, Started
  <2> QED
    BY <2>2, ExistingIs DEF SharesKey
<1>3. IsFiniteSet(Existing(m))
  <2> DEFINE k1 == <<m.principal, "request", m.rid>>
             k2 == <<m.principal, "message", m.mid>>
  <2>1. Existing(m) \subseteq {replays[k1], replays[k2]}
    BY DEF Existing, Records, ReplayKeys
  <2>2. IsFiniteSet({replays[k1], replays[k2]})
    <3>1. IsFiniteSet({replays[k1]})
      BY FS_Singleton
    <3>2. {replays[k1], replays[k2]} = {replays[k1]} \cup {replays[k2]}
      OBVIOUS
    <3> QED
      BY <3>1, <3>2, FS_AddElement
  <2> QED
    BY <2>1, <2>2, FS_Subset
<1> QED
  BY <1>1, <1>2, <1>3

\* More than one record is two records.
LEMMA TwoOfThem ==
  ASSUME NEW S, IsFiniteSet(S)
  PROVE  Cardinality(S) > 1 <=> \E x, y \in S : x # y
<1>1. ASSUME NEW x \in S, NEW y \in S, x # y
      PROVE  Cardinality(S) > 1
  <2>1. Cardinality({x}) = 1 /\ IsFiniteSet({x})
    BY FS_Singleton
  <2>2. Cardinality({x} \cup {y}) = 2
    BY <1>1, <2>1, FS_AddElement
  <2>3. Cardinality({x} \cup {y}) <= Cardinality(S) /\ Cardinality(S) \in Nat
    BY FS_Subset, FS_CardinalityType
  <2> QED
    BY <2>2, <2>3
<1>2. ASSUME \A x, y \in S : x = y
      PROVE  ~(Cardinality(S) > 1)
  <2>1. CASE S = {}
    BY <2>1, FS_EmptySet
  <2>2. ASSUME NEW x \in S
        PROVE  ~(Cardinality(S) > 1)
    <3>1. S = {x}
      BY <1>2
    <3>2. Cardinality({x}) = 1
      BY FS_Singleton
    <3> QED
      BY <3>1, <3>2
  <2> QED
    BY <2>1, <2>2
<1> QED
  BY <1>1, <1>2

\* What stays true of messages and executions that do not begin anew: the
\* deliveries keep their messages, the finished executions their results.
Continues ==
  /\ replays' = replays
  /\ \A d \in Deliveries :
       /\ Message(d)' = Message(d)
       /\ received'[d].stage = "idle" <=> received[d].stage = "idle"
       /\ HasStarted(d)' <=> HasStarted(d)
       /\ IsActive(d)' => IsActive(d)
       /\ execution[d].stage = "done" => /\ execution'[d].stage = "done"
                                         /\ execution'[d].result = execution[d].result
       /\ ~HasStarted(d) => execution'[d].generation = execution[d].generation

LEMMA SameWitnesses ==
  ASSUME Continues
  PROVE  /\ Started' = Started
         /\ \A x \in Started : x \in Deliveries /\ Message(x)' = Message(x)
         /\ \A m, x : SharesKey(m, x)' <=> SharesKey(m, x)
         /\ \A m : Existing(m)' = Existing(m)
BY DEF Continues, Started, HasStarted, SharesKey, Existing, Records

\* What stays true when others begin as well.
Grows ==
  /\ \A k \in Keys : replays[k] # NoDelivery => replays'[k] = replays[k]
  /\ \A x \in Started :
       /\ HasStarted(x)' /\ Message(x)' = Message(x)
       /\ execution[x].stage = "done" => /\ execution'[x].stage = "done"
                                         /\ execution'[x].result = execution[x].result

LEMMA VerdictsStay ==
  ASSUME MessagesInv, Grows
  PROVE  /\ \A m \in Messages : \A answer : Justified(m, answer) => Justified(m, answer)'
         /\ \A m \in Messages : \A x : Awaits(m, x) => Awaits(m, x)'
         /\ \A m \in Messages : Challenged(m) => Challenged(m)'
<1>0. Started \subseteq Started'
  BY DEF Grows, Started, HasStarted
<1>1. ASSUME NEW m \in Messages
      PROVE  Existing(m) \subseteq Existing(m)' /\ Existing(m) \subseteq Started
  <2>1. Existing(m) \subseteq Started
    BY ExistingStarted DEF MessagesInv
  <2>2. ASSUME NEW x \in Existing(m)
        PROVE  x \in Existing(m)'
    <3>1. PICK k \in ReplayKeys(m) : replays[k] = x /\ x # NoDelivery
      BY ExistingIs DEF SharesKey
    <3>2. replays'[k] = x
      BY <3>1, MessageFields DEF Grows
    <3> QED
      BY <3>1, <3>2 DEF Existing, Records
  <2> QED
    BY <2>1, <2>2
<1>2. ASSUME NEW m \in Messages, Conflict(m)
      PROVE  Conflict(m)'
  <2>1. CASE \E x, y \in Existing(m) : x # y
    BY <1>1, <2>1 DEF Conflict
  <2>2. ASSUME NEW x \in Existing(m), Fingerprint(Message(x)) # Fingerprint(m)
        PROVE  Conflict(m)'
    <3>1. Message(x)' = Message(x)
      BY <1>1 DEF Grows
    <3>2. Fingerprint(Message(x))' = Fingerprint(Message(x))
      BY <3>1 DEF Fingerprint
    <3> QED
      BY <1>1, <2>2, <3>2 DEF Conflict, Fingerprint
  <2> QED
    BY <1>2, <2>1, <2>2 DEF Conflict
<1>3. ASSUME NEW m \in Messages, NEW answer, Outcome(m, answer)
      PROVE  Outcome(m, answer)'
  BY <1>1, <1>3 DEF Outcome, Grows
<1>4. ASSUME NEW m \in Messages, NEW answer, Justified(m, answer)
      PROVE  Justified(m, answer)'
  BY <1>2, <1>3, <1>4 DEF Justified
<1>5. ASSUME NEW m \in Messages, NEW x, Awaits(m, x)
      PROVE  Awaits(m, x)'
  <2>1. PICK k \in ReplayKeys(m) : replays[k] = x /\ k \in Keys
    BY <1>5, MessageFields DEF Awaits, SharesKey
  <2>2. x # NoDelivery /\ x \in Started'
    BY <1>0, <1>5, MessagesAssumption DEF Awaits, Started
  <2> QED
    BY <2>1, <2>2 DEF Awaits, SharesKey, Grows
<1>6. ASSUME NEW m \in Messages, Challenged(m)
      PROVE  Challenged(m)'
  BY <1>0, <1>6 DEF Challenged, Grows
<1> QED
  BY <1>4, <1>5, <1>6

LEMMA SameVerdicts ==
  ASSUME MessagesInv, Continues
  PROVE  /\ \A m \in Messages : \A answer : Justified(m, answer) => Justified(m, answer)'
         /\ \A m \in Messages : \A x : Awaits(m, x) => Awaits(m, x)'
         /\ \A m \in Messages : Challenged(m) => Challenged(m)'
<1>1. Grows
  BY DEF Grows, Continues, Started, HasStarted
<1> QED
  BY <1>1, VerdictsStay

\* A step of deliveries and executions that are under way keeps the invariant
\* when whoever changes waits or is answered as it should.
LEMMA ContinuesKeeps ==
  ASSUME MessagesInv, MessagesTyped', Continues,
         \A d \in Deliveries : execution'[d].stage = "done" => execution'[d].result # "none",
         \A d \in Deliveries : received'[d] = received[d] \/
           /\ received[d].stage \in {"authenticating", "waiting"}
           /\ received'[d].stage \in {"waiting", "answered", "abandoned"}
           /\ received'[d].stage = "waiting" => Awaits(Message(d), received'[d].execution)
           /\ received'[d].stage = "answered" => Justified(Message(d), received'[d].answer),
         Reachable', Bound', \A x \in Started : Approved(x)'
  PROVE  MessagesInv'
<1>1. \A d \in Deliveries : Carried(d)'
  BY DEF MessagesInv, Carried, Continues, HasStarted
<1>2. \A d \in Deliveries : Served(d)'
  <2> SUFFICES ASSUME NEW d \in Deliveries, received'[d].stage \in {"waiting", "answered"}
               PROVE  Served(d)'
    BY DEF Served
  <2>1. PICK m \in Messages : Message(d) = m /\ Message(d)' = m
    BY DEF Message, Continues, MessagesInv, MessagesTyped, DeliveryRecords, Carried
  <2>2. PICK x, answer : x = received'[d].execution /\ answer = received'[d].answer
    OBVIOUS
  <2>3. /\ received'[d].stage = "waiting" => Awaits(m, x)
        /\ received'[d].stage = "answered" => Justified(m, answer)
    BY <2>1, <2>2 DEF MessagesInv, Served
  <2>4. /\ received'[d].stage = "waiting" => Awaits(m, x)'
        /\ received'[d].stage = "answered" => Justified(m, answer)'
    BY <2>3, SameVerdicts
  <2> QED
    BY <2>1, <2>2, <2>4 DEF Served
<1>3. Recorded'
  BY SameWitnesses DEF MessagesInv, Recorded, Continues
<1>4. OneMessagePerTask'
  <2>1. \A d \in Deliveries : Idles(d) => Idles(d)'
    BY DEF Idles, Resolved, Continues, HasStarted, IsActive, MessagesInv, MessagesTyped, ExecutionRecords
  <2> QED
    BY <2>1 DEF MessagesInv, OneMessagePerTask, Continues
<1> QED
  BY <1>1, <1>2, <1>3, <1>4, SameWitnesses DEF MessagesInv

LEMMA StillBound ==
  ASSUME MessagesInv, Continues
  PROVE  /\ cancellations' = cancellations => Reachable'
         /\ approvalBindings' = approvalBindings => Bound'
         /\ \A x \in Started : execution'[x].generation = execution[x].generation => Approved(x)'
<1>1. cancellations' = cancellations => Reachable'
  BY DEF MessagesInv, Reachable, Continues
<1>2. approvalBindings' = approvalBindings => Bound'
  BY SameVerdicts DEF MessagesInv, Bound
<1>3. ASSUME NEW x \in Started, execution'[x].generation = execution[x].generation
      PROVE  Approved(x)'
  BY <1>3, SameVerdicts, SameWitnesses DEF MessagesInv, Approved
<1> QED
  BY <1>1, <1>2, <1>3

\* Only deliveries change, and what a cancel finds where nothing runs.
LEMMA DeliveryKeeps ==
  ASSUME MessagesInv, NEW d \in Deliveries, NEW v \in DeliveryRecords,
         received' = [received EXCEPT ![d] = v], v.message = Message(d),
         received[d].stage \in {"authenticating", "waiting"},
         v.stage \in {"waiting", "answered", "abandoned"},
         v.stage = "waiting" => Awaits(Message(d), v.execution),
         v.stage = "answered" => Justified(Message(d), v.answer),
         UNCHANGED <<execution, replays, approvalBindings, binding, agent, reached>>,
         cancellations' \in [MessageTasks -> Deliveries \cup {NoDelivery}],
         cancelledTasks' \subseteq MessageTasks, Reachable'
  PROVE  MessagesInv'
<1>1. /\ \A e \in Deliveries : received'[e] = IF e = d THEN v ELSE received[e]
      /\ received' \in [Deliveries -> DeliveryRecords]
  BY DEF MessagesInv, MessagesTyped
<1>2. MessagesTyped'
  BY <1>1 DEF MessagesInv, MessagesTyped
<1>3. Continues
  BY <1>1 DEF Continues, Message, HasStarted, IsActive
<1>4. Bound' /\ \A x \in Started : Approved(x)'
  BY <1>3, StillBound
<1>5. \A e \in Deliveries : execution'[e].stage = "done" => execution'[e].result # "none"
  BY DEF MessagesInv, Carried
<1>6. \A e \in Deliveries : received'[e] = received[e] \/
        /\ received[e].stage \in {"authenticating", "waiting"}
        /\ received'[e].stage \in {"waiting", "answered", "abandoned"}
        /\ received'[e].stage = "waiting" => Awaits(Message(e), received'[e].execution)
        /\ received'[e].stage = "answered" => Justified(Message(e), received'[e].answer)
  BY <1>1
<1> QED
  BY <1>2, <1>3, <1>4, <1>5, <1>6, ContinuesKeeps

\* An answered delivery.
Told(d, answer) == [received[d] EXCEPT !.stage = "answered", !.answer = answer]

LEMMA ToldIs ==
  ASSUME MessagesInv, NEW d \in Deliveries,
         NEW answer \in {"none", "invalid", "unauthorized", "replay"} \cup MessageResults
  PROVE  /\ Told(d, answer) \in DeliveryRecords /\ Told(d, answer).message = Message(d)
         /\ Told(d, answer).stage = "answered" /\ Told(d, answer).answer = answer
         /\ Answers(d, answer) => received' = [received EXCEPT ![d] = Told(d, answer)]
<1>1. received \in [Deliveries -> DeliveryRecords]
  BY DEF MessagesInv, MessagesTyped
<1> QED
  BY <1>1 DEF DeliveryRecords, Told, Message, Answers

LEMMA FailsKeeps ==
  ASSUME MessagesInv, NEW d \in Deliveries, AuthenticationFails(d)
  PROVE  MessagesInv'
<1>1. /\ received' = [received EXCEPT ![d] = Told(d, "unauthorized")]
      /\ received[d].stage = "authenticating"
      /\ UNCHANGED <<execution, replays, cancellations, approvalBindings, binding, agent, reached>>
      /\ cancelledTasks' = cancelledTasks \ {Message(d).task}
  BY ToldIs DEF AuthenticationFails
<1>2. cancelledTasks' \subseteq MessageTasks
      /\ cancellations' \in [MessageTasks -> Deliveries \cup {NoDelivery}]
  BY <1>1 DEF MessagesInv, MessagesTyped
<1>3. Told(d, "unauthorized") \in DeliveryRecords /\ Told(d, "unauthorized").message = Message(d)
      /\ Told(d, "unauthorized").stage = "answered" /\ Told(d, "unauthorized").answer = "unauthorized"
  BY ToldIs
<1>4. Reachable'
  <2>1. \A x \in Deliveries : Message(x)' = Message(x)
    BY <1>1, <1>3 DEF Message, MessagesInv, MessagesTyped
  <2> QED
    BY <1>1, <2>1 DEF MessagesInv, Reachable, IsActive
<1>5. Justified(Message(d), "unauthorized")
  BY DEF Justified
<1> QED
  BY <1>1, <1>2, <1>3, <1>4, <1>5, DeliveryKeeps

\* A message that has been seen joins its execution, gets its result, or is
\* told that its ids were another's.
LEMMA JoinKeeps ==
  ASSUME MessagesInv, NEW d \in Deliveries, Join(d)
  PROVE  MessagesInv'
<1> DEFINE m == Message(d)
           x == CHOOSE e \in Existing(m) : TRUE
<1>1. /\ received[d].stage = "authenticating" /\ x \in Existing(m)
      /\ UNCHANGED <<execution, replays, cancellations, cancelledTasks, approvalBindings, binding,
                     agent, reached>>
  BY DEF Join, handlerState
<1>2. m \in Messages /\ received[d] \in DeliveryRecords
  BY <1>1 DEF Message, MessagesInv, MessagesTyped, DeliveryRecords, Carried
<1>3. x \in Started /\ IsFiniteSet(Existing(m)) /\ SharesKey(m, x)
  BY <1>1, <1>2, ExistingStarted, ExistingIs DEF MessagesInv
<1>4. /\ cancelledTasks' \subseteq MessageTasks
      /\ cancellations' \in [MessageTasks -> Deliveries \cup {NoDelivery}]
  BY <1>1 DEF MessagesInv, MessagesTyped
<1>5. ASSUME NEW v \in DeliveryRecords, v.message = m, received' = [received EXCEPT ![d] = v]
      PROVE  Reachable'
  <2>1. \A e \in Deliveries : Message(e)' = Message(e)
    BY <1>5 DEF Message, MessagesInv, MessagesTyped
  <2> QED
    BY <1>1, <2>1 DEF MessagesInv, Reachable, IsActive
<1>6. CASE IsReplay(m)
  <2>1. received' = [received EXCEPT ![d] = Told(d, "replay")]
    BY <1>6, ToldIs DEF Join
  <2>2. Conflict(m)
    <3>1. Cardinality(Existing(m)) > 1 <=> \E y, z \in Existing(m) : y # z
      BY <1>3, TwoOfThem
    <3> QED
      BY <1>6, <3>1 DEF IsReplay, Conflict
  <2>3. /\ Told(d, "replay") \in DeliveryRecords /\ Told(d, "replay").message = m
        /\ Told(d, "replay").stage = "answered" /\ Told(d, "replay").answer = "replay"
    BY ToldIs
  <2>4. Justified(m, "replay") /\ Reachable'
    BY <1>5, <2>1, <2>2, <2>3 DEF Justified
  <2> QED
    BY <1>1, <1>4, <2>1, <2>3, <2>4, DeliveryKeeps
<1>7. CASE ~IsReplay(m) /\ execution[x].stage = "done"
  <2>1. PICK answer \in MessageResults :
          answer = execution[x].result /\ answer \notin {"replay", "invalid", "unauthorized"}
    BY <1>3, <1>7 DEF MessagesInv, MessagesTyped, ExecutionRecords, Carried, Started, MessageResults
  <2>2. received' = [received EXCEPT ![d] = Told(d, answer)]
    BY <1>7, <2>1, ToldIs DEF Join
  <2>3. Justified(m, answer)
    BY <1>1, <1>7, <2>1 DEF Justified, Outcome
  <2>4. /\ Told(d, answer) \in DeliveryRecords /\ Told(d, answer).message = m
        /\ Told(d, answer).stage = "answered" /\ Told(d, answer).answer = answer
    <3>1. answer \in {"none", "invalid", "unauthorized", "replay"} \cup MessageResults
      OBVIOUS
    <3> HIDE DEF x
    <3> QED
      BY <3>1, ToldIs
  <2>5. Reachable'
    BY <1>5, <2>2, <2>4
  <2> QED
    BY <1>1, <1>4, <2>2, <2>3, <2>4, <2>5, DeliveryKeeps
<1>8. CASE ~IsReplay(m) /\ execution[x].stage # "done"
  <2> DEFINE v == [received[d] EXCEPT !.stage = "waiting", !.execution = x]
  <2>1. received' = [received EXCEPT ![d] = v]
    BY <1>8 DEF Join, MessagesInv, MessagesTyped
  <2>2. v \in DeliveryRecords /\ v.message = m /\ v.stage = "waiting" /\ v.execution = x
    BY <1>2, <1>3 DEF DeliveryRecords, Started, Message
  <2>3. Awaits(m, x)
    BY <1>3 DEF Awaits
  <2> HIDE DEF v
  <2>4. Reachable'
    BY <1>5, <2>1, <2>2
  <2> QED
    BY <1>1, <1>4, <2>1, <2>2, <2>3, <2>4, DeliveryKeeps
<1> QED
  BY <1>6, <1>7, <1>8

\* When the execution a delivery waited for is done, none of its task runs.
LEMMA TaskIsQuiet ==
  ASSUME MessagesInv, NEW d \in Deliveries, received[d].stage = "waiting",
         execution[received[d].execution].stage = "done", NEW e \in Deliveries, IsActive(e)
  PROVE  Message(e).task # Message(d).task
<1> SUFFICES ASSUME Message(e).task = Message(d).task
             PROVE  FALSE
  OBVIOUS
<1>1. /\ ~Idles(d) /\ ~Idles(e) /\ e \in Started
      /\ Message(d) # NoMessage /\ Message(e) # NoMessage
  BY DEF Idles, Resolved, IsActive, Started, HasStarted, MessagesInv, Carried
<1>2. Message(e) = Message(d)
  BY <1>1 DEF MessagesInv, OneMessagePerTask
<1>3. PICK k \in ReplayKeys(Message(d)) : replays[k] = received[d].execution
  BY DEF MessagesInv, Served, Awaits, SharesKey
<1>4. replays[k] = e
  BY <1>1, <1>2, <1>3 DEF MessagesInv, Recorded
<1> QED
  BY <1>3, <1>4 DEF IsActive

LEMMA ReleasesKeeps ==
  ASSUME MessagesInv, NEW d \in Deliveries, received[d].stage = "waiting",
         execution[received[d].execution].stage = "done", Releases(d), execution' = execution,
         \A e \in Deliveries : Message(e)' = Message(e)
  PROVE  /\ cancellations' \in [MessageTasks -> Deliveries \cup {NoDelivery}]
         /\ cancelledTasks' \subseteq MessageTasks /\ Reachable'
<1>1. /\ cancellations' = [cancellations EXCEPT ![Message(d).task] = NoDelivery]
      /\ cancelledTasks' = cancelledTasks \ {Message(d).task}
  BY DEF Releases
<1>2. /\ cancellations' \in [MessageTasks -> Deliveries \cup {NoDelivery}]
      /\ cancelledTasks' \subseteq MessageTasks
  BY <1>1 DEF MessagesInv, MessagesTyped
<1>3. ASSUME NEW e \in Deliveries, IsActive(e)
      PROVE  cancellations'[Message(e).task] = e
  <2>1. Message(e) \in Messages
    BY <1>3 DEF MessagesInv, MessagesTyped, DeliveryRecords, Carried, HasStarted, IsActive, Message
  <2>2. Message(e).task \in MessageTasks /\ Message(e).task # Message(d).task
    BY <1>3, <2>1, MessageFields, TaskIsQuiet
  <2> QED
    BY <1>1, <1>3, <2>2 DEF MessagesInv, MessagesTyped, Reachable
<1>4. Reachable'
  BY <1>3 DEF Reachable, IsActive
<1> QED
  BY <1>2, <1>4

LEMMA WakeKeeps ==
  ASSUME MessagesInv, NEW d \in Deliveries, Wake(d)
  PROVE  MessagesInv'
<1> DEFINE x == received[d].execution
           answer == execution[x].result
<1>1. /\ received[d].stage = "waiting" /\ execution[x].stage = "done" /\ Answers(d, answer)
      /\ Releases(d) /\ UNCHANGED <<execution, replays, approvalBindings, binding, agent, reached>>
  BY DEF Wake
<1>2. Awaits(Message(d), x) /\ Message(d) \in Messages
  BY <1>1 DEF MessagesInv, MessagesTyped, DeliveryRecords, Carried, Served, Message
<1>3. x \in Started /\ x \in Deliveries /\ x \in Existing(Message(d))
  BY <1>2, ExistingIs, MessagesAssumption DEF Awaits, Started
<1>4. answer \in MessageResults /\ answer \notin {"replay", "invalid", "unauthorized"}
  BY <1>1, <1>3 DEF MessagesInv, MessagesTyped, ExecutionRecords, Carried, MessageResults
<1>5. /\ Told(d, answer) \in DeliveryRecords /\ Told(d, answer).message = Message(d)
      /\ Told(d, answer).stage = "answered" /\ Told(d, answer).answer = answer
      /\ received' = [received EXCEPT ![d] = Told(d, answer)]
  BY <1>1, <1>4, ToldIs
<1>6. Justified(Message(d), answer)
  BY <1>1, <1>3, <1>4 DEF Justified, Outcome
<1>7. \A e \in Deliveries : Message(e)' = Message(e)
  BY <1>5 DEF Message, MessagesInv, MessagesTyped
<1>8. /\ cancellations' \in [MessageTasks -> Deliveries \cup {NoDelivery}]
      /\ cancelledTasks' \subseteq MessageTasks /\ Reachable'
  BY <1>1, <1>7, ReleasesKeeps
<1> QED
  BY <1>1, <1>5, <1>6, <1>8, DeliveryKeeps

\* A cancel reaches what runs of its task, and changes nothing else.
LEMMA CancelReaches ==
  ASSUME MessagesInv, NEW t \in MessageTasks, CancelExecution(t)
  PROVE  /\ execution' \in [Deliveries -> ExecutionRecords]
         /\ cancelledTasks' \subseteq MessageTasks /\ reached' = TRUE
         /\ \A e \in Deliveries : /\ execution'[e].stage = execution[e].stage
                                  /\ execution'[e].result = execution[e].result
                                  /\ execution'[e].generation = execution[e].generation
<1> DEFINE x == cancellations[t]
<1>1. /\ execution \in [Deliveries -> ExecutionRecords]
      /\ x \in Deliveries \cup {NoDelivery}
  BY DEF MessagesInv, MessagesTyped
<1>2. cancelledTasks' \subseteq MessageTasks
  BY DEF CancelExecution, MessagesInv, MessagesTyped
<1>3. CASE x = NoDelivery
  <2>1. execution' = execution
    BY <1>3 DEF CancelExecution
  <2>2. \A e \in Deliveries : IsActive(e) => Message(e).task # t
    BY <1>3, MessagesAssumption DEF MessagesInv, Reachable
  <2>3. reached' = TRUE
    BY <2>2 DEF CancelExecution, IsActive, MessagesInv, MessagesTyped
  <2> QED
    BY <1>1, <1>2, <2>1, <2>3
<1>4. CASE x # NoDelivery
  <2> DEFINE w == [execution[x] EXCEPT !.cancelled = TRUE]
  <2>1. /\ w \in ExecutionRecords /\ w.stage = execution[x].stage /\ w.cancelled = TRUE
        /\ w.result = execution[x].result /\ w.generation = execution[x].generation
    BY <1>1, <1>4 DEF ExecutionRecords
  <2>2. execution' = [execution EXCEPT ![x] = w]
    BY <1>1, <1>4 DEF CancelExecution
  <2> HIDE DEF w
  <2>3. \A e \in Deliveries : execution'[e] = IF e = x THEN w ELSE execution[e]
    BY <1>1, <2>2
  <2>4. \A e \in Deliveries : IsActive(e) /\ Message(e).task = t => execution'[e].cancelled
    BY <2>1, <2>3 DEF MessagesInv, Reachable
  <2>5. reached' = TRUE
    BY <2>4 DEF CancelExecution, IsActive, MessagesInv, MessagesTyped
  <2> QED
    BY <1>1, <1>2, <1>4, <2>1, <2>2, <2>3, <2>5
<1> QED
  BY <1>3, <1>4

LEMMA AbandonKeeps ==
  ASSUME MessagesInv, NEW d \in Deliveries, Abandon(d)
  PROVE  MessagesInv'
<1> DEFINE v == [received[d] EXCEPT !.stage = "abandoned"]
<1>1. /\ received[d].stage = "waiting" /\ received' = [received EXCEPT ![d] = v]
      /\ UNCHANGED <<replays, approvalBindings, binding, agent>>
  BY DEF Abandon, MessagesInv, MessagesTyped
<1>2. v \in DeliveryRecords /\ v.message = Message(d) /\ v.stage = "abandoned"
  BY DEF MessagesInv, MessagesTyped, DeliveryRecords, Message
<1> HIDE DEF v
<1>3. /\ \A e \in Deliveries : received'[e] = IF e = d THEN v ELSE received[e]
      /\ received' \in [Deliveries -> DeliveryRecords]
  BY <1>1, <1>2 DEF MessagesInv, MessagesTyped
<1>4. \A e \in Deliveries : Message(e)' = Message(e)
  BY <1>2, <1>3 DEF Message
<1>5. CASE execution[received[d].execution].stage = "done"
  <2>1. Releases(d) /\ UNCHANGED <<execution, reached>>
    BY <1>5 DEF Abandon
  <2>2. /\ cancellations' \in [MessageTasks -> Deliveries \cup {NoDelivery}]
        /\ cancelledTasks' \subseteq MessageTasks /\ Reachable'
    BY <1>1, <1>4, <1>5, <2>1, ReleasesKeeps
  <2> QED
    BY <1>1, <1>2, <2>1, <2>2, DeliveryKeeps
<1>6. CASE execution[received[d].execution].stage # "done"
  <2>1. CancelExecution(Message(d).task) /\ UNCHANGED cancellations
    BY <1>6 DEF Abandon
  <2>2. Message(d).task \in MessageTasks
    <3>1. Message(d) \in Messages
      BY <1>1 DEF MessagesInv, MessagesTyped, DeliveryRecords, Carried, Message
    <3> QED
      BY <3>1, MessageFields
  <2>3. /\ execution' \in [Deliveries -> ExecutionRecords]
        /\ cancelledTasks' \subseteq MessageTasks /\ reached' = TRUE
        /\ \A e \in Deliveries : /\ execution'[e].stage = execution[e].stage
                                 /\ execution'[e].result = execution[e].result
                                 /\ execution'[e].generation = execution[e].generation
    BY <2>1, <2>2, CancelReaches
  <2>4. MessagesTyped'
    BY <1>1, <1>3, <2>1, <2>3 DEF MessagesInv, MessagesTyped
  <2>5. Continues
    BY <1>1, <1>2, <1>3, <1>4, <2>3 DEF Continues, HasStarted, IsActive
  <2>6. Reachable' /\ Bound' /\ \A y \in Started : Approved(y)'
    BY <1>1, <2>1, <2>3, <2>5, StillBound DEF Started
  <2>7. \A e \in Deliveries : execution'[e].stage = "done" => execution'[e].result # "none"
    BY <2>3 DEF MessagesInv, Carried
  <2>8. \A e \in Deliveries : received'[e] = received[e] \/
          /\ received[e].stage \in {"authenticating", "waiting"}
          /\ received'[e].stage = "abandoned"
    BY <1>1, <1>2, <1>3
  <2> QED
    BY <2>4, <2>5, <2>6, <2>7, <2>8, ContinuesKeeps
<1> QED
  BY <1>5, <1>6

\* Only executions that run change.
LEMMA HostCancelsKeeps ==
  ASSUME MessagesInv, NEW t \in MessageTasks, HostCancels(t)
  PROVE  MessagesInv'
<1>1. UNCHANGED <<received, replays, cancellations, approvalBindings, binding, agent>>
  BY DEF HostCancels
<1>2. /\ execution' \in [Deliveries -> ExecutionRecords]
      /\ cancelledTasks' \subseteq MessageTasks /\ reached' = TRUE
      /\ \A e \in Deliveries : /\ execution'[e].stage = execution[e].stage
                               /\ execution'[e].result = execution[e].result
                               /\ execution'[e].generation = execution[e].generation
  BY CancelReaches DEF HostCancels
<1>3. MessagesTyped'
  BY <1>1, <1>2 DEF MessagesInv, MessagesTyped
<1>4. Continues
  BY <1>1, <1>2 DEF Continues, HasStarted, IsActive, Message
<1>5. Reachable' /\ Bound' /\ \A y \in Started : Approved(y)'
  BY <1>1, <1>2, <1>4, StillBound DEF Started
<1>6. \A e \in Deliveries : execution'[e].stage = "done" => execution'[e].result # "none"
  BY <1>2 DEF MessagesInv, Carried
<1> QED
  BY <1>1, <1>3, <1>4, <1>5, <1>6, ContinuesKeeps

LEMMA ExecutionContinues ==
  ASSUME MessagesInv, NEW x \in Deliveries, NEW w \in ExecutionRecords, IsActive(x),
         execution' = [execution EXCEPT ![x] = w], w.stage \in {"created", "running", "done"},
         UNCHANGED <<received, replays>>
  PROVE  /\ Continues /\ x \in Started /\ Message(x) \in Messages
         /\ execution' \in [Deliveries -> ExecutionRecords]
         /\ \A e \in Deliveries : execution'[e] = IF e = x THEN w ELSE execution[e]
<1>1. /\ execution' \in [Deliveries -> ExecutionRecords]
      /\ \A e \in Deliveries : execution'[e] = IF e = x THEN w ELSE execution[e]
  BY DEF MessagesInv, MessagesTyped
<1>2. Continues /\ x \in Started
  BY <1>1 DEF Continues, HasStarted, IsActive, Message, Started
<1>3. Message(x) \in Messages
  BY DEF MessagesInv, MessagesTyped, DeliveryRecords, Carried, HasStarted, IsActive, Message
<1> QED
  BY <1>1, <1>2, <1>3

LEMMA ExecutionKeeps ==
  ASSUME MessagesInv, NEW x \in Deliveries, NEW w \in ExecutionRecords, IsActive(x),
         execution' = [execution EXCEPT ![x] = w], w.stage \in {"created", "running", "done"},
         w.stage = "done" => w.result # "none",
         UNCHANGED <<received, replays, cancellations, cancelledTasks, agent, reached>>,
         binding' \in [generation : {1}, expired : BOOLEAN],
         approvalBindings' \in [Messages -> Messages \cup {NoMessage}],
         Bound', Approved(x)'
  PROVE  MessagesInv'
<1>1. /\ Continues /\ execution' \in [Deliveries -> ExecutionRecords]
      /\ \A e \in Deliveries : execution'[e] = IF e = x THEN w ELSE execution[e]
  BY ExecutionContinues
<1>2. MessagesTyped'
  BY <1>1 DEF MessagesInv, MessagesTyped
<1>3. Reachable'
  BY <1>1, StillBound
<1>4. \A y \in Started : Approved(y)'
  <2> SUFFICES ASSUME NEW y \in Started, y # x
               PROVE  Approved(y)'
    OBVIOUS
  <2>1. execution'[y].generation = execution[y].generation
    BY <1>1 DEF Started
  <2> QED
    BY <1>1, <2>1, StillBound
<1>5. \A e \in Deliveries : execution'[e].stage = "done" => execution'[e].result # "none"
  BY <1>1 DEF MessagesInv, Carried
<1> QED
  BY <1>1, <1>2, <1>3, <1>4, <1>5, ContinuesKeeps

\* A finished execution.
Ended(x, result) == [execution[x] EXCEPT !.stage = "done", !.result = result]

LEMMA EndedIs ==
  ASSUME MessagesInv, NEW x \in Deliveries, NEW result \in MessageResults, Finishes(x, result)
  PROVE  /\ Ended(x, result) \in ExecutionRecords /\ Ended(x, result).stage = "done"
         /\ Ended(x, result).result = result /\ result # "none"
         /\ Ended(x, result).generation = execution[x].generation
         /\ execution' = [execution EXCEPT ![x] = Ended(x, result)]
<1>1. execution \in [Deliveries -> ExecutionRecords]
  BY DEF MessagesInv, MessagesTyped
<1> QED
  BY <1>1 DEF ExecutionRecords, Ended, Finishes, MessageResults

LEMMA FinishesKeeps ==
  ASSUME MessagesInv, NEW x \in Deliveries, NEW result \in MessageResults, Finishes(x, result),
         IsActive(x), binding' \in [generation : {1}, expired : BOOLEAN],
         UNCHANGED <<received, replays, cancellations, cancelledTasks, approvalBindings, agent,
                     reached>>
  PROVE  MessagesInv'
<1>1. /\ Ended(x, result) \in ExecutionRecords /\ Ended(x, result).stage = "done"
      /\ Ended(x, result).result = result /\ result # "none"
      /\ Ended(x, result).generation = execution[x].generation
      /\ execution' = [execution EXCEPT ![x] = Ended(x, result)]
  BY EndedIs
<1>2. Continues /\ x \in Started /\ execution'[x] = Ended(x, result)
  BY <1>1, ExecutionContinues
<1>3. Bound' /\ Approved(x)'
  BY <1>1, <1>2, StillBound
<1>4. approvalBindings' \in [Messages -> Messages \cup {NoMessage}]
  BY DEF MessagesInv, MessagesTyped
<1> QED
  BY <1>1, <1>3, <1>4, ExecutionKeeps

\* What runs is of the registration that was advertised and, after a challenge,
\* what that was issued for.
LEMMA BeginKeeps ==
  ASSUME MessagesInv, NEW x \in Deliveries, Begin(x)
  PROVE  MessagesInv'
<1> DEFINE reason == Refusal(x, Renewed)
<1>1. /\ execution[x].stage = "created" /\ IsActive(x) /\ binding' = Renewed
      /\ UNCHANGED <<received, replays, cancellations, cancelledTasks, approvalBindings, agent, reached>>
  BY DEF Begin, IsActive
<1>2. Renewed \in [generation : {1}, expired : BOOLEAN] /\ agent.available \in BOOLEAN
      /\ execution[x] \in ExecutionRecords
  BY DEF Renewed, MessagesInv, MessagesTyped
<1>3. reason \in {"none"} \cup MessageResults
  BY <1>2 DEF Refusal, Accepts, Unchanged, MessageResults, ExecutionRecords
<1>4. CASE reason = "none" /\ execution' = [execution EXCEPT ![x].stage = "running",
                                                             ![x].generation = agent.generation]
  <2> DEFINE w == [execution[x] EXCEPT !.stage = "running", !.generation = agent.generation]
  <2>1. Accepts(Renewed) /\ ApprovalMatches(Message(x))
    BY <1>2, <1>4 DEF Refusal, Accepts, Unchanged, ExecutionRecords
  <2>2. agent.generation = 1
    BY <1>2, <2>1 DEF Accepts, Unchanged
  <2>3. w \in ExecutionRecords /\ w.stage = "running"
    BY <1>2, <2>2 DEF ExecutionRecords
  <2>4. execution' = [execution EXCEPT ![x] = w]
    BY <1>4 DEF MessagesInv, MessagesTyped
  <2> HIDE DEF w
  <2>5. Continues /\ x \in Started /\ Message(x) \in Messages
    BY <1>1, <2>3, <2>4, ExecutionContinues
  <2>6. Bound' /\ approvalBindings' \in [Messages -> Messages \cup {NoMessage}]
    BY <1>1, <2>5, StillBound DEF MessagesInv, MessagesTyped
  <2>7. Approved(x)'
    <3> SUFFICES ASSUME Message(x).decision # "none"
                 PROVE  \E a \in Messages : /\ a.mid = Message(x).decision
                                            /\ Issued(a) = Issued(Message(x)) /\ Challenged(a)'
      BY <2>5, SameWitnesses DEF Approved, Issued
    <3>1. PICK a \in Messages : /\ a.mid = Message(x).decision /\ approvalBindings[a] # NoMessage
                                /\ Issued(approvalBindings[a]) = Issued(Message(x))
      BY <2>1 DEF ApprovalMatches
    <3>2. approvalBindings[a] = a /\ Challenged(a)
      BY <3>1 DEF MessagesInv, Bound
    <3> QED
      BY <2>5, <3>1, <3>2, SameVerdicts
  <2> QED
    BY <1>1, <1>2, <2>3, <2>4, <2>6, <2>7, ExecutionKeeps
<1>5. CASE reason # "none" /\ Finishes(x, reason)
  BY <1>1, <1>2, <1>3, <1>5, FinishesKeeps
<1>6. CASE Finishes(x, "refused")
  BY <1>1, <1>2, <1>6, FinishesKeeps DEF MessageResults
<1> QED
  BY <1>4, <1>5, <1>6 DEF Begin

LEMMA RuntimeAnswersKeeps ==
  ASSUME MessagesInv, NEW x \in Deliveries, RuntimeAnswers(x)
  PROVE  MessagesInv'
<1>1. /\ IsActive(x)
      /\ UNCHANGED <<received, replays, cancellations, cancelledTasks, binding, agent, reached>>
      /\ binding' \in [generation : {1}, expired : BOOLEAN]
  BY DEF RuntimeAnswers, IsActive, MessagesInv, MessagesTyped
<1>2. CASE Finishes(x, "success") /\ UNCHANGED approvalBindings
  BY <1>1, <1>2, FinishesKeeps DEF MessageResults
<1>3. CASE Finishes(x, "cancelled") /\ UNCHANGED approvalBindings
  BY <1>1, <1>3, FinishesKeeps DEF MessageResults
<1>4. CASE /\ Finishes(x, "approval_required")
           /\ approvalBindings' = [approvalBindings EXCEPT ![Message(x)] = Message(x)]
  <2> DEFINE w == Ended(x, "approval_required")
  <2>1. /\ w \in ExecutionRecords /\ w.stage = "done" /\ w.result = "approval_required"
        /\ w.generation = execution[x].generation /\ execution' = [execution EXCEPT ![x] = w]
    BY <1>4, EndedIs DEF MessageResults
  <2> HIDE DEF w
  <2>2. /\ Continues /\ x \in Started /\ Message(x) \in Messages
        /\ execution'[x] = w
    BY <1>1, <2>1, ExecutionContinues
  <2>3. Approved(x)'
    BY <2>1, <2>2, StillBound
  <2>4. approvalBindings' \in [Messages -> Messages \cup {NoMessage}]
        /\ \A a \in Messages : approvalBindings'[a] =
             IF a = Message(x) THEN Message(x) ELSE approvalBindings[a]
    BY <1>4, <2>2 DEF MessagesInv, MessagesTyped
  <2>5. PICK m \in Messages : m = Message(x)
    BY <2>2
  <2>6. Challenged(m)'
    BY <2>1, <2>2, <2>5, SameWitnesses DEF Challenged
  <2>7. \A a \in Messages : approvalBindings'[a] # NoMessage =>
          approvalBindings'[a] = a /\ Challenged(a)'
    BY <2>2, <2>4, <2>5, <2>6, SameVerdicts DEF MessagesInv, Bound
  <2>8. Bound'
    BY <2>7 DEF Bound
  <2> QED
    BY <1>1, <2>1, <2>3, <2>4, <2>8, ExecutionKeeps
<1> QED
  BY <1>2, <1>3, <1>4 DEF RuntimeAnswers

LEMMA RegistryKeeps ==
  ASSUME MessagesInv, Registry
  PROVE  MessagesInv'
<1>1. /\ binding' \in [generation : {1}, expired : BOOLEAN]
      /\ agent' \in [generation : 1 .. MaxGeneration, available : BOOLEAN]
      /\ UNCHANGED <<received, execution, replays, cancellations, cancelledTasks, approvalBindings,
                     reached>>
  <2>1. /\ binding \in [generation : {1}, expired : BOOLEAN]
        /\ agent \in [generation : 1 .. MaxGeneration, available : BOOLEAN]
        /\ UNCHANGED <<received, execution, replays, cancellations, cancelledTasks, approvalBindings,
                       reached>>
    BY DEF Registry, MessagesInv, MessagesTyped
  <2>2. CASE /\ agent.generation < MaxGeneration
             /\ agent' = [generation |-> agent.generation + 1, available |-> TRUE]
             /\ UNCHANGED binding
    BY <2>1, <2>2, MessagesAssumption
  <2>3. CASE agent' = [agent EXCEPT !.available = ~agent.available] /\ UNCHANGED binding
    <3>1. agent' = [generation |-> agent.generation, available |-> ~agent.available]
      BY <2>1, <2>3
    <3> QED
      BY <2>1, <2>3, <3>1
  <2>4. CASE binding' = [binding EXCEPT !.expired = TRUE] /\ UNCHANGED agent
    BY <2>1, <2>4
  <2> QED
    BY <2>1, <2>2, <2>3, <2>4 DEF Registry
<1>2. MessagesTyped' /\ Continues
  BY <1>1 DEF MessagesInv, MessagesTyped, Continues, HasStarted, IsActive, Message
<1>3. Reachable' /\ Bound' /\ \A y \in Started : Approved(y)'
  BY <1>1, <1>2, StillBound
<1> QED
  BY <1>1, <1>2, <1>3, ContinuesKeeps DEF MessagesInv, Carried

LEMMA DeliverKeeps ==
  ASSUME MessagesInv, NEW d \in Deliveries, NEW m \in Messages, Deliver(d, m)
  PROVE  MessagesInv'
<1> DEFINE v == [stage |-> IF m.valid THEN "authenticating" ELSE "answered", message |-> m,
                 execution |-> NoDelivery, answer |-> IF m.valid THEN "none" ELSE "invalid"]
<1>1. /\ received[d].stage = "idle" /\ TaskIsFree(m) /\ received' = [received EXCEPT ![d] = v]
      /\ UNCHANGED <<execution, replays, cancellations, cancelledTasks, approvalBindings, binding,
                     agent, reached>>
  BY DEF Deliver, handlerState
<1>2. /\ v \in DeliveryRecords /\ v.message = m /\ v.stage \in {"authenticating", "answered"}
      /\ v.stage = "answered" => v.answer = "invalid"
  BY MessageFields DEF DeliveryRecords
<1> HIDE DEF v
<1>3. /\ \A e \in Deliveries : received'[e] = IF e = d THEN v ELSE received[e]
      /\ received' \in [Deliveries -> DeliveryRecords]
  BY <1>1, <1>2 DEF MessagesInv, MessagesTyped
<1>4. /\ Message(d) = NoMessage /\ ~HasStarted(d) /\ d \notin Started
      /\ Message(d)' = m /\ \A e \in Deliveries \ {d} : Message(e)' = Message(e)
  BY <1>1, <1>2, <1>3 DEF MessagesInv, Carried, HasStarted, Started, Message
<1>5. MessagesTyped' /\ Started' = Started
  BY <1>1, <1>3 DEF MessagesInv, MessagesTyped, Started
<1>6. Grows
  BY <1>1, <1>4 DEF Grows, Started, HasStarted
<1>7. \A e \in Deliveries : Carried(e)'
  BY <1>1, <1>2, <1>3, <1>4, MessageFields DEF MessagesInv, Carried, HasStarted
<1>8. ASSUME NEW e \in Deliveries
      PROVE  Served(e)'
  <2>1. CASE e = d
    BY <1>2, <1>3, <2>1 DEF Served, Justified
  <2>2. CASE e # d
    <3> SUFFICES ASSUME received[e].stage \in {"waiting", "answered"}
                 PROVE  Served(e)'
      BY <1>3, <2>2 DEF Served
    <3>1. PICK n \in Messages : Message(e) = n /\ Message(e)' = n
      BY <1>4, <2>2 DEF Message, MessagesInv, MessagesTyped, DeliveryRecords, Carried
    <3>2. PICK x, answer : x = received'[e].execution /\ answer = received'[e].answer
      OBVIOUS
    <3>3. /\ received'[e].stage = "waiting" => Awaits(n, x)
          /\ received'[e].stage = "answered" => Justified(n, answer)
      BY <1>3, <2>2, <3>1, <3>2 DEF MessagesInv, Served
    <3>4. /\ received'[e].stage = "waiting" => Awaits(n, x)'
          /\ received'[e].stage = "answered" => Justified(n, answer)'
      BY <1>6, <3>3, VerdictsStay
    <3> QED
      BY <3>1, <3>2, <3>4 DEF Served
  <2> QED
    BY <2>1, <2>2
<1>9. Recorded'
  BY <1>1, <1>4, <1>5 DEF MessagesInv, Recorded, Started
<1>10. OneMessagePerTask'
  <2>1. \A e \in Deliveries \ {d} : Idles(e)' <=> Idles(e)
    BY <1>1, <1>3 DEF Idles, Resolved
  <2>2. \A e \in Deliveries \ {d} :
          Message(e) # NoMessage /\ Message(e) # m /\ Message(e).task = m.task => Idles(e)
    BY <1>1 DEF TaskIsFree, Idles
  <2>3. ASSUME NEW e \in Deliveries, NEW f \in Deliveries, Message(e)' # NoMessage,
               Message(f)' # NoMessage, Message(e)'.task = Message(f)'.task, Message(e)' # Message(f)'
        PROVE  Idles(e)' \/ Idles(f)'
    <3>1. CASE e = d
      BY <1>4, <2>1, <2>2, <2>3, <3>1
    <3>2. CASE f = d
      BY <1>4, <2>1, <2>2, <2>3, <3>2
    <3>3. CASE e # d /\ f # d
      BY <1>4, <2>1, <2>3, <3>3 DEF MessagesInv, OneMessagePerTask
    <3> QED
      BY <3>1, <3>2, <3>3
  <2> QED
    BY <2>3 DEF OneMessagePerTask
<1>11. Reachable'
  BY <1>1, <1>4 DEF MessagesInv, Reachable, IsActive, HasStarted
<1>12. Bound'
  BY <1>1, <1>6, VerdictsStay DEF MessagesInv, Bound
<1>13. ASSUME NEW x \in Started
       PROVE  Approved(x)'
  <2>1. Message(x)' = Message(x)
    BY <1>4, <1>13 DEF Started
  <2> QED
    BY <1>1, <1>6, <1>13, <2>1, VerdictsStay DEF MessagesInv, Approved
<1> QED
  BY <1>5, <1>7, <1>8, <1>9, <1>10, <1>11, <1>12, <1>13 DEF MessagesInv

\* A message that was not seen is recorded under both its ids, and its execution
\* is what a cancel of its task reaches.
LEMMA CreateKeeps ==
  ASSUME MessagesInv, NEW d \in Deliveries, Create(d)
  PROVE  MessagesInv'
<1> DEFINE v == [received[d] EXCEPT !.stage = "waiting", !.execution = d]
           w == [execution[d] EXCEPT !.stage = "created",
                                     !.cancelled = Message(d).task \in cancelledTasks]
<1>0. received[d].stage = "authenticating" /\ received[d] \in DeliveryRecords
      /\ execution[d] \in ExecutionRecords /\ received \in [Deliveries -> DeliveryRecords]
      /\ execution \in [Deliveries -> ExecutionRecords]
  BY DEF Create, MessagesInv, MessagesTyped
<1>1. PICK m \in Messages : m = Message(d)
  BY <1>0 DEF MessagesInv, Carried, DeliveryRecords, Message
<1>2. /\ Existing(m) = {} /\ received' = [received EXCEPT ![d] = v]
      /\ execution' = [execution EXCEPT ![d] = w]
      /\ cancellations' = [cancellations EXCEPT ![m.task] = d]
      /\ replays' = [k \in Keys |-> IF k \in ReplayKeys(m) THEN d ELSE replays[k]]
      /\ UNCHANGED <<cancelledTasks, approvalBindings, binding, agent, reached>>
  BY <1>0, <1>1 DEF Create, Registered, RecordedKeys
<1>3. /\ v \in DeliveryRecords /\ v.message = m /\ v.stage = "waiting" /\ v.execution = d
      /\ w \in ExecutionRecords /\ w.stage = "created"
      /\ ~HasStarted(d) /\ w.generation = 0
  <2>1. v \in DeliveryRecords /\ v.message = m /\ v.stage = "waiting" /\ v.execution = d
    BY <1>0, <1>1 DEF DeliveryRecords, Message
  <2>2. ~HasStarted(d) /\ execution[d].generation = 0
    BY <1>0 DEF MessagesInv, Carried
  <2>3. /\ [execution[d] EXCEPT !.stage = "created", !.cancelled = TRUE] \in ExecutionRecords
        /\ [execution[d] EXCEPT !.stage = "created", !.cancelled = FALSE] \in ExecutionRecords
    BY <1>0 DEF ExecutionRecords
  <2>4. \/ w = [execution[d] EXCEPT !.stage = "created", !.cancelled = TRUE]
        \/ w = [execution[d] EXCEPT !.stage = "created", !.cancelled = FALSE]
    <3>1. CASE Message(d).task \in cancelledTasks
      <4>1. (Message(d).task \in cancelledTasks) = TRUE
        BY <3>1
      <4> QED
        BY <4>1
    <3>2. CASE Message(d).task \notin cancelledTasks
      <4>1. (Message(d).task \in cancelledTasks) = FALSE
        BY <3>2
      <4> QED
        BY <4>1
    <3> QED
      BY <3>1, <3>2
  <2>5. w \in ExecutionRecords /\ w.stage = "created" /\ w.generation = 0
    BY <1>0, <2>2, <2>3, <2>4 DEF ExecutionRecords
  <2> QED
    BY <2>1, <2>2, <2>5
<1> HIDE DEF v, w
<1>4. /\ \A e \in Deliveries : /\ received'[e] = IF e = d THEN v ELSE received[e]
                               /\ execution'[e] = IF e = d THEN w ELSE execution[e]
      /\ received' \in [Deliveries -> DeliveryRecords]
      /\ execution' \in [Deliveries -> ExecutionRecords]
  BY <1>0, <1>2, <1>3
<1>5. /\ m.task \in MessageTasks /\ ReplayKeys(m) \subseteq Keys
      /\ replays \in [Keys -> Deliveries \cup {NoDelivery}]
      /\ cancellations \in [MessageTasks -> Deliveries \cup {NoDelivery}]
  BY MessageFields DEF MessagesInv, MessagesTyped
<1>6. MessagesTyped'
  BY <1>2, <1>4, <1>5 DEF MessagesInv, MessagesTyped
<1>7. /\ \A e \in Deliveries : Message(e)' = Message(e)
      /\ Started' = Started \cup {d} /\ d \notin Started
  BY <1>1, <1>3, <1>4 DEF Message, Started, HasStarted
<1>8. \A k \in ReplayKeys(m) : replays[k] = NoDelivery /\ replays'[k] = d
  BY <1>2, <1>5, ExistingIs DEF SharesKey
<1>9. Grows
  BY <1>2, <1>4, <1>7, <1>8 DEF Grows, Started, HasStarted
<1>10. \A e \in Deliveries : Carried(e)'
  BY <1>0, <1>3, <1>4, <1>7 DEF MessagesInv, Carried, HasStarted
<1>11. ASSUME NEW e \in Deliveries
       PROVE  Served(e)'
  <2>1. CASE e = d
    <3>1. PICK k : k \in ReplayKeys(m)
      BY DEF ReplayKeys
    <3>2. replays'[k] = d
      BY <1>8, <3>1
    <3>3. Message(e)' = m
      BY <1>1, <1>7, <2>1
    <3> QED
      BY <1>3, <1>4, <1>7, <2>1, <3>1, <3>2, <3>3 DEF Served, Awaits, SharesKey
  <2>2. CASE e # d
    <3> SUFFICES ASSUME received[e].stage \in {"waiting", "answered"}
                 PROVE  Served(e)'
      BY <1>4, <2>2 DEF Served
    <3>1. PICK n \in Messages : Message(e) = n /\ Message(e)' = n
      BY <1>0, <1>7 DEF Message, MessagesInv, DeliveryRecords, Carried
    <3>2. PICK x, answer : x = received'[e].execution /\ answer = received'[e].answer
      OBVIOUS
    <3>3. /\ received'[e].stage = "waiting" => Awaits(n, x)
          /\ received'[e].stage = "answered" => Justified(n, answer)
      BY <1>4, <2>2, <3>1, <3>2 DEF MessagesInv, Served
    <3>4. /\ received'[e].stage = "waiting" => Awaits(n, x)'
          /\ received'[e].stage = "answered" => Justified(n, answer)'
      BY <1>9, <3>3, VerdictsStay
    <3> QED
      BY <3>1, <3>2, <3>4 DEF Served
  <2> QED
    BY <2>1, <2>2
<1>12. Recorded'
  <2>1. ASSUME NEW x \in Started'
        PROVE  \A k \in ReplayKeys(Message(x)) : replays'[k] = x
    <3>1. CASE x = d
      BY <1>1, <1>8, <3>1
    <3>2. CASE x # d
      <4>1. x \in Started /\ Message(x) \in Messages
        BY <1>0, <1>7, <2>1, <3>2
        DEF Message, MessagesInv, DeliveryRecords, Carried, Started, HasStarted
      <4>2. ReplayKeys(Message(x)) \subseteq Keys
        BY <4>1, MessageFields
      <4> QED
        BY <1>9, <4>1, <4>2, MessagesAssumption DEF Grows, MessagesInv, Recorded, Started
    <3> QED
      BY <3>1, <3>2
  <2>2. ASSUME NEW k \in Keys, replays'[k] # NoDelivery
        PROVE  replays'[k] \in Started' /\ k \in ReplayKeys(Message(replays'[k]))
    <3>1. CASE k \in ReplayKeys(m)
      BY <1>1, <1>7, <1>8, <3>1
    <3>2. CASE k \notin ReplayKeys(m)
      BY <1>2, <1>7, <2>2, <3>2 DEF MessagesInv, Recorded
    <3> QED
      BY <3>1, <3>2
  <2>3. \A x \in Deliveries : ReplayKeys(Message(x))' = ReplayKeys(Message(x))
    BY <1>7 DEF ReplayKeys
  <2>4. Started' \subseteq Deliveries
    BY DEF Started
  <2> QED
    BY <2>1, <2>2, <2>3, <2>4 DEF Recorded
<1>13. OneMessagePerTask'
  <2>1. \A e \in Deliveries : Idles(e) => Idles(e)'
    BY <1>0, <1>4 DEF Idles, Resolved
  <2> QED
    BY <1>7, <2>1 DEF MessagesInv, OneMessagePerTask
<1>14. Reachable'
  <2>1. ASSUME NEW e \in Deliveries, IsActive(e)', e # d
        PROVE  cancellations'[Message(e).task] = e
    <3>1. IsActive(e) /\ ~Idles(e) /\ ~Idles(d) /\ e \in Started
      BY <1>0, <1>4, <2>1 DEF IsActive, Idles, Resolved, Started
    <3>2. Message(e) # NoMessage /\ Message(e) \in Messages
      BY <1>0, <3>1 DEF MessagesInv, Carried, HasStarted, Started, DeliveryRecords, Message
    <3>3. Message(e).task \in MessageTasks
      BY <3>2, MessageFields
    <3>4. Message(e) # m
      <4>1. PICK k : k \in ReplayKeys(m)
        BY DEF ReplayKeys
      <4> QED
        BY <1>8, <3>1, <4>1, MessagesAssumption DEF MessagesInv, Recorded
    <3>5. Message(e).task # m.task
      BY <1>1, <3>1, <3>2, <3>4, MessageFields DEF MessagesInv, OneMessagePerTask
    <3> QED
      BY <1>2, <1>5, <3>1, <3>3, <3>5 DEF MessagesInv, Reachable
  <2>2. cancellations'[m.task] = d
    BY <1>2, <1>5
  <2> QED
    BY <1>1, <1>7, <2>1, <2>2 DEF Reachable
<1>15. Bound'
  BY <1>2, <1>9, VerdictsStay DEF MessagesInv, Bound
<1>16. ASSUME NEW x \in Started'
       PROVE  Approved(x)'
  <2>1. CASE x = d
    BY <1>3, <1>4, <2>1 DEF Approved
  <2>2. CASE x # d
    <3>1. x \in Started /\ Message(x)' = Message(x) /\ execution'[x] = execution[x]
      BY <1>4, <1>7, <1>16, <2>2 DEF Started
    <3> QED
      BY <1>9, <3>1, VerdictsStay DEF MessagesInv, Approved
  <2> QED
    BY <2>1, <2>2
<1> QED
  BY <1>6, <1>10, <1>11, <1>12, <1>13, <1>14, <1>15, <1>16 DEF MessagesInv

LEMMA MessagesInvInit ==
  MessagesInit => MessagesInv
<1> SUFFICES ASSUME MessagesInit
             PROVE  MessagesInv
  OBVIOUS
<1>1. \A d \in Deliveries : /\ received[d].stage = "idle" /\ Message(d) = NoMessage
                            /\ execution[d] = NoExecution
  BY DEF MessagesInit, Message
<1>2. Started = {} /\ \A d \in Deliveries : ~HasStarted(d) /\ ~IsActive(d)
  BY <1>1 DEF Started, HasStarted, IsActive, NoExecution
<1>3. MessagesTyped
  BY MessagesAssumption DEF MessagesInit, MessagesTyped, DeliveryRecords, ExecutionRecords, NoExecution
<1>4. \A d \in Deliveries : Carried(d) /\ Served(d)
  BY <1>1, <1>2 DEF Carried, Served, NoExecution
<1>5. Recorded /\ OneMessagePerTask /\ Reachable /\ Bound
  BY <1>1, <1>2 DEF MessagesInit, Recorded, OneMessagePerTask, Reachable, Bound
<1> QED
  BY <1>2, <1>3, <1>4, <1>5 DEF MessagesInv

LEMMA MessagesInvStep ==
  MessagesInv /\ [MessagesNext]_messageVars => MessagesInv'
<1> SUFFICES ASSUME MessagesInv, [MessagesNext]_messageVars
             PROVE  MessagesInv'
  OBVIOUS
<1>1. CASE UNCHANGED messageVars
  <2>1. UNCHANGED <<received, execution, replays, cancellations, cancelledTasks, approvalBindings,
                    binding, agent, reached>>
    BY <1>1 DEF messageVars, handlerState
  <2>2. MessagesTyped' /\ Continues
    BY <2>1 DEF MessagesInv, MessagesTyped, Continues, HasStarted, IsActive, Message
  <2>3. Reachable' /\ Bound' /\ \A y \in Started : Approved(y)'
    BY <2>1, <2>2, StillBound
  <2> QED
    BY <2>1, <2>2, <2>3, ContinuesKeeps DEF MessagesInv, Carried
<1> QED
  BY <1>1, FailsKeeps, JoinKeeps, CreateKeeps, WakeKeeps, AbandonKeeps, BeginKeeps,
     RuntimeAnswersKeeps, DeliverKeeps, HostCancelsKeeps, RegistryKeeps DEF MessagesNext

LEMMA MessagesInvariant == MessagesSpec => []MessagesInv
BY MessagesInvInit, MessagesInvStep, PTL DEF MessagesSpec

\* However often a message is delivered, and under whichever of its ids, it is
\* executed once, and every delivery that is answered with an outcome gets the
\* outcome of that execution (_invoke_once).
THEOREM ExecutedAndAnsweredOnce == MessagesSpec => []OneExecutionOneAnswer
<1>1. MessagesInv => OneExecutionOneAnswer
  <2> SUFFICES ASSUME MessagesInv
               PROVE  OneExecutionOneAnswer
    OBVIOUS
  <2>1. ExecutedOnce
    BY DEF MessagesInv, Recorded, ExecutedOnce
  <2>2. RetriesShareTheAnswer
    <3> SUFFICES ASSUME NEW d \in Deliveries, received[d].stage = "answered",
                        received[d].answer \notin {"invalid", "unauthorized"}
                 PROVE  LET m == Message(d)  answer == received[d].answer
                            same == {x \in Started : ReplayKeys(Message(x)) \cap ReplayKeys(m) # {}}
                        IN IF answer = "replay"
                           THEN \/ Cardinality(same) > 1
                                \/ \E x \in same : \/ Message(x).arguments # m.arguments
                                                   \/ Message(x).task # m.task
                           ELSE \E x \in same : execution[x].result = answer
      BY DEF RetriesShareTheAnswer
    <3> DEFINE m == Message(d)
               same == {x \in Started : ReplayKeys(Message(x)) \cap ReplayKeys(m) # {}}
    <3>1. m \in Messages
      BY DEF MessagesInv, MessagesTyped, DeliveryRecords, Carried, Message
    <3>2. Existing(m) = same /\ IsFiniteSet(same)
      BY <3>1, ExistingStarted DEF MessagesInv
    <3>3. Justified(m, received[d].answer)
      BY DEF MessagesInv, Served
    <3>4. CASE received[d].answer = "replay"
      <4>1. Conflict(m)
        BY <3>3, <3>4 DEF Justified
      <4>2. Cardinality(same) > 1 <=> \E x, y \in same : x # y
        BY <3>2, TwoOfThem
      <4> QED
        BY <3>2, <3>4, <4>1, <4>2 DEF Conflict, Fingerprint
    <3>5. CASE received[d].answer # "replay"
      BY <3>2, <3>3, <3>5 DEF Justified, Outcome
    <3> QED
      BY <3>4, <3>5
  <2> QED
    BY <2>1, <2>2 DEF OneExecutionOneAnswer
<1> QED
  BY <1>1, MessagesInvariant, PTL

\* A cancel that comes while an execution of the task is under way reaches it,
\* also when another delivery's waiter has just gone (cancel, _invoke_once).
THEOREM CancelsReach == MessagesSpec => []CancelsReachTheirTask
<1>1. MessagesInv => CancelsReachTheirTask
  BY DEF MessagesInv, MessagesTyped, CancelsReachTheirTask
<1> QED
  BY <1>1, MessagesInvariant, PTL

\* No registration but the advertised one runs, and an approved resume runs only
\* what its challenge was issued for (_execute, accept_binding, _refresh_binding).
THEOREM RunsOnlyApproved == MessagesSpec => []OnlyWhatWasApprovedRuns
<1>1. MessagesInv => OnlyWhatWasApprovedRuns
  <2> SUFFICES ASSUME MessagesInv
               PROVE  OnlyWhatWasApprovedRuns
    OBVIOUS
  <2>1. ReplacedAgentsDoNotRun
    BY DEF MessagesInv, MessagesTyped, ExecutionRecords, ReplacedAgentsDoNotRun, Started
  <2>2. ResumesRunWhatWasApproved
    BY DEF MessagesInv, Approved, Challenged, ResumesRunWhatWasApproved
  <2> QED
    BY <2>1, <2>2 DEF OnlyWhatWasApprovedRuns
<1> QED
  BY <1>1, MessagesInvariant, PTL

-----------------------------------------------------------------------------
(***************************************************************************)
(* Tokens: the state and the invariant.  What is in the cache answers the   *)
(* key it is found by, whoever put it there.                                *)
(***************************************************************************)
Exchanges == [subject : Subjects, destination : Destinations, scopes : SUBSET Scopes]
SoundEntries ==
  {e \in [key : Subjects \X Destinations \X SUBSET Scopes,
          token : [for : Exchanges, exp : Nat] \cup {None}, lock : Locks] :
     e.token # None => e.token \in [for : Exchanges, exp : Nat] /\ KeyOf(e.token.for) = e.key}

AtWork == {"waiting", "acquiring"}
TokenTyped ==
  /\ clock \in Nat
  /\ stage \in [Requests -> AtWork \cup {"new", "rejected", "certificate_only", "known", "denied",
                                         "served", "failed"}]
  /\ identity \in [Requests -> [subject : Subjects, scopes : SUBSET Scopes] \cup {None}]
  /\ wants \in [Requests -> Exchanges \cup {None}]
  /\ got \in [Requests -> [for : Exchanges, left : Nat, from : {"cache", "server"}] \cup {None}]
  /\ lockOf \in [Requests -> Locks \cup {None}]
  /\ line \in [Locks -> Seq(Requests)]
  /\ entries \in Seq(SoundEntries)

\* A request acts with the identity its bearer gave it, and within it.
Entitled(q) ==
  /\ stage[q] \in AtWork \cup {"known", "served"} =>
       /\ identity[q] \in [subject : Subjects, scopes : SUBSET Scopes]
       /\ identity[q].scopes \subseteq AllowedHere
  /\ stage[q] \in AtWork \cup {"served"} =>
       /\ wants[q] \in Exchanges
       /\ wants[q].subject = identity[q].subject
       /\ wants[q].scopes \subseteq identity[q].scopes
  /\ stage[q] = "served" =>
       got[q].for = wants[q] /\ (got[q].from = "cache" => got[q].left > RefreshSkew)

\* The lines are of the requests at work, each once, in the line of its lock.
Single(s) == \A i, j \in 1 .. Len(s) : s[i] = s[j] => i = j
Lined ==
  /\ \A l \in Locks : /\ Single(line[l])
                      /\ \A i \in 1 .. Len(line[l]) : /\ stage[line[l][i]] \in AtWork
                                                      /\ lockOf[line[l][i]] = l
  /\ \A q \in Requests : stage[q] \in AtWork =>
       lockOf[q] \in Locks /\ \E i \in 1 .. Len(line[lockOf[q]]) : line[lockOf[q]][i] = q

TokenInv == TokenTyped /\ (\A q \in Requests : Entitled(q)) /\ Lined

LEMMA OthersKept ==
  ASSUME NEW S, entries \in Seq(S), NEW key
  PROVE  /\ Others(key) \in Seq(S)
         /\ Held(key) => EntryOf(key) \in S /\ EntryOf(key).key = key
<1>1. CASE ~Held(key)
  BY <1>1 DEF Others
<1>2. CASE Held(key)
  <2>1. Position(key) \in 1 .. Len(entries) /\ entries[Position(key)].key = key
    BY <1>2 DEF Held, Position
  <2> DEFINE p == Position(key)
  <2>2. SubSeq(entries, 1, p - 1) \in Seq(S) /\ SubSeq(entries, p + 1, Len(entries)) \in Seq(S)
    BY <2>1, SubSeqProperties
  <2> QED
    BY <1>2, <2>1, <2>2, ConcatProperties DEF Others, EntryOf
<1> QED
  BY <1>1, <1>2

LEMMA StoredKept ==
  ASSUME NEW S, entries \in Seq(S), NEW e \in S
  PROVE  Stored(e) \in Seq(S)
<1> DEFINE all == Append(Others(e.key), e)
<1>1. all \in Seq(S)
  BY OthersKept, AppendProperties
<1> DEFINE n == IF Len(all) > MaxEntries THEN Len(all) - MaxEntries + 1 ELSE 1
<1>2. n \in 1 .. Len(all) + 1
  BY <1>1, TokenAssumption, LenProperties
<1>3. SubSeq(all, n, Len(all)) \in Seq(S)
  <2> HIDE DEF all, n
  <2> QED  BY <1>1, <1>2, SubSeqProperties
<1> QED
  BY <1>3 DEF Stored

\* What remains of a line when one of it leaves: t has everyone else of s.
Lost(t, s, q) ==
  /\ Len(t) = Len(s) - 1 /\ Single(t)
  /\ \A i \in 1 .. Len(s) - 1 : t[i] # q /\ \E j \in 1 .. Len(s) : t[i] = s[j]
  /\ \A j \in 1 .. Len(s) : s[j] # q => \E i \in 1 .. Len(s) - 1 : t[i] = s[j]

LEMMA BehindKept ==
  ASSUME NEW S, NEW s \in Seq(S), Single(s), NEW q, NEW k \in 1 .. Len(s), s[k] = q
  PROVE  Behind(s, q) \in Seq(S) /\ Lost(Behind(s, q), s, q)
<1> DEFINE b == Behind(s, q)
<1>1. Len(s) \in Nat /\ s \in [1 .. Len(s) -> S] /\ Len(s) >= 1
  BY LenProperties
<1>2. ASSUME NEW i \in 1 .. Len(s) - 1
      PROVE  b[i] = IF k <= i THEN s[i + 1] ELSE s[i]
  <2>1. (\E j \in 1 .. i : s[j] = q) <=> k <= i
    BY <1>1 DEF Single
  <2> QED
    BY <1>1, <2>1 DEF Behind
<1>3. b \in [1 .. Len(s) - 1 -> S]
  <2>1. \A i \in 1 .. Len(s) - 1 : s[i] \in S /\ s[i + 1] \in S
    BY <1>1
  <2> QED
    BY <2>1 DEF Behind
<1> HIDE DEF b
<1>4. b \in Seq(S) /\ Len(b) = Len(s) - 1
  <2> DEFINE n == Len(s) - 1
             c == SubSeq(b, 1, n)
  <2>1. n \in Nat /\ b \in [1 .. n -> S]
    BY <1>1, <1>3
  <2> HIDE DEF n
  <2>2. c \in Seq(S) /\ Len(c) = n /\ \A i \in 1 .. n : c[i] = b[i]
    BY <2>1, SubSeqProperties
  <2>3. c \in [1 .. n -> S]
    BY <2>2, LenProperties
  <2>4. b = c
    <3> HIDE DEF c
    <3> QED  BY <2>1, <2>2, <2>3
  <2>5. b \in Seq(S) /\ Len(b) = n
    BY <2>2, <2>4
  <2> QED
    BY <2>5 DEF n
<1>5. Single(b)
  BY <1>1, <1>2, <1>4 DEF Single
<1>6. \A i \in 1 .. Len(s) - 1 : b[i] # q /\ \E j \in 1 .. Len(s) : b[i] = s[j]
  BY <1>1, <1>2 DEF Single
<1>7. ASSUME NEW j \in 1 .. Len(s), s[j] # q
      PROVE  \E i \in 1 .. Len(s) - 1 : b[i] = s[j]
  <2>1. CASE j < k
    BY <1>1, <1>2, <2>1
  <2>2. CASE j > k
    <3>1. j - 1 \in 1 .. Len(s) - 1 /\ k <= j - 1
      BY <1>1, <2>2
    <3>2. b[j - 1] = s[(j - 1) + 1]
      BY <1>2, <3>1
    <3>3. (j - 1) + 1 = j
      BY <1>1
    <3> QED
      BY <3>1, <3>2, <3>3
  <2>3. j # k
    BY <1>7
  <2> QED
    BY <1>1, <2>1, <2>2, <2>3
<1> QED
  BY <1>4, <1>5, <1>6, <1>7 DEF b, Lost

(***************************************************************************)
(* What a step does to the lines.                                           *)
(***************************************************************************)
LEMMA LinesStand ==
  ASSUME TokenTyped, Lined, UNCHANGED <<line, lockOf>>,
         \A p \in Requests : stage'[p] \in AtWork <=> stage[p] \in AtWork
  PROVE  Lined'
<1>1. \A l \in Locks : \A i \in 1 .. Len(line[l]) : line[l][i] \in Requests
  BY ElementOfSeq DEF TokenTyped
<1> QED
  BY <1>1 DEF Lined

LEMMA LineJoined ==
  ASSUME TokenTyped, Lined, NEW q \in Requests, stage[q] \notin AtWork, NEW l \in Locks,
         stage' = [stage EXCEPT ![q] = "waiting"],
         lockOf' = [lockOf EXCEPT ![q] = l],
         line' = [line EXCEPT ![l] = Append(@, q)]
  PROVE  Lined' /\ line' \in [Locks -> Seq(Requests)]
<1>1. \A m \in Locks : line[m] \in Seq(Requests) /\ Len(line[m]) \in Nat
  BY LenProperties DEF TokenTyped
<1>2. \A m \in Locks : \A i \in 1 .. Len(line[m]) : line[m][i] \in Requests /\ line[m][i] # q
  BY ElementOfSeq, <1>1 DEF Lined
<1>3. /\ Len(line'[l]) = Len(line[l]) + 1 /\ line'[l] \in Seq(Requests)
      /\ \A i \in 1 .. Len(line[l]) : line'[l][i] = line[l][i]
      /\ line'[l][Len(line[l]) + 1] = q
  BY <1>1, AppendProperties DEF TokenTyped
<1>4. \A m \in Locks : m # l => line'[m] = line[m]
  BY DEF TokenTyped
<1>5. line' \in [Locks -> Seq(Requests)]
  BY <1>1, <1>3 DEF TokenTyped
<1>6. /\ \A p \in Requests : p # q => stage'[p] = stage[p] /\ lockOf'[p] = lockOf[p]
      /\ stage'[q] = "waiting" /\ lockOf'[q] = l
  BY DEF TokenTyped
<1>7. ASSUME NEW m \in Locks
      PROVE  /\ Single(line'[m])
             /\ \A i \in 1 .. Len(line'[m]) : /\ stage'[line'[m][i]] \in AtWork
                                               /\ lockOf'[line'[m][i]] = m
  <2>1. CASE m # l
    BY <1>2, <1>4, <1>6, <2>1 DEF Lined
  <2>2. CASE m = l
    <3>1. Single(line'[l])
      BY <1>1, <1>2, <1>3 DEF Lined, Single
    <3>2. ASSUME NEW i \in 1 .. Len(line'[l])
          PROVE  stage'[line'[l][i]] \in AtWork /\ lockOf'[line'[l][i]] = l
      <4>1. CASE i = Len(line[l]) + 1
        BY <1>3, <1>6, <4>1 DEF AtWork
      <4>2. CASE i # Len(line[l]) + 1
        <5>1. i \in 1 .. Len(line[l])
          BY <1>1, <1>3, <4>2
        <5> QED
          BY <1>2, <1>3, <1>6, <5>1 DEF Lined
      <4> QED
        BY <4>1, <4>2
    <3> QED
      BY <2>2, <3>1, <3>2
  <2> QED
    BY <2>1, <2>2
<1>8. ASSUME NEW p \in Requests, stage'[p] \in AtWork
      PROVE  /\ lockOf'[p] \in Locks
             /\ \E i \in 1 .. Len(line'[lockOf'[p]]) : line'[lockOf'[p]][i] = p
  <2>1. CASE p = q
    <3>1. Len(line[l]) + 1 \in 1 .. Len(line'[l])
      BY <1>1, <1>3
    <3> QED
      BY <1>3, <1>6, <2>1, <3>1
  <2>2. CASE p # q
    <3>1. /\ lockOf'[p] = lockOf[p] /\ lockOf[p] \in Locks
          /\ \E i \in 1 .. Len(line[lockOf[p]]) : line[lockOf[p]][i] = p
      BY <1>6, <1>8, <2>2 DEF Lined
    <3> QED
      BY <1>1, <1>3, <1>4, <3>1
  <2> QED
    BY <2>1, <2>2
<1> QED
  BY <1>5, <1>7, <1>8 DEF Lined

LEMMA LineLeft ==
  ASSUME TokenTyped, Lined, NEW q \in Requests, stage[q] \in AtWork, NEW after,
         after \notin AtWork, stage' = [stage EXCEPT ![q] = after], Unlocks(q)
  PROVE  /\ Lined' /\ line' \in [Locks -> Seq(Requests)]
         /\ lockOf' \in [Requests -> Locks \cup {None}]
<1> DEFINE l == lockOf[q]
<1>1. l \in Locks /\ \E k \in 1 .. Len(line[l]) : line[l][k] = q
  BY DEF Lined
<1>2. \A m \in Locks : line[m] \in Seq(Requests) /\ Len(line[m]) \in Nat
  BY LenProperties DEF TokenTyped
<1>3. \A m \in Locks : \A i \in 1 .. Len(line[m]) :
        line[m][i] \in Requests /\ (m # l => line[m][i] # q)
  BY ElementOfSeq, <1>2 DEF Lined
<1>4. line' = [line EXCEPT ![l] = Behind(line[l], q)] /\ lockOf' = [lockOf EXCEPT ![q] = None]
  BY DEF Unlocks
<1>5. /\ line'[l] = Behind(line[l], q)
      /\ \A m \in Locks : m # l => line'[m] = line[m]
  BY <1>1, <1>4 DEF TokenTyped
<1> HIDE DEF l
<1>6. line'[l] \in Seq(Requests) /\ Lost(line'[l], line[l], q)
  <2>1. line[l] \in Seq(Requests) /\ Single(line[l])
    BY <1>1, <1>2 DEF Lined
  <2> QED
    BY <1>1, <1>5, <2>1, BehindKept
<1>7. line' \in [Locks -> Seq(Requests)] /\ lockOf' \in [Requests -> Locks \cup {None}]
  BY <1>1, <1>2, <1>4, <1>5, <1>6 DEF TokenTyped
<1>8. /\ \A p \in Requests : p # q => stage'[p] = stage[p] /\ lockOf'[p] = lockOf[p]
      /\ stage'[q] \notin AtWork
  BY <1>4 DEF TokenTyped
<1>9. ASSUME NEW m \in Locks
      PROVE  /\ Single(line'[m])
             /\ \A i \in 1 .. Len(line'[m]) : /\ stage'[line'[m][i]] \in AtWork
                                               /\ lockOf'[line'[m][i]] = m
  <2>1. CASE m # l
    BY <1>3, <1>5, <1>8, <2>1 DEF Lined
  <2>2. CASE m = l
    <3>1. ASSUME NEW i \in 1 .. Len(line'[l])
          PROVE  stage'[line'[l][i]] \in AtWork /\ lockOf'[line'[l][i]] = l
      <4>1. i \in 1 .. Len(line[l]) - 1
        BY <1>6 DEF Lost
      <4>2. PICK j \in 1 .. Len(line[l]) : line'[l][i] = line[l][j]
        BY <1>6, <4>1 DEF Lost
      <4>3. line[l][j] # q /\ line[l][j] \in Requests
        BY <1>1, <1>3, <1>6, <4>1, <4>2 DEF Lost
      <4> QED
        BY <1>1, <1>8, <4>2, <4>3 DEF Lined
    <3> QED
      BY <1>6, <2>2, <3>1 DEF Lost
  <2> QED
    BY <2>1, <2>2
<1>10. ASSUME NEW p \in Requests, stage'[p] \in AtWork
       PROVE  /\ lockOf'[p] \in Locks
              /\ \E i \in 1 .. Len(line'[lockOf'[p]]) : line'[lockOf'[p]][i] = p
  <2>1. p # q /\ lockOf'[p] = lockOf[p] /\ stage[p] \in AtWork
    BY <1>8, <1>10
  <2>2. lockOf[p] \in Locks /\ \E i \in 1 .. Len(line[lockOf[p]]) : line[lockOf[p]][i] = p
    BY <2>1 DEF Lined
  <2>3. CASE lockOf[p] = l
    <3>1. PICK j \in 1 .. Len(line[l]) : line[l][j] = p
      BY <2>2, <2>3
    <3>2. PICK i \in 1 .. Len(line[l]) - 1 : line'[l][i] = p
      BY <1>6, <2>1, <3>1 DEF Lost
    <3>3. i \in 1 .. Len(line'[l])
      BY <1>6 DEF Lost
    <3> QED
      BY <2>1, <2>2, <2>3, <3>2, <3>3
  <2>4. CASE lockOf[p] # l
    BY <1>5, <2>1, <2>2, <2>4
  <2> QED
    BY <2>3, <2>4
<1> QED
  BY <1>7, <1>9, <1>10 DEF Lined

(***************************************************************************)
(* The invariant holds.                                                     *)
(***************************************************************************)
LEMMA TokenInvInit == TokenInit => TokenInv
<1> SUFFICES ASSUME TokenInit PROVE TokenInv
  OBVIOUS
<1>1. entries \in Seq(SoundEntries) /\ \A l \in Locks : line[l] \in Seq(Requests) /\ Len(line[l]) = 0
  BY EmptySeq DEF TokenInit
<1>2. TokenTyped
  BY <1>1 DEF TokenInit, TokenTyped
<1>3. Lined
  BY <1>1 DEF TokenInit, Lined, Single, AtWork
<1> QED
  BY <1>2, <1>3 DEF TokenInit, TokenInv, Entitled, AtWork

\* A request that goes on by itself leaves the others what they were entitled to.
LEMMA OthersEntitled ==
  ASSUME NEW p \in Requests, Entitled(p), stage'[p] = stage[p], identity'[p] = identity[p],
         wants'[p] = wants[p], got'[p] = got[p]
  PROVE  Entitled(p)'
BY DEF Entitled

LEMMA AuthenticateKeeps ==
  ASSUME TokenInv, NEW q \in Requests, Authenticate(q)
  PROVE  TokenInv'
<1>1. stage[q] = "new" /\ UNCHANGED <<clock, wants, lockOf, line, entries, got>>
  BY DEF Authenticate
<1>2. PICK after \in {"rejected", "certificate_only", "known"} :
        /\ stage' = [stage EXCEPT ![q] = after]
        /\ IF after = "known"
           THEN \E b \in Bearers : Validates(b) /\ identity' = [identity EXCEPT ![q] = Identified(b)]
           ELSE identity' = identity
  BY DEF Authenticate
<1>3. \A b \in Bearers : Validates(b) =>
        /\ Identified(b) \in [subject : Subjects, scopes : SUBSET Scopes]
        /\ Identified(b).scopes \subseteq AllowedHere
  BY DEF Bearers, Identified, Validates, ClaimsError, WithinPolicy
<1>4. TokenTyped'
  BY <1>1, <1>2, <1>3 DEF TokenInv, TokenTyped
<1>5. \A p \in Requests : p # q => stage'[p] = stage[p] /\ identity'[p] = identity[p]
  BY <1>2 DEF TokenInv, TokenTyped
<1>6. Entitled(q)'
  BY <1>2, <1>3 DEF TokenInv, TokenTyped, Entitled, AtWork
<1>7. \A p \in Requests : Entitled(p)'
  BY <1>1, <1>5, <1>6, OthersEntitled DEF TokenInv
<1>8. Lined'
  <2>1. \A p \in Requests : stage'[p] \in AtWork <=> stage[p] \in AtWork
    BY <1>1, <1>2, <1>5 DEF TokenInv, TokenTyped, AtWork
  <2> QED
    BY <1>1, <2>1, LinesStand DEF TokenInv
<1> QED
  BY <1>4, <1>7, <1>8 DEF TokenInv

\* Serving a sound token for what a request wants.
LEMMA ServeEntitles ==
  ASSUME TokenInv, NEW q \in Requests, NEW token \in [for : Exchanges, exp : Nat],
         NEW from \in {"cache", "server"}, Serve(q, token, from),
         token.exp >= clock, from = "cache" => token.exp > clock + RefreshSkew,
         wants'[q] = token.for, identity'[q] = identity[q],
         identity[q] \in [subject : Subjects, scopes : SUBSET Scopes],
         identity[q].scopes \subseteq AllowedHere,
         token.for.subject = identity[q].subject, token.for.scopes \subseteq identity[q].scopes
  PROVE  /\ Entitled(q)'
         /\ got' \in [Requests -> [for : Exchanges, left : Nat, from : {"cache", "server"}] \cup {None}]
         /\ stage' = [stage EXCEPT ![q] = "served"]
         /\ \A p \in Requests : p # q => got'[p] = got[p]
<1> DEFINE g == [for |-> token.for, left |-> token.exp - clock, from |-> from]
<1>1. clock \in Nat /\ RefreshSkew \in Nat
  BY TokenAssumption DEF TokenInv, TokenTyped
<1>2. /\ g \in [for : Exchanges, left : Nat, from : {"cache", "server"}]
      /\ g.for = token.for /\ g.from = from /\ g.left = token.exp - clock
  BY <1>1
<1>3. stage' = [stage EXCEPT ![q] = "served"] /\ got' = [got EXCEPT ![q] = g]
  BY DEF Serve
<1> HIDE DEF g
<1>4. stage'[q] = "served" /\ got'[q] = g
  BY <1>3 DEF TokenInv, TokenTyped
<1>5. Entitled(q)'
  BY <1>1, <1>2, <1>4 DEF Entitled
<1> QED
  BY <1>2, <1>3, <1>5 DEF TokenInv, TokenTyped

\* A key names one exchange.
LEMMA KeyNamesExchange ==
  ASSUME NEW v \in Exchanges, NEW w \in Exchanges, KeyOf(v) = KeyOf(w)
  PROVE  v = w
BY DEF Exchanges, KeyOf

\* What the cache serves for an exchange is a token for that exchange.
LEMMA CacheAnswers ==
  ASSUME TokenInv, NEW w \in Exchanges, Held(KeyOf(w)), NEW now, Usable(EntryOf(KeyOf(w)), now)
  PROVE  /\ EntryOf(KeyOf(w)) \in SoundEntries
         /\ EntryOf(KeyOf(w)).token \in [for : Exchanges, exp : Nat]
         /\ EntryOf(KeyOf(w)).token.for = w
         /\ EntryOf(KeyOf(w)).token.exp > now + RefreshSkew
<1> DEFINE e == EntryOf(KeyOf(w))
<1>1. e \in SoundEntries /\ e.key = KeyOf(w)
  BY OthersKept DEF TokenInv, TokenTyped
<1>2. e.token # None /\ e.token.exp > now + RefreshSkew
  BY DEF Usable
<1> HIDE DEF e
<1>3. e.token \in [for : Exchanges, exp : Nat] /\ KeyOf(e.token.for) = KeyOf(w)
  BY <1>1, <1>2 DEF SoundEntries
<1>4. e.token.for = w
  BY <1>3, KeyNamesExchange
<1> QED
  BY <1>1, <1>2, <1>3, <1>4 DEF e

LEMMA AskTokenKeeps ==
  ASSUME TokenInv, NEW q \in Requests, AskToken(q)
  PROVE  TokenInv'
<1>0. identity[q] \in [subject : Subjects, scopes : SUBSET Scopes]
  BY DEF AskToken, TokenInv, Entitled
<1>1. stage[q] = "known" /\ clock' = clock /\ identity' = identity
  BY DEF AskToken
<1>2. PICK d \in Destinations, scopes \in SUBSET Scopes :
        scopes \in Attenuated(q, d) /\
        LET w == Exchange(q, d, scopes)
            key == KeyOf(w) IN
        /\ wants' = [wants EXCEPT ![q] = w]
        /\ IF Held(key) /\ Usable(EntryOf(key), clock)
             THEN /\ Serve(q, EntryOf(key).token, "cache")
                  /\ entries' = Append(Others(key), EntryOf(key))
                  /\ UNCHANGED <<asked, lockOf, line>>
             ELSE LET l == IF Held(key) THEN EntryOf(key).lock ELSE <<q, "asked">> IN
                  /\ stage' = [stage EXCEPT ![q] = "waiting"]
                  /\ asked' = [asked EXCEPT ![q] = clock]
                  /\ lockOf' = [lockOf EXCEPT ![q] = l]
                  /\ line' = [line EXCEPT ![l] = Append(@, q)]
                  /\ entries' = IF Held(key) THEN entries
                                ELSE Append(entries, [key |-> key, token |-> None, lock |-> l])
                  /\ UNCHANGED got
  BY <1>0 DEF AskToken, Attenuated
<1> DEFINE w == Exchange(q, d, scopes)
           key == KeyOf(w)
<1>3. /\ identity[q] \in [subject : Subjects, scopes : SUBSET Scopes]
      /\ identity[q].scopes \subseteq AllowedHere
  BY <1>1 DEF TokenInv, Entitled
<1>4. /\ w \in Exchanges /\ key \in Subjects \X Destinations \X SUBSET Scopes
      /\ w.subject = identity[q].subject /\ w.scopes \subseteq identity[q].scopes
  <2>1. scopes \subseteq identity[q].scopes
    BY <1>2 DEF Attenuated
  <2>2. w \in Exchanges /\ w.subject = identity[q].subject /\ w.scopes = scopes
    BY <1>3 DEF Exchange, Exchanges
  <2>3. key = <<w.subject, w.destination, w.scopes>>
    BY DEF KeyOf
  <2> QED
    BY <2>1, <2>2, <2>3 DEF Exchanges
<1>5. wants' = [wants EXCEPT ![q] = w]
  BY <1>2
<1>6. wants' \in [Requests -> Exchanges \cup {None}] /\ wants'[q] = w
      /\ \A p \in Requests : p # q => wants'[p] = wants[p]
  BY <1>4, <1>5 DEF TokenInv, TokenTyped
<1>7. CASE Held(key) /\ Usable(EntryOf(key), clock)
  <2> DEFINE e == EntryOf(key)
  <2>1. /\ Serve(q, e.token, "cache") /\ entries' = Append(Others(key), e)
        /\ UNCHANGED <<lockOf, line>>
    BY <1>2, <1>7
  <2>2. /\ e \in SoundEntries /\ e.token \in [for : Exchanges, exp : Nat]
        /\ e.token.for = w /\ e.token.exp > clock + RefreshSkew
    BY <1>4, <1>7, CacheAnswers
  <2> HIDE DEF e, w, key
  <2>3. entries' \in Seq(SoundEntries)
    BY <2>1, <2>2, OthersKept, AppendProperties DEF TokenInv, TokenTyped
  <2>4. e.token.exp >= clock
    BY <2>2, TokenAssumption DEF TokenInv, TokenTyped
  <2>5. /\ Entitled(q)'
        /\ got' \in [Requests -> [for : Exchanges, left : Nat, from : {"cache", "server"}] \cup {None}]
        /\ stage' = [stage EXCEPT ![q] = "served"]
        /\ \A p \in Requests : p # q => got'[p] = got[p]
    BY <1>1, <1>3, <1>4, <1>6, <2>1, <2>2, <2>4, ServeEntitles
  <2>6. TokenTyped'
    BY <1>1, <1>6, <2>1, <2>3, <2>5 DEF TokenInv, TokenTyped
  <2>7. \A p \in Requests : p # q => stage'[p] = stage[p]
    BY <2>5 DEF TokenInv, TokenTyped
  <2>8. \A p \in Requests : Entitled(p)'
    BY <1>1, <1>6, <2>5, <2>7, OthersEntitled DEF TokenInv
  <2>9. \A p \in Requests : stage'[p] \in AtWork <=> stage[p] \in AtWork
    BY <1>1, <2>5, <2>7 DEF TokenInv, TokenTyped, AtWork
  <2>10. Lined'
    BY <2>1, <2>9, LinesStand DEF TokenInv
  <2> QED
    BY <2>6, <2>8, <2>10 DEF TokenInv
<1>8. CASE ~(Held(key) /\ Usable(EntryOf(key), clock))
  <2> DEFINE l == IF Held(key) THEN EntryOf(key).lock ELSE <<q, "asked">>
  <2>1. /\ stage' = [stage EXCEPT ![q] = "waiting"]
        /\ lockOf' = [lockOf EXCEPT ![q] = l]
        /\ line' = [line EXCEPT ![l] = Append(@, q)]
        /\ entries' = IF Held(key) THEN entries
                      ELSE Append(entries, [key |-> key, token |-> None, lock |-> l])
        /\ got' = got
    BY <1>2, <1>8
  <2>2. l \in Locks
    BY OthersKept DEF TokenInv, TokenTyped, SoundEntries, Locks
  <2> HIDE DEF l, w, key
  <2>3. [key |-> key, token |-> None, lock |-> l] \in SoundEntries
    BY <1>4, <2>2 DEF SoundEntries
  <2>4. entries' \in Seq(SoundEntries)
    BY <2>1, <2>3, AppendProperties DEF TokenInv, TokenTyped
  <2>5. Lined' /\ line' \in [Locks -> Seq(Requests)]
    BY <1>1, <2>1, <2>2, LineJoined DEF TokenInv, AtWork
  <2>6. TokenTyped'
    BY <1>1, <1>6, <2>1, <2>2, <2>4, <2>5 DEF TokenInv, TokenTyped, AtWork
  <2>7. stage'[q] = "waiting" /\ \A p \in Requests : p # q => stage'[p] = stage[p]
    BY <2>1 DEF TokenInv, TokenTyped
  <2>8. Entitled(q)'
    BY <1>1, <1>3, <1>4, <1>6, <2>7 DEF Entitled
  <2>9. \A p \in Requests : Entitled(p)'
    BY <1>1, <1>6, <2>1, <2>7, <2>8, OthersEntitled DEF TokenInv
  <2> QED
    BY <2>5, <2>6, <2>9 DEF TokenInv
<1> QED
  BY <1>7, <1>8

LEMMA RefusedKeeps ==
  ASSUME TokenInv, NEW q \in Requests, Refused(q)
  PROVE  TokenInv'
<1>1. /\ stage[q] = "known" /\ stage' = [stage EXCEPT ![q] = "denied"]
      /\ UNCHANGED <<clock, identity, wants, lockOf, line, entries, got>>
  BY DEF Refused
<1>2. stage'[q] = "denied" /\ \A p \in Requests : p # q => stage'[p] = stage[p]
  BY <1>1 DEF TokenInv, TokenTyped
<1>3. TokenTyped'
  BY <1>1 DEF TokenInv, TokenTyped
<1>4. Entitled(q)'
  BY <1>2 DEF Entitled, AtWork
<1>5. \A p \in Requests : Entitled(p)'
  BY <1>1, <1>2, <1>4, OthersEntitled DEF TokenInv
<1>6. \A p \in Requests : stage'[p] \in AtWork <=> stage[p] \in AtWork
  BY <1>1, <1>2 DEF AtWork
<1> QED
  BY <1>1, <1>3, <1>5, <1>6, LinesStand DEF TokenInv

LEMMA RecheckKeeps ==
  ASSUME TokenInv, NEW q \in Requests, Recheck(q)
  PROVE  TokenInv'
<1> DEFINE w == wants[q]
           key == KeyOf(w)
<1>1. stage[q] = "waiting" /\ UNCHANGED <<clock, identity, wants, entries>>
  BY DEF Recheck
<1>2. /\ identity[q] \in [subject : Subjects, scopes : SUBSET Scopes]
      /\ identity[q].scopes \subseteq AllowedHere
      /\ w \in Exchanges /\ w.subject = identity[q].subject
      /\ w.scopes \subseteq identity[q].scopes
  BY <1>1 DEF TokenInv, Entitled, AtWork
<1>3. CASE Held(key) /\ Usable(EntryOf(key), clock)
  <2> DEFINE e == EntryOf(key)
  <2>1. Serve(q, e.token, "cache") /\ Unlocks(q)
    BY <1>3 DEF Recheck, Now
  <2>2. /\ e.token \in [for : Exchanges, exp : Nat]
        /\ e.token.for = w /\ e.token.exp > clock + RefreshSkew
    BY <1>2, <1>3, CacheAnswers
  <2>3. wants'[q] = w
    BY <1>1
  <2> HIDE DEF e, w, key
  <2>4. e.token.exp >= clock
    BY <2>2, TokenAssumption DEF TokenInv, TokenTyped
  <2>5. /\ Entitled(q)'
        /\ got' \in [Requests -> [for : Exchanges, left : Nat, from : {"cache", "server"}] \cup {None}]
        /\ stage' = [stage EXCEPT ![q] = "served"]
        /\ \A p \in Requests : p # q => got'[p] = got[p]
    BY <1>1, <1>2, <2>1, <2>2, <2>3, <2>4, ServeEntitles
  <2>6. /\ Lined' /\ line' \in [Locks -> Seq(Requests)]
        /\ lockOf' \in [Requests -> Locks \cup {None}]
    BY <1>1, <2>1, <2>5, LineLeft DEF TokenInv, AtWork
  <2>7. TokenTyped'
    BY <1>1, <2>5, <2>6 DEF TokenInv, TokenTyped
  <2>8. \A p \in Requests : p # q => stage'[p] = stage[p]
    BY <2>5 DEF TokenInv, TokenTyped
  <2>9. \A p \in Requests : Entitled(p)'
    BY <1>1, <2>5, <2>8, OthersEntitled DEF TokenInv
  <2> QED
    BY <2>6, <2>7, <2>9 DEF TokenInv
<1>4. CASE ~(Held(key) /\ Usable(EntryOf(key), clock))
  <2>1. stage' = [stage EXCEPT ![q] = "acquiring"] /\ UNCHANGED <<lockOf, line, got>>
    BY <1>4 DEF Recheck, Now
  <2>2. stage'[q] = "acquiring" /\ \A p \in Requests : p # q => stage'[p] = stage[p]
    BY <2>1 DEF TokenInv, TokenTyped
  <2>3. TokenTyped'
    BY <1>1, <2>1 DEF TokenInv, TokenTyped, AtWork
  <2>4. Entitled(q)'
    BY <1>1, <1>2, <2>2 DEF Entitled
  <2>5. \A p \in Requests : Entitled(p)'
    BY <1>1, <2>1, <2>2, <2>4, OthersEntitled DEF TokenInv
  <2>6. \A p \in Requests : stage'[p] \in AtWork <=> stage[p] \in AtWork
    BY <1>1, <2>2 DEF AtWork
  <2>7. Lined'
    BY <2>1, <2>6, LinesStand DEF TokenInv
  <2> QED
    BY <2>3, <2>5, <2>7 DEF TokenInv
<1> QED
  BY <1>3, <1>4

LEMMA AcquiredKeeps ==
  ASSUME TokenInv, NEW q \in Requests, Acquired(q)
  PROVE  TokenInv'
<1> DEFINE w == wants[q]
<1>1. stage[q] = "acquiring" /\ Unlocks(q) /\ UNCHANGED <<clock, identity, wants>>
  BY DEF Acquired
<1>2. PICK life \in 0 .. MaxLife :
        /\ entries' = Stored([key |-> KeyOf(w), token |-> Granted(w, life),
                              lock |-> <<q, "stored">>])
        /\ Serve(q, Granted(w, life), "server")
  BY DEF Acquired
<1>3. /\ identity[q] \in [subject : Subjects, scopes : SUBSET Scopes]
      /\ identity[q].scopes \subseteq AllowedHere
      /\ w \in Exchanges /\ w.subject = identity[q].subject
      /\ w.scopes \subseteq identity[q].scopes
  BY <1>1 DEF TokenInv, Entitled, AtWork
<1> DEFINE token == Granted(w, life)
           e == [key |-> KeyOf(w), token |-> token, lock |-> <<q, "stored">>]
<1>4. clock \in Nat /\ life \in Nat
  BY TokenAssumption DEF TokenInv, TokenTyped
<1>5. token \in [for : Exchanges, exp : Nat] /\ token.for = w /\ token.exp >= clock
  BY <1>3, <1>4 DEF Granted
<1>6. wants'[q] = w
  BY <1>1
<1>7. Serve(q, token, "server") /\ entries' = Stored(e)
  BY <1>2
<1> HIDE DEF token, w
<1>8. e \in SoundEntries
  <2>1. KeyOf(w) \in Subjects \X Destinations \X SUBSET Scopes
    BY <1>3 DEF KeyOf, Exchanges
  <2>2. <<q, "stored">> \in Locks
    BY DEF Locks
  <2> QED
    BY <1>5, <2>1, <2>2 DEF SoundEntries
<1> HIDE DEF e
<1>9. entries' \in Seq(SoundEntries)
  BY <1>7, <1>8, StoredKept DEF TokenInv, TokenTyped
<1>10. /\ Entitled(q)'
       /\ got' \in [Requests -> [for : Exchanges, left : Nat, from : {"cache", "server"}] \cup {None}]
       /\ stage' = [stage EXCEPT ![q] = "served"]
       /\ \A p \in Requests : p # q => got'[p] = got[p]
  BY <1>1, <1>3, <1>5, <1>6, <1>7, ServeEntitles
<1>11. /\ Lined' /\ line' \in [Locks -> Seq(Requests)]
       /\ lockOf' \in [Requests -> Locks \cup {None}]
  BY <1>1, <1>10, LineLeft DEF TokenInv, AtWork
<1>12. TokenTyped'
  BY <1>1, <1>9, <1>10, <1>11 DEF TokenInv, TokenTyped
<1>13. \A p \in Requests : p # q => stage'[p] = stage[p]
  BY <1>10 DEF TokenInv, TokenTyped
<1>14. \A p \in Requests : Entitled(p)'
  BY <1>1, <1>10, <1>13, OthersEntitled DEF TokenInv
<1> QED
  BY <1>11, <1>12, <1>14 DEF TokenInv

LEMMA FailureKeeps ==
  ASSUME TokenInv, NEW q \in Requests, AcquireFails(q) \/ GiveUp(q)
  PROVE  TokenInv'
<1>1. /\ stage[q] \in AtWork /\ stage' = [stage EXCEPT ![q] = "failed"] /\ Unlocks(q)
      /\ UNCHANGED <<clock, identity, wants, entries, got>>
  BY DEF AcquireFails, GiveUp, AtWork
<1>2. stage'[q] = "failed" /\ \A p \in Requests : p # q => stage'[p] = stage[p]
  BY <1>1 DEF TokenInv, TokenTyped
<1>3. /\ Lined' /\ line' \in [Locks -> Seq(Requests)]
      /\ lockOf' \in [Requests -> Locks \cup {None}]
  BY <1>1, LineLeft DEF TokenInv, AtWork
<1>4. TokenTyped'
  BY <1>1, <1>3 DEF TokenInv, TokenTyped
<1>5. Entitled(q)'
  BY <1>2 DEF Entitled, AtWork
<1>6. \A p \in Requests : Entitled(p)'
  BY <1>1, <1>2, <1>5, OthersEntitled DEF TokenInv
<1> QED
  BY <1>3, <1>4, <1>6 DEF TokenInv

LEMMA TokenInvStep == TokenInv /\ [TokenNext]_tokenVars => TokenInv'
<1> SUFFICES ASSUME TokenInv, [TokenNext]_tokenVars PROVE TokenInv'
  OBVIOUS
<1>1. ASSUME NEW q \in Requests, \/ Authenticate(q) \/ AskToken(q) \/ Refused(q) \/ Recheck(q)
                                 \/ Acquired(q) \/ AcquireFails(q) \/ GiveUp(q)
      PROVE  TokenInv'
  BY <1>1, AuthenticateKeeps, AskTokenKeeps, RefusedKeeps, RecheckKeeps, AcquiredKeeps, FailureKeeps
<1>2. CASE Tick \/ UNCHANGED tokenVars
  <2>1. /\ UNCHANGED <<stage, identity, wants, lockOf, line, entries, got>>
        /\ clock' \in Nat
    BY <1>2 DEF Tick, tokenVars, TokenInv, TokenTyped
  <2>2. TokenTyped' /\ Lined'
    BY <2>1, LinesStand DEF TokenInv, TokenTyped
  <2>3. \A p \in Requests : Entitled(p)'
    BY <2>1, OthersEntitled DEF TokenInv
  <2> QED
    BY <2>2, <2>3 DEF TokenInv
<1> QED
  BY <1>1, <1>2 DEF TokenNext

LEMMA TokenInvariant == TokenSpec => []TokenInv
BY TokenInvInit, TokenInvStep, PTL DEF TokenSpec

\* Whoever filled the cache, a request goes out with a token for its own subject,
\* for what its own bearer granted, and one from the cache outlasts the skew
\* (build_delegated_token_request, get_or_acquire).
THEOREM AuthorityIsKept == TokenSpec => []ServedTokensAreSound
<1>1. TokenInv => ServedTokensAreSound
  BY DEF TokenInv, Entitled, ServedTokensAreSound, AuthorityNeverGrows, CachedTokensAreFresh
<1> QED
  BY <1>1, TokenInvariant, PTL

\* However many fail, give up or lose their entry, the head of a line is at work
\* (get_or_acquire).
THEOREM LinesHaveAHolder == TokenSpec => []WaitersHaveAHolder
<1>1. TokenInv => WaitersHaveAHolder
  <2> SUFFICES ASSUME TokenInv, NEW q \in Requests, stage[q] = "waiting"
               PROVE  stage[Head(line[lockOf[q]])] \in AtWork
    BY DEF WaitersHaveAHolder, AtWork
  <2>1. lockOf[q] \in Locks /\ \E i \in 1 .. Len(line[lockOf[q]]) : line[lockOf[q]][i] = q
    BY DEF TokenInv, Lined, AtWork
  <2>2. line[lockOf[q]] \in Seq(Requests) /\ Len(line[lockOf[q]]) \in Nat
    BY <2>1, LenProperties DEF TokenInv, TokenTyped
  <2>3. 1 \in 1 .. Len(line[lockOf[q]])
    BY <2>1, <2>2
  <2>4. Head(line[lockOf[q]]) = line[lockOf[q]][1]
    BY <2>2, <2>3
  <2> QED
    BY <2>1, <2>3, <2>4 DEF TokenInv, Lined
<1> QED
  BY <1>1, TokenInvariant, PTL
=============================================================================
