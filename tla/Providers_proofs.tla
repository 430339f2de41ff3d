-------------------------- MODULE Providers_proofs ---------------------------
(***************************************************************************)
(* Proofs about the model providers.  ProviderRegistry, for every set of     *)
(* references, clients, constructions and calls: who closes a client and     *)
(* when, what resolve hands out, what an overtaken construction may do, what *)
(* a report without failures means, and that a retired client is not         *)
(* forgotten.  ModelCompletion, for every set of runs, closers, deployments, *)
(* tries and failures: what a retry may repeat, what closed means, and, for  *)
(* every limit of its cache, that results meet the calls they answer.       *)
(***************************************************************************)
EXTENDS ProviderRegistry, ModelCompletion, FiniteSetTheorems, SequenceTheorems,
        WellFoundedInduction, TLAPS


(***************************************************************************)
(* Types.  A release takes one from a count that must not be zero: leases   *)
(* are as many as the calls that hold them.                                 *)
(***************************************************************************)
Holders(c) == {u \in Users : using[u].phase = "leased" /\ using[u].client = c}

Counted == \A c \in Clients : leases[c] = Cardinality(Holders(c))

Owners == {"runtime", "caller"}

\* A construction in flight is of a reference; a built one has its client.
Construction ==
  [phase : {"idle", "building", "built", "finishing"},
   ref : Refs \cup {NoRef}, expected : Nat, replace : BOOLEAN,
   owner : {"none", "runtime", "caller"}, client : Clients \cup {NoClient}]
BuildingTyped ==
  /\ building \in [Constructors -> Construction]
  /\ \A k \in Constructors : Active(k) => /\ building[k].ref \in Refs
                                         /\ building[k].owner \in Owners
  /\ \A k \in Constructors : building[k].phase = "built" => building[k].client \in Clients

Formed == BuildingTyped /\ \A u \in Users : using[u].phase # "idle" => using[u].client \in Clients

Typed == TypeOK /\ Formed /\ Counted

(***************************************************************************)
(* A client is closed by its owner, once, with nobody in it.                *)
(***************************************************************************)
ClaimedOnce ==
  \A c \in Clients :
    /\ close[c] = "open" => starts[c] = 0
    /\ close[c] # "open" => starts[c] = 1 /\ Owned(c) /\ leases[c] = 0

(***************************************************************************)
(* References and bindings mirror each other, and before the shutdown       *)
(* nothing that is bound is being closed.                                   *)
(***************************************************************************)
Mirrored == \A r \in Refs, c \in Clients : r \in refs[c] <=> binding[r] = c
BoundAreOpen == Open => \A c \in Clients : refs[c] # {} => close[c] = "open"

(***************************************************************************)
(* What the shutdown pass made of a client stays true of it.                *)
(***************************************************************************)
Judged ==
  /\ \A c \in Clients : /\ outcome[c] # "none" => Recorded(c)
                        /\ outcome[c] = "closed" => close[c] = "closed"
                        /\ outcome[c] = "skipped" => owner[c] = "caller"
  /\ shutdown = "done" => \A c \in Clients : outcome[c] \notin {"pending", "waiting"}

(***************************************************************************)
(* A construction whose reference was rebound captured an older generation. *)
(***************************************************************************)
Dated ==
  \A k \in Constructors : Active(k) =>
    /\ building[k].expected <= generation[building[k].ref]
    /\ k \in overtaken => building[k].expected < generation[building[k].ref]

RegistryInv ==
  Typed /\ ClaimedOnce /\ Mirrored /\ BoundAreOpen /\ Judged /\ Dated /\ RetiredClientAwaitsCleanup

-----------------------------------------------------------------------------
(***************************************************************************)
(* Types.                                                                   *)
(***************************************************************************)
LEMMA AttachTyped ==
  ASSUME TypeOK, NEW r \in Refs, NEW c \in Clients, NEW own \in Owners, Attach(r, c, own)
  PROVE  /\ binding' \in [Refs -> Clients \cup {NoClient}]
         /\ generation' \in [Refs -> Nat]
         /\ owner' \in [Clients -> {"none", "runtime", "caller"}]
         /\ refs' \in [Clients -> SUBSET Refs]
         /\ retired' \in [Clients -> SUBSET Refs]
         /\ dropped' \subseteq Clients
<1>1. \A x \in Clients : refs[x] \in SUBSET Refs /\ retired[x] \in SUBSET Refs
  BY DEF TypeOK
<1>2. refs' \in [Clients -> SUBSET Refs] /\ retired' \in [Clients -> SUBSET Refs]
  BY <1>1 DEF Attach
<1> QED
  BY <1>2 DEF Attach, TypeOK, Owners

LEMMA ReplacedIsClient ==
  ASSUME NEW r, NEW c
  PROVE  Replaced(r, c) \subseteq Clients
BY DEF Replaced

\* One call more, or one call less, holds the client.
LEMMA HoldersFinite ==
  ASSUME NEW c
  PROVE  IsFiniteSet(Holders(c)) /\ Cardinality(Holders(c)) \in Nat
<1>1. Holders(c) \in SUBSET Users
  BY DEF Holders
<1> QED
  BY <1>1, RegistryAssumption, FS_Subset, FS_CardinalityType

\* The types and counts of a step that changes neither leases nor who holds one.
LEMMA SameHolders ==
  ASSUME Counted, leases' = leases,
         \A u \in Users : /\ using[u].phase = "leased" <=> using'[u].phase = "leased"
                          /\ using[u].phase = "leased" => using'[u].client = using[u].client
  PROVE  Counted'
<1>1. \A c \in Clients : Holders(c)' = Holders(c)
  BY DEF Holders
<1> QED
  BY <1>1 DEF Counted

LEMMA BuilderTyped ==
  ASSUME Typed, NEW k \in Constructors, NEW b \in Construction,
         building' = [building EXCEPT ![k] = b],
         b.phase # "idle" => b.ref \in Refs /\ b.owner \in Owners,
         b.phase = "built" => b.client \in Clients
  PROVE  BuildingTyped'
BY DEF Typed, TypeOK, Formed, BuildingTyped, Active, Construction

LEMMA AdvanceTyped ==
  ASSUME Typed, NEW k \in Constructors, Active(k), NEW at \in {"built", "finishing"},
         NEW c \in Clients \cup {NoClient}, at = "built" => c \in Clients, Advance(k, at, c)
  PROVE  BuildingTyped'
<1> DEFINE b == [building[k] EXCEPT !.phase = at, !.client = c]
<1>0. building[k] \in Construction
  BY DEF Typed, TypeOK, Construction
<1>1. b \in Construction
  BY <1>0 DEF Construction
<1>2. b.phase = at /\ b.client = c /\ b.ref \in Refs /\ b.owner \in Owners
  BY <1>0 DEF Typed, Formed, BuildingTyped, Construction
<1>3. building' = [building EXCEPT ![k] = b]
  BY DEF Advance
<1> HIDE DEF b
<1> QED
  BY <1>1, <1>2, <1>3, BuilderTyped

LEMMA SameBuilding ==
  ASSUME Formed, building' = building
  PROVE  BuildingTyped'
BY DEF Formed, BuildingTyped, Active

LEMMA AcquireTyped ==
  ASSUME Typed, NEW u \in Users, Acquire(u)
  PROVE  Typed'
<1> DEFINE c == using[u].client
<1>1. c \in Clients /\ using[u].phase = "resolved"
  BY DEF Acquire, Typed, Formed
<1>2. using' = [using EXCEPT ![u] = [phase |-> "leased", client |-> c]]
  BY DEF Acquire
<1>3. /\ using' \in [Users -> [phase : {"idle", "resolved", "leased"},
                               client : Clients \cup {NoClient}]]
      /\ \A v \in Users : using'[v].phase # "idle" => using'[v].client \in Clients
      /\ \A d \in Clients : Holders(d)' = IF c = d THEN Holders(d) \cup {u} ELSE Holders(d) \ {u}
  BY <1>1, <1>2 DEF Typed, TypeOK, Formed, Holders
<1>4. \A d \in Clients : u \notin Holders(d)
  BY <1>1 DEF Holders
<1>5. ASSUME NEW d \in Clients
      PROVE  leases'[d] = Cardinality(Holders(d)')
  <2>1. Holders(d)' = IF c = d THEN Holders(d) \cup {u} ELSE Holders(d)
    <3>1. Holders(d) \ {u} = Holders(d)
      BY <1>4
    <3> QED  BY <1>3, <3>1
  <2>2. c = d => Cardinality(Holders(d)') = Cardinality(Holders(d)) + 1
    BY <1>4, <2>1, HoldersFinite, FS_AddElement
  <2>3. leases[d] = Cardinality(Holders(d)) /\ leases[d] \in Nat
    BY DEF Typed, Counted, TypeOK
  <2>4. leases'[d] = IF c = d THEN leases[d] + 1 ELSE leases[d]
    BY DEF Acquire, Typed, TypeOK
  <2> QED
    BY <2>1, <2>2, <2>3, <2>4
<1>6. leases' \in [Clients -> Nat]
  BY <1>1 DEF Acquire, Typed, TypeOK
<1>7. TypeOK'
  BY <1>3, <1>6 DEF Acquire, Typed, TypeOK, bindings, ending, history
<1>8. Formed'
  BY <1>3, SameBuilding DEF Acquire, Typed, Formed
<1> QED
  BY <1>5, <1>7, <1>8 DEF Typed, Counted

\* A lease that is returned was counted.
LEMMA ReleaseTyped ==
  ASSUME Typed, NEW u \in Users, Release(u) \/ ReleaseCancelled(u)
  PROVE  Typed' /\ leases[using[u].client] > 0
<1> DEFINE c == using[u].client
<1>1. c \in Clients /\ using[u].phase = "leased"
  BY DEF Release, ReleaseCancelled, Typed, Formed
<1>2. using' = [using EXCEPT ![u] = [phase |-> "idle", client |-> NoClient]]
  BY DEF Release, ReleaseCancelled, NotUsing
<1>3. /\ using' \in [Users -> [phase : {"idle", "resolved", "leased"},
                               client : Clients \cup {NoClient}]]
      /\ \A v \in Users : using'[v].phase # "idle" => using'[v].client \in Clients
      /\ \A d \in Clients : Holders(d)' = Holders(d) \ {u}
  BY <1>2 DEF Typed, TypeOK, Formed, Holders
<1>4. ASSUME NEW d \in Clients
      PROVE  /\ leases'[d] = Cardinality(Holders(d)')
             /\ leases'[d] \in Nat
             /\ d = c => leases[d] > 0
  <2>1. u \in Holders(d) <=> d = c
    BY <1>1 DEF Holders
  <2>2. Cardinality(Holders(d)') = IF d = c THEN Cardinality(Holders(d)) - 1
                                   ELSE Cardinality(Holders(d))
    BY <1>3, <2>1, HoldersFinite, FS_RemoveElement
  <2>3. Cardinality(Holders(d)') \in Nat
    BY <1>3, HoldersFinite, FS_RemoveElement, FS_CardinalityType
  <2>4. leases[d] = Cardinality(Holders(d)) /\ leases[d] \in Nat
    BY DEF Typed, Counted, TypeOK
  <2>5. leases'[d] = IF c = d THEN leases[d] - 1 ELSE leases[d]
    BY DEF Release, ReleaseCancelled, Typed, TypeOK
  <2> QED
    BY <2>2, <2>3, <2>4, <2>5
<1>5. leases' \in [Clients -> Nat]
  BY <1>1, <1>4 DEF Release, ReleaseCancelled, Typed, TypeOK
<1>6. LeftByRelease(c) \subseteq Clients
  BY <1>1 DEF LeftByRelease
<1>7. TypeOK'
  <2>1. CASE Release(u)
    BY <2>1, <1>3, <1>5, <1>6 DEF Release, Typed, TypeOK, bindings, ending, history
  <2>2. CASE ReleaseCancelled(u)
    BY <2>2, <1>3, <1>5, <1>6 DEF ReleaseCancelled, Typed, TypeOK, bindings, ending, history
  <2> QED
    BY <2>1, <2>2
<1>8. Formed'
  BY <1>3, SameBuilding DEF Release, ReleaseCancelled, Typed, Formed
<1> QED
  BY <1>1, <1>4, <1>7, <1>8 DEF Typed, Counted

LEMMA RegisterClientTyped ==
  ASSUME Typed, NEW r \in Refs, NEW c \in Clients, NEW own \in Owners, NEW replace \in BOOLEAN,
         RegisterClient(r, c, own, replace)
  PROVE  Typed'
<1>1. Attach(r, c, own) /\ UNCHANGED <<building, using, ending>>
  BY DEF RegisterClient
<1>2. scheduled' \subseteq Clients /\ overtaken' \subseteq Constructors
  BY ReplacedIsClient DEF RegisterClient, Overtake, Typed, TypeOK
<1>3. /\ binding' \in [Refs -> Clients \cup {NoClient}]
      /\ generation' \in [Refs -> Nat]
      /\ owner' \in [Clients -> {"none", "runtime", "caller"}]
      /\ refs' \in [Clients -> SUBSET Refs] /\ retired' \in [Clients -> SUBSET Refs]
      /\ dropped' \subseteq Clients
  BY <1>1, AttachTyped DEF Typed
<1>4. UNCHANGED <<leases, close, starts, building, using, shutdown, expired, outcome, unfinished>>
  BY <1>1 DEF Attach, ending
<1>5. TypeOK'
  BY <1>2, <1>3, <1>4 DEF Typed, TypeOK
<1>6. Formed' /\ Counted'
  BY <1>4, SameHolders DEF Typed, Formed, BuildingTyped, Active
<1> QED
  BY <1>5, <1>6 DEF Typed

LEMMA PublishTyped ==
  ASSUME Typed, NEW k \in Constructors, Publish(k)
  PROVE  /\ Typed'
         /\ building[k].ref \in Refs /\ building[k].client \in Clients /\ building[k].owner \in Owners
<1> DEFINE r == building[k].ref
           c == building[k].client
           own == building[k].owner
           left == IF Replaced(r, c) = {} THEN NoClient ELSE binding[r]
<1>1. Active(k) /\ r \in Refs /\ c \in Clients /\ own \in Owners
  BY DEF Publish, Typed, Formed, BuildingTyped, Active
<1>2. Attach(r, c, own) /\ Advance(k, "finishing", left) /\ UNCHANGED <<using, scheduled, ending>>
  BY DEF Publish
<1>3. left \in Clients \cup {NoClient}
  BY <1>1 DEF Typed, TypeOK
<1>4. BuildingTyped'
  BY <1>1, <1>2, <1>3, AdvanceTyped
<1>5. overtaken' \subseteq Constructors
  BY DEF Publish, Overtake, Typed, TypeOK
<1>6. TypeOK'
  BY <1>1, <1>2, <1>4, <1>5, AttachTyped DEF Typed, TypeOK, Attach, ending, BuildingTyped, Construction
<1>7. Formed' /\ Counted'
  BY <1>2, <1>4, SameHolders DEF Typed, Formed, Attach
<1> QED
  BY <1>1, <1>6, <1>7 DEF Typed

LEMMA RejectTyped ==
  ASSUME Typed, NEW k \in Constructors, Reject(k)
  PROVE  Typed'
<1> DEFINE b == building[k]
           keep == b.owner = "runtime" /\ ~Recorded(b.client)
           left == IF keep THEN b.client ELSE NoClient
<1>1. Active(k) /\ b.ref \in Refs /\ b.client \in Clients
  BY DEF Reject, Typed, Formed, BuildingTyped, Active
<1>2. Advance(k, "finishing", left) /\ left \in Clients \cup {NoClient}
  BY <1>1 DEF Reject
<1>3. BuildingTyped'
  BY <1>1, <1>2, AdvanceTyped
<1>4. /\ owner' \in [Clients -> {"none", "runtime", "caller"}]
      /\ retired' \in [Clients -> SUBSET Refs]
  BY <1>1 DEF Reject, Typed, TypeOK
<1>5. TypeOK'
  BY <1>3, <1>4 DEF Reject, Typed, TypeOK, BuildingTyped, Construction, bindings, ending, history
<1>6. Formed' /\ Counted'
  BY <1>3, SameHolders DEF Reject, Typed, Formed
<1> QED
  BY <1>5, <1>6 DEF Typed

LEMMA TypedStep ==
  ASSUME Typed, [Next]_vars
  PROVE  Typed'
<1>1. ASSUME NEW r \in Refs, DeregisterModel(r)
      PROVE  Typed'
  <2>1. binding[r] \in Clients
    BY <1>1 DEF DeregisterModel, Typed, TypeOK
  <2>2. generation' \in [Refs -> Nat]
    BY <1>1 DEF DeregisterModel, DeregisteredGeneration, Bumped, Typed, TypeOK
  <2>3. refs' \in [Clients -> SUBSET Refs] /\ retired' \in [Clients -> SUBSET Refs]
    BY <1>1, <2>1 DEF DeregisterModel, Typed, TypeOK
  <2>4. scheduled' \subseteq Clients /\ overtaken' \subseteq Constructors
    BY <1>1, <2>1 DEF DeregisterModel, Overtake, Typed, TypeOK
  <2>5. TypeOK'
    BY <1>1, <2>2, <2>3, <2>4 DEF DeregisterModel, Typed, TypeOK, ending
  <2> QED
    BY <1>1, <2>5, SameBuilding, SameHolders DEF DeregisterModel, Typed, Formed
<1>2. ASSUME NEW k \in Constructors, NEW r \in Refs, NEW own \in Owners, NEW replace \in BOOLEAN,
             BeginConstruction(k, r, own, replace)
      PROVE  Typed'
  <2> DEFINE b == [phase |-> "building", ref |-> r, expected |-> generation[r],
                   replace |-> replace, owner |-> own, client |-> NoClient]
  <2>1. b \in Construction /\ building' = [building EXCEPT ![k] = b]
    BY <1>2 DEF BeginConstruction, Construction, Owners, Typed, TypeOK
  <2>2. BuildingTyped'
    BY <2>1, BuilderTyped
  <2>3. TypeOK'
    BY <1>2, <2>2 DEF BeginConstruction, Typed, TypeOK, BuildingTyped, Construction, bindings,
                      records, ending
  <2> QED
    BY <1>2, <2>2, <2>3, SameHolders DEF BeginConstruction, Typed, Formed, records
<1>3. ASSUME NEW k \in Constructors, NEW c \in Clients \cup {NoClient},
             (FactoryCreates(k, c) /\ c \in Clients) \/ FactoryFails(k)
      PROVE  Typed'
  <2>1. BuildingTyped'
    BY <1>3, AdvanceTyped DEF FactoryCreates, FactoryFails, Active
  <2>2. TypeOK'
    BY <1>3, <2>1 DEF FactoryCreates, FactoryFails, Typed, TypeOK, BuildingTyped, Construction,
                      bindings, records, ending, history
  <2> QED
    BY <1>3, <2>1, <2>2, SameHolders DEF FactoryCreates, FactoryFails, Typed, Formed, records
<1>4. ASSUME NEW k \in Constructors, FinishConstruction(k)
      PROVE  Typed'
  <2>1. Idle \in Construction
    BY DEF Idle, Construction
  <2>2. BuildingTyped'
    BY <1>4, <2>1, BuilderTyped DEF FinishConstruction, Idle
  <2>3. building[k].client \in Clients \cup {NoClient}
    BY DEF Typed, TypeOK
  <2>4. TypeOK'
    BY <1>4, <2>2, <2>3 DEF FinishConstruction, Typed, TypeOK, BuildingTyped, Construction,
                            bindings, records, ending
  <2> QED
    BY <1>4, <2>2, <2>4, SameHolders DEF FinishConstruction, Typed, Formed, records
<1>5. ASSUME NEW u \in Users, (\E r \in Refs : Resolve(u, r)) \/ Refused(u)
      PROVE  Typed'
  <2>1. \A r \in Refs : binding[r] \in Clients \cup {NoClient}
    BY DEF Typed, TypeOK
  <2>6. PICK p \in {"idle", "resolved"}, c \in Clients \cup {NoClient} :
          /\ using' = [using EXCEPT ![u] = [phase |-> p, client |-> c]]
          /\ p = "resolved" => c \in Clients
          /\ using[u].phase # "leased"
    <3>1. CASE \E r \in Refs : Resolve(u, r)
      BY <2>1, <3>1 DEF Resolve
    <3>2. CASE Refused(u)
      BY <3>2 DEF Refused, NotUsing
    <3> QED
      BY <1>5, <3>1, <3>2
  <2>2. /\ using' \in [Users -> [phase : {"idle", "resolved", "leased"},
                                client : Clients \cup {NoClient}]]
        /\ \A v \in Users : using'[v].phase # "idle" => using'[v].client \in Clients
        /\ \A v \in Users : /\ using[v].phase = "leased" <=> using'[v].phase = "leased"
                            /\ using[v].phase = "leased" => using'[v].client = using[v].client
    BY <2>6 DEF Typed, TypeOK, Formed
  <2>3. UNCHANGED <<bindings, records, building, scheduled, ending, history>>
    BY <1>5 DEF Resolve, Refused
  <2>4. TypeOK'
    BY <2>2, <2>3 DEF Typed, TypeOK, bindings, records, ending, history
  <2> QED
    BY <2>2, <2>3, <2>4, SameBuilding, SameHolders DEF Typed, Formed, records
<1>6. ASSUME NEW c \in Clients, Cleans(c) \/ ShutdownPrepare(c) \/ ShutdownJoin(c)
      PROVE  Typed'
  <2>1. Verdict(c) \in {"skipped", "failed", "closed", "waiting"}
    BY DEF Verdict
  <2>2. TypeOK'
    BY <1>6, <2>1 DEF Cleans, RetiredCleanup, StartClose, CloseSucceeds, CloseFails, CloseEnds,
                      ShutdownPrepare, ShutdownJoin, Typed, TypeOK, bindings, records, ending, history
  <2>3. UNCHANGED <<building, using, leases>>
    BY <1>6 DEF Cleans, RetiredCleanup, CloseSucceeds, CloseFails, CloseEnds, ShutdownPrepare,
                ShutdownJoin, records
  <2> QED
    BY <2>2, <2>3, SameBuilding, SameHolders DEF Typed, Formed
<1>7. ASSUME Aclose \/ DeadlineExpires \/ CaptureShutdown \/ ShutdownReport
      PROVE  Typed'
  <2>1. Pending \subseteq Constructors
    BY DEF Pending
  <2>2. UNCHANGED <<bindings, records, building, using, scheduled, history>>
    BY <1>7 DEF Aclose, DeadlineExpires, CaptureShutdown, ShutdownReport
  <2>3. /\ shutdown' \in {"open", "draining", "closing", "done"} /\ expired' \in BOOLEAN
        /\ outcome' \in [Clients -> {"none", "pending", "waiting", "closed", "skipped", "failed"}]
        /\ unfinished' \subseteq Constructors
    <3>1. CASE Aclose
      BY <3>1 DEF Aclose, Typed, TypeOK
    <3>2. CASE DeadlineExpires
      BY <3>2 DEF DeadlineExpires, Typed, TypeOK
    <3>3. CASE CaptureShutdown
      BY <2>1, <3>3 DEF CaptureShutdown, Typed, TypeOK
    <3>4. CASE ShutdownReport
      BY <3>4 DEF ShutdownReport, Typed, TypeOK
    <3> QED
      BY <1>7, <3>1, <3>2, <3>3, <3>4
  <2>4. TypeOK'
    BY <2>2, <2>3 DEF Typed, TypeOK, bindings, records, history
  <2> QED
    BY <2>2, <2>4, SameBuilding, SameHolders DEF Typed, Formed, records
<1>8. ASSUME UNCHANGED vars
      PROVE  Typed'
  <2>1. TypeOK'
    BY <1>8 DEF vars, bindings, records, ending, history, Typed, TypeOK
  <2> QED
    BY <1>8, <2>1, SameBuilding, SameHolders DEF vars, records, Typed, Formed
<1>9. CASE Registers
  BY <1>1, <1>9, RegisterClientTyped DEF Registers, Owners
<1>10. ASSUME NEW k \in Constructors, Constructs(k)
       PROVE  Typed'
  BY <1>2, <1>3, <1>4, <1>10, PublishTyped, RejectTyped DEF Constructs, Owners
<1>11. ASSUME NEW u \in Users, Uses(u)
       PROVE  Typed'
  BY <1>5, <1>11, AcquireTyped, ReleaseTyped DEF Uses
<1>12. CASE Closes
  BY <1>6, <1>7, <1>12 DEF Closes
<1> QED
  BY <1>6, <1>8, <1>9, <1>10, <1>11, <1>12 DEF Next

LEMMA TypedInit ==
  Init => Typed
<1> SUFFICES ASSUME Init
             PROVE  Typed
  OBVIOUS
<1>1. TypeOK
  BY DEF Init, TypeOK, Idle, NotUsing
<1>2. Formed
  BY DEF Init, Formed, BuildingTyped, Construction, Active, Idle, NotUsing
<1>3. \A c \in Clients : Holders(c) = {}
  BY DEF Init, Holders, NotUsing
<1> QED
  BY <1>1, <1>2, <1>3, FS_EmptySet DEF Init, Typed, Counted

\* Whatever happens, the registry's tables hold what they are for, and a client
\* has as many leases as calls that hold one (acquire, release_lease).
THEOREM TypeCorrect == Spec => []TypeOK
<1>1. Typed => TypeOK
  BY DEF Typed
<1> QED
  BY <1>1, TypedInit, TypedStep, PTL DEF Spec

-----------------------------------------------------------------------------
(***************************************************************************)
(* What a step does to the records of clients.                              *)
(***************************************************************************)
Attaches ==
  \E r \in Refs, c \in Clients, own \in Owners : Open /\ Bindable(c, own) /\ Attach(r, c, own)

Keeps(c) ==
  /\ ~Recorded(c) /\ owner' = [owner EXCEPT ![c] = "runtime"]
  /\ UNCHANGED <<bindings, refs, leases, close, starts, outcome, shutdown>>

Leases(c, n) ==
  /\ leases' = [leases EXCEPT ![c] = n]
  /\ n > 0 => leases[c] > 0 \/ (Open /\ Usable(c))
  /\ UNCHANGED <<bindings, owner, refs, close, starts, outcome, shutdown>>

LEMMA PublishAttaches ==
  ASSUME Typed, NEW k \in Constructors, Publish(k)
  PROVE  Attaches /\ UNCHANGED <<outcome, shutdown>>
<1>1. building[k].ref \in Refs /\ building[k].client \in Clients /\ building[k].owner \in Owners
  BY PublishTyped
<1> QED
  BY <1>1 DEF Publish, Attaches, ending

\* One step attaches, detaches, keeps or uses a client, starts or ends a close,
\* or it changes no record; only the first two change a binding.
LEMMA RecordSteps ==
  ASSUME Typed, [Next]_vars
  PROVE  \/ Attaches /\ UNCHANGED <<outcome, shutdown>>
         \/ \E r \in Refs : DeregisterModel(r)
         \/ \E c \in Clients : Keeps(c)
         \/ \E c \in Clients, n \in Nat : Leases(c, n)
         \/ \E c \in Clients : RetiredCleanup(c) \/ ShutdownPrepare(c)
         \/ \E c \in Clients, result \in {"closed", "failed"} : CloseEnds(c, result)
         \/ UNCHANGED <<bindings, owner, refs, leases, close, starts>>
<1>1. ASSUME NEW r \in Refs, NEW c \in Clients, NEW own \in Owners, NEW replace \in BOOLEAN,
             RegisterClient(r, c, own, replace)
      PROVE  Attaches /\ UNCHANGED <<outcome, shutdown>>
  BY <1>1 DEF RegisterClient, Attaches, ending
<1>2. ASSUME NEW k \in Constructors, Reject(k)
      PROVE  \/ \E c \in Clients : Keeps(c)
             \/ UNCHANGED <<bindings, owner, refs, leases, close, starts>>
  BY <1>2 DEF Reject, Keeps, Typed, Formed, BuildingTyped, history, ending
<1>3. ASSUME NEW u \in Users, Acquire(u) \/ Release(u) \/ ReleaseCancelled(u)
      PROVE  \E c \in Clients, n \in Nat : Leases(c, n)
  <2> DEFINE c == using[u].client
  <2>1. c \in Clients /\ leases[c] \in Nat
    BY <1>3 DEF Acquire, Release, ReleaseCancelled, Typed, TypeOK, Formed
  <2>2. CASE Acquire(u)
    <3>1. Leases(c, leases[c] + 1)
      BY <2>1, <2>2 DEF Acquire, Leases, history, ending
    <3> QED
      BY <2>1, <3>1
  <2>3. CASE Release(u) \/ ReleaseCancelled(u)
    <3>1. leases[c] > 0
      BY <2>3, ReleaseTyped
    <3>2. leases[c] - 1 \in Nat
      BY <2>1, <3>1
    <3>3. Leases(c, leases[c] - 1)
      <4>1. CASE Release(u)
        BY <3>1, <4>1 DEF Release, Leases, history, ending
      <4>2. CASE ReleaseCancelled(u)
        BY <3>1, <4>2 DEF ReleaseCancelled, Leases, history, ending
      <4> QED
        BY <2>3, <4>1, <4>2
    <3> QED
      BY <2>1, <3>2, <3>3
  <2> QED
    BY <1>3, <2>2, <2>3
<1>4. ASSUME \/ \E k \in Constructors : \/ \E r \in Refs, own \in Owners, replace \in BOOLEAN :
                                             BeginConstruction(k, r, own, replace)
                                        \/ \E c \in Clients : FactoryCreates(k, c)
                                        \/ FactoryFails(k) \/ FinishConstruction(k)
             \/ \E u \in Users : (\E r \in Refs : Resolve(u, r)) \/ Refused(u)
             \/ Aclose \/ DeadlineExpires \/ CaptureShutdown \/ ShutdownReport
             \/ \E c \in Clients : ShutdownJoin(c)
             \/ UNCHANGED vars
      PROVE  UNCHANGED <<bindings, owner, refs, leases, close, starts>>
  BY <1>4 DEF BeginConstruction, FactoryCreates, FactoryFails, FinishConstruction, Resolve, Refused,
              Aclose, DeadlineExpires, CaptureShutdown, ShutdownReport, ShutdownJoin, vars, records,
              history
<1>5. ASSUME NEW k \in Constructors, Constructs(k)
      PROVE  \/ Attaches /\ UNCHANGED <<outcome, shutdown>>
             \/ \E c \in Clients : Keeps(c)
             \/ UNCHANGED <<bindings, owner, refs, leases, close, starts>>
  BY <1>2, <1>4, <1>5, PublishAttaches DEF Constructs, Owners
<1>6. ASSUME NEW u \in Users, Uses(u)
      PROVE  \/ \E c \in Clients, n \in Nat : Leases(c, n)
             \/ UNCHANGED <<bindings, owner, refs, leases, close, starts>>
  BY <1>3, <1>4, <1>6 DEF Uses
<1>7. ASSUME NEW c \in Clients, Cleans(c)
      PROVE  RetiredCleanup(c) \/ \E result \in {"closed", "failed"} : CloseEnds(c, result)
  BY <1>7 DEF Cleans, CloseSucceeds, CloseFails
<1>8. CASE Registers
  BY <1>1, <1>8 DEF Registers, Owners
<1>9. CASE Closes
  BY <1>4, <1>9 DEF Closes
<1>10. CASE UNCHANGED vars
  BY <1>4, <1>10
<1> QED
  BY <1>5, <1>6, <1>7, <1>8, <1>9, <1>10 DEF Next

-----------------------------------------------------------------------------
(***************************************************************************)
(* Each part of the invariant is kept.                                      *)
(***************************************************************************)
LEMMA ClaimedOnceStep ==
  ASSUME Typed, ClaimedOnce, Judged, [Next]_vars
  PROVE  ClaimedOnce'
<1> USE DEF ClaimedOnce, Owned
<1>1. CASE Attaches
  <2>1. PICK c \in Clients, own \in Owners :
          /\ owner' = [owner EXCEPT ![c] = own] /\ owner[c] \in {"none", own} /\ close[c] = "open"
          /\ UNCHANGED <<leases, close, starts>>
    BY <1>1 DEF Attaches, Attach, Bindable
  <2> QED
    BY <2>1 DEF Typed, TypeOK
<1>2. ASSUME NEW r \in Refs, DeregisterModel(r)
      PROVE  ClaimedOnce'
  BY <1>2 DEF DeregisterModel
<1>3. ASSUME NEW c \in Clients, Keeps(c)
      PROVE  ClaimedOnce'
  BY <1>3 DEF Keeps, Recorded, Typed, TypeOK
<1>4. ASSUME NEW c \in Clients, NEW n \in Nat, Leases(c, n)
      PROVE  ClaimedOnce'
  BY <1>4 DEF Leases, Usable, Typed, TypeOK
<1>5. ASSUME NEW c \in Clients, RetiredCleanup(c)
      PROVE  ClaimedOnce'
  BY <1>5 DEF RetiredCleanup, Revalidated, Eligible, StartClose, Typed, TypeOK
<1>6. ASSUME NEW c \in Clients, ShutdownPrepare(c)
      PROVE  ClaimedOnce'
  <2>1. owner[c] # "none" /\ owner[c] \in {"none", "runtime", "caller"} /\ leases[c] \in Nat
    BY <1>6 DEF ShutdownPrepare, Judged, Recorded, Typed, TypeOK
  <2>2. Verdict(c) = "waiting" => owner[c] = "runtime" /\ leases[c] = 0
    BY <2>1 DEF Verdict
  <2>3. UNCHANGED <<owner, leases>>
    BY <1>6 DEF ShutdownPrepare
  <2>4. CASE Verdict(c) = "waiting" /\ Unclaimed(c)
    BY <1>6, <2>2, <2>3, <2>4 DEF ShutdownPrepare, StartClose, Unclaimed, Typed, TypeOK
  <2>5. CASE ~(Verdict(c) = "waiting" /\ Unclaimed(c))
    BY <1>6, <2>3, <2>5 DEF ShutdownPrepare
  <2> QED
    BY <2>4, <2>5
<1>7. ASSUME NEW c \in Clients, NEW result \in {"closed", "failed"}, CloseEnds(c, result)
      PROVE  ClaimedOnce'
  BY <1>7 DEF CloseEnds, history, Typed, TypeOK
<1> QED
  BY <1>1, <1>2, <1>3, <1>4, <1>5, <1>6, <1>7, RecordSteps

LEMMA MirroredStep ==
  ASSUME Typed, Mirrored, [Next]_vars
  PROVE  Mirrored'
<1> USE DEF Mirrored
<1>1. ASSUME NEW r \in Refs, NEW c \in Clients, NEW own \in Owners, Attach(r, c, own)
      PROVE  Mirrored'
  <2>1. binding' = [binding EXCEPT ![r] = c] /\ binding \in [Refs -> Clients \cup {NoClient}]
    BY <1>1 DEF Attach, Typed, TypeOK
  <2>2. \A x \in Clients : refs'[x] = IF x = c THEN refs[x] \cup {r}
                                      ELSE IF x = binding[r] THEN refs[x] \ {r} ELSE refs[x]
    BY <1>1 DEF Attach
  <2> SUFFICES ASSUME NEW q \in Refs, NEW x \in Clients
               PROVE  q \in refs'[x] <=> binding'[q] = x
    OBVIOUS
  <2>3. binding'[q] = IF q = r THEN c ELSE binding[q]
    BY <2>1
  <2>4. q \in refs[x] <=> binding[q] = x
    BY DEF Mirrored
  <2>5. CASE x = c
    <3>0. refs'[c] = refs[c] \cup {r}
      BY <2>2
    <3>1. q \in refs'[c] <=> q \in refs[c] \/ q = r
      BY <3>0
    <3>2. q \in refs[c] <=> binding[q] = c
      BY <2>4, <2>5
    <3>3. binding'[q] = c <=> q = r \/ binding[q] = c
      BY <2>3
    <3> QED
      BY <2>5, <3>1, <3>2, <3>3
  <2>6. CASE x # c /\ x = binding[r]
    <3>1. refs'[x] = refs[x] \ {r}
      BY <2>2, <2>6
    <3>2. q \in refs'[x] <=> q \in refs[x] /\ q # r
      BY <3>1
    <3> QED
      BY <2>3, <2>4, <2>6, <3>2
  <2>7. CASE x # c /\ x # binding[r]
    <3>1. refs'[x] = refs[x]
      BY <2>2, <2>7
    <3>2. q \in refs'[x] <=> q \in refs[x]
      BY <3>1
    <3> QED
      BY <2>3, <2>4, <2>7, <3>2
  <2> QED
    BY <2>5, <2>6, <2>7
<1>2. ASSUME NEW r \in Refs, DeregisterModel(r)
      PROVE  Mirrored'
  BY <1>2, RegistryAssumption DEF DeregisterModel, Typed, TypeOK
<1>3. CASE UNCHANGED <<bindings, refs>>
  BY <1>3 DEF bindings
<1> QED
  BY <1>1, <1>2, <1>3, RecordSteps
  DEF Attaches, Keeps, Leases, RetiredCleanup, ShutdownPrepare, CloseEnds

LEMMA NeverReopened ==
  ASSUME [Next]_vars
  PROVE  Open' => Open
<1>1. CASE Registers
  BY <1>1 DEF Registers, RegisterClient, DeregisterModel, ending, Open
<1>2. ASSUME NEW k \in Constructors, Constructs(k)
      PROVE  Open' => Open
  BY <1>2 DEF Constructs, BeginConstruction, FactoryCreates, FactoryFails, Publish, Reject,
              FinishConstruction, ending, Open
<1>3. ASSUME NEW u \in Users, Uses(u)
      PROVE  Open' => Open
  BY <1>3 DEF Uses, Resolve, Acquire, Refused, Release, ReleaseCancelled, ending, Open
<1>4. ASSUME NEW c \in Clients, Cleans(c)
      PROVE  Open' => Open
  BY <1>4 DEF Cleans, RetiredCleanup, CloseSucceeds, CloseFails, CloseEnds, ending, Open
<1>5. CASE Closes
  BY <1>5 DEF Closes, Aclose, DeadlineExpires, CaptureShutdown, ShutdownPrepare, ShutdownJoin,
              ShutdownReport, Open
<1>6. CASE UNCHANGED vars
  BY <1>6 DEF vars, ending, Open
<1> QED
  BY <1>1, <1>2, <1>3, <1>4, <1>5, <1>6 DEF Next

LEMMA BoundAreOpenStep ==
  ASSUME Typed, BoundAreOpen, Mirrored, [Next]_vars
  PROVE  BoundAreOpen'
<1> USE DEF BoundAreOpen, Open
<1>1. ASSUME NEW r \in Refs, NEW c \in Clients, NEW own \in Owners,
             Open, Bindable(c, own), Attach(r, c, own)
      PROVE  BoundAreOpen'
  BY <1>1 DEF Attach, Bindable, Typed, TypeOK
<1>2. ASSUME NEW r \in Refs, DeregisterModel(r)
      PROVE  BoundAreOpen'
  BY <1>2, RegistryAssumption DEF DeregisterModel, Typed, TypeOK
<1>3. ASSUME NEW c \in Clients, RetiredCleanup(c)
      PROVE  BoundAreOpen'
  BY <1>3 DEF RetiredCleanup, Revalidated, Eligible, StartClose, ending, Typed, TypeOK
<1>4. CASE ~Open'
  BY <1>4
<1>5. CASE UNCHANGED <<refs, close, shutdown>>
  BY <1>5
<1>6. ASSUME NEW c \in Clients, NEW result, CloseEnds(c, result)
      PROVE  BoundAreOpen'
  BY <1>6 DEF CloseEnds, ending, Typed, TypeOK
<1>7. ASSUME NEW c \in Clients, ShutdownPrepare(c)
      PROVE  ~Open'
  BY <1>7 DEF ShutdownPrepare
<1>8. CASE UNCHANGED <<refs, close>> /\ ~(Open' /\ ~Open)
  BY <1>8
<1> QED
  BY <1>1, <1>2, <1>3, <1>4, <1>5, <1>6, <1>7, <1>8, RecordSteps, NeverReopened
  DEF Attaches, Keeps, Leases

\* A step of the shutdown pass, or one that leaves what it found alone.
LEMMA EndingSteps ==
  ASSUME [Next]_vars
  PROVE  \/ UNCHANGED <<outcome, shutdown>>
         \/ Aclose \/ CaptureShutdown \/ ShutdownReport
         \/ \E c \in Clients : ShutdownPrepare(c) \/ ShutdownJoin(c)
<1>1. CASE Registers
  BY <1>1 DEF Registers, RegisterClient, DeregisterModel, ending
<1>2. ASSUME NEW k \in Constructors, Constructs(k)
      PROVE  UNCHANGED <<outcome, shutdown>>
  BY <1>2 DEF Constructs, BeginConstruction, FactoryCreates, FactoryFails, Publish, Reject,
              FinishConstruction, ending
<1>3. ASSUME NEW u \in Users, Uses(u)
      PROVE  UNCHANGED <<outcome, shutdown>>
  BY <1>3 DEF Uses, Resolve, Acquire, Refused, Release, ReleaseCancelled, ending
<1>4. ASSUME NEW c \in Clients, Cleans(c)
      PROVE  UNCHANGED <<outcome, shutdown>>
  BY <1>4 DEF Cleans, RetiredCleanup, CloseSucceeds, CloseFails, CloseEnds, ending
<1>5. DeadlineExpires => UNCHANGED <<outcome, shutdown>>
  BY DEF DeadlineExpires
<1>6. CASE UNCHANGED vars
  BY <1>6 DEF vars, ending
<1> QED
  BY <1>1, <1>2, <1>3, <1>4, <1>5, <1>6 DEF Next, Closes

\* A verdict that was given stays true of its client.
LEMMA JudgedRecords ==
  ASSUME Typed, Judged, ClaimedOnce, [Next]_vars
  PROVE  \A c \in Clients : /\ Recorded(c) => Recorded(c)'
                            /\ close[c] = "closed" => close'[c] = "closed"
                            /\ owner[c] = "caller" => owner'[c] = "caller"
<1> USE DEF Recorded
<1>1. CASE Attaches
  <2>1. PICK c \in Clients, own \in Owners :
          owner' = [owner EXCEPT ![c] = own] /\ owner[c] \in {"none", own} /\ close' = close
    BY <1>1 DEF Attaches, Attach, Bindable
  <2> QED
    BY <2>1 DEF Typed, TypeOK, Owners
<1>2. ASSUME NEW c \in Clients, Keeps(c)
      PROVE  owner' = [owner EXCEPT ![c] = "runtime"] /\ owner[c] = "none" /\ close' = close
  BY <1>2 DEF Keeps
<1>3. ASSUME NEW c \in Clients, RetiredCleanup(c) \/ ShutdownPrepare(c)
      PROVE  /\ owner' = owner
             /\ close' = close \/ (close[c] = "open" /\ close' = [close EXCEPT ![c] = "started"])
  BY <1>3 DEF RetiredCleanup, Revalidated, Eligible, ShutdownPrepare, Unclaimed, StartClose
<1>4. ASSUME NEW c \in Clients, NEW result, CloseEnds(c, result)
      PROVE  owner' = owner /\ close[c] = "started" /\ close' = [close EXCEPT ![c] = result]
  BY <1>4 DEF CloseEnds
<1>5. CASE UNCHANGED <<owner, close>>
  BY <1>5
<1>6. ASSUME NEW c \in Clients, Keeps(c)
      PROVE  \A d \in Clients : /\ Recorded(d) => Recorded(d)'
                                /\ close[d] = "closed" => close'[d] = "closed"
                                /\ owner[d] = "caller" => owner'[d] = "caller"
  BY <1>2, <1>6 DEF Typed, TypeOK
<1>7. ASSUME NEW c \in Clients, RetiredCleanup(c) \/ ShutdownPrepare(c)
      PROVE  \A d \in Clients : /\ Recorded(d) => Recorded(d)'
                                /\ close[d] = "closed" => close'[d] = "closed"
                                /\ owner[d] = "caller" => owner'[d] = "caller"
  BY <1>3, <1>7 DEF Typed, TypeOK
<1>8. ASSUME NEW c \in Clients, NEW result, CloseEnds(c, result)
      PROVE  \A d \in Clients : /\ Recorded(d) => Recorded(d)'
                                /\ close[d] = "closed" => close'[d] = "closed"
                                /\ owner[d] = "caller" => owner'[d] = "caller"
  BY <1>4, <1>8 DEF Typed, TypeOK
<1> QED
  BY <1>1, <1>5, <1>6, <1>7, <1>8, RecordSteps DEF DeregisterModel, Leases

LEMMA JudgedStep ==
  ASSUME Typed, Judged, ClaimedOnce, [Next]_vars
  PROVE  Judged'
<1>0. \A c \in Clients : /\ Recorded(c) => Recorded(c)'
                         /\ close[c] = "closed" => close'[c] = "closed"
                         /\ owner[c] = "caller" => owner'[c] = "caller"
  BY JudgedRecords
<1>1. CASE UNCHANGED <<outcome, shutdown>>
  BY <1>0, <1>1 DEF Judged
<1>2. CASE Aclose
  BY <1>0, <1>2 DEF Aclose, Judged
<1>3. CASE CaptureShutdown
  <2>1. \A c \in Clients : outcome'[c] = IF Recorded(c) THEN "pending" ELSE "none"
    BY <1>3 DEF CaptureShutdown
  <2>2. shutdown' = "closing"
    BY <1>3 DEF CaptureShutdown
  <2> QED
    BY <1>0, <2>1, <2>2 DEF Judged
<1>4. CASE ShutdownReport
  BY <1>0, <1>4 DEF ShutdownReport, Judged
<1>5. ASSUME NEW c \in Clients, ShutdownPrepare(c)
      PROVE  Judged'
  <2>1. outcome' = [outcome EXCEPT ![c] = Verdict(c)] /\ outcome[c] = "pending"
        /\ shutdown = "closing" /\ shutdown' = shutdown
    BY <1>5 DEF ShutdownPrepare
  <2>2. Recorded(c)
    BY <2>1 DEF Judged
  <2>3. /\ Verdict(c) = "closed" => close[c] = "closed"
        /\ Verdict(c) = "skipped" => owner[c] = "caller"
    BY DEF Verdict
  <2> QED
    BY <1>0, <2>1, <2>2, <2>3 DEF Judged, Typed, TypeOK
<1>6. ASSUME NEW c \in Clients, ShutdownJoin(c)
      PROVE  Judged'
  <2>1. PICK result \in {"closed", "failed"} :
          /\ outcome' = [outcome EXCEPT ![c] = result]
          /\ result = "closed" => close[c] = "closed"
    BY <1>6 DEF ShutdownJoin
  <2>2. outcome[c] = "waiting" /\ shutdown = "closing" /\ shutdown' = shutdown
    BY <1>6 DEF ShutdownJoin
  <2> QED
    BY <1>0, <2>1, <2>2 DEF Judged, Typed, TypeOK
<1> QED
  BY <1>1, <1>2, <1>3, <1>4, <1>5, <1>6, EndingSteps

(***************************************************************************)
(* Generations and the constructions they date.                             *)
(***************************************************************************)
\* What a construction that is still in flight captured does not change.
SameCapture == \A k \in Constructors : Active(k)' =>
  Active(k) /\ building'[k].ref = building[k].ref /\ building'[k].expected = building[k].expected

LEMMA AdvanceCapture ==
  ASSUME Typed, NEW k \in Constructors, NEW at, NEW c, Active(k), Advance(k, at, c)
  PROVE  SameCapture
BY DEF Advance, Active, SameCapture, Typed, TypeOK

LEMMA RebindsDated ==
  ASSUME Typed, Dated, SameCapture, Overtake, NEW r \in Refs, NEW c,
         binding' = [binding EXCEPT ![r] = c], generation' = [generation EXCEPT ![r] = @ + 1]
  PROVE  Dated'
<1> SUFFICES ASSUME NEW k \in Constructors, Active(k)'
             PROVE  /\ building'[k].expected <= generation'[building'[k].ref]
                    /\ k \in overtaken' => building'[k].expected < generation'[building'[k].ref]
  BY DEF Dated
<1> DEFINE q == building[k].ref
<1>1. /\ Active(k) /\ building'[k].ref = q /\ building'[k].expected = building[k].expected
      /\ q \in Refs /\ building[k].expected \in Nat
  BY DEF SameCapture, Typed, TypeOK, Formed, BuildingTyped
<1>2. /\ building[k].expected <= generation[q] /\ generation[q] \in Nat
      /\ k \in overtaken => building[k].expected < generation[q]
  BY <1>1 DEF Dated, Typed, TypeOK
<1>3. generation'[q] = IF q = r THEN generation[q] + 1 ELSE generation[q]
  BY <1>1 DEF Typed, TypeOK
<1>4. k \in overtaken' => k \in overtaken \/ q = r
  BY <1>1 DEF Overtake, Typed, TypeOK
<1> HIDE DEF q
<1> QED
  BY <1>1, <1>2, <1>3, <1>4

LEMMA DatedStep ==
  ASSUME Typed, Dated, [Next]_vars
  PROVE  Dated'
<1>1. ASSUME NEW r \in Refs, NEW c \in Clients, NEW own \in Owners, NEW replace \in BOOLEAN,
             RegisterClient(r, c, own, replace)
      PROVE  Dated'
  <2>1. SameCapture /\ Overtake
    BY <1>1 DEF RegisterClient, SameCapture, Active
  <2> QED
    BY <1>1, <2>1, RebindsDated DEF RegisterClient, Attach
<1>2. ASSUME NEW r \in Refs, DeregisterModel(r)
      PROVE  Dated'
  <2>1. SameCapture /\ Overtake
    BY <1>2 DEF DeregisterModel, SameCapture, Active
  <2> QED
    BY <1>2, <2>1, RebindsDated DEF DeregisterModel, DeregisteredGeneration, Bumped
<1>3. ASSUME NEW k \in Constructors, Publish(k)
      PROVE  Dated'
  <2>1. building[k].ref \in Refs
    BY <1>3, PublishTyped
  <2>2. SameCapture /\ Overtake
    BY <1>3, AdvanceCapture DEF Publish, Active
  <2> QED
    BY <1>3, <2>1, <2>2, RebindsDated DEF Publish, Attach
<1>4. ASSUME SameCapture, generation' = generation, overtaken' \subseteq overtaken
      PROVE  Dated'
  BY <1>4 DEF Dated, SameCapture
<1>5. ASSUME NEW k \in Constructors, NEW r \in Refs, NEW own, NEW replace,
             BeginConstruction(k, r, own, replace)
      PROVE  Dated'
  <2>1. /\ building' = [building EXCEPT ![k] =
             [phase |-> "building", ref |-> r, expected |-> generation[r], replace |-> replace,
              owner |-> own, client |-> NoClient]]
        /\ overtaken' = overtaken \ {k} /\ generation' = generation
    BY <1>5 DEF BeginConstruction, bindings
  <2>2. k \notin overtaken' /\ generation[r] \in Nat
    BY <2>1 DEF Typed, TypeOK
  <2>3. building'[k].ref = r /\ building'[k].expected = generation[r]
    BY <2>1 DEF Typed, TypeOK
  <2>4. \A j \in Constructors \ {k} : building'[j] = building[j] /\ (j \in overtaken' <=> j \in overtaken)
    BY <2>1 DEF Typed, TypeOK
  <2> QED
    BY <2>1, <2>2, <2>3, <2>4 DEF Dated, Active
<1>6. ASSUME NEW k \in Constructors, FinishConstruction(k)
      PROVE  Dated'
  <2>1. SameCapture
    BY <1>6 DEF FinishConstruction, SameCapture, Active, Idle, Typed, TypeOK
  <2>2. generation' = generation /\ overtaken' \subseteq overtaken
    BY <1>6 DEF FinishConstruction, bindings
  <2> QED
    BY <1>4, <2>1, <2>2
<1>7. ASSUME NEW k \in Constructors,
             (\E c \in Clients : FactoryCreates(k, c)) \/ FactoryFails(k) \/ Reject(k)
      PROVE  Dated'
  <2>1. PICK at \in {"built", "finishing"}, c \in Clients \cup {NoClient} : Advance(k, at, c)
    BY <1>7, RejectTyped DEF FactoryCreates, FactoryFails, Reject, Typed, Formed, BuildingTyped
  <2>2. SameCapture
    BY <1>7, <2>1, AdvanceCapture DEF FactoryCreates, FactoryFails, Reject, Active
  <2>3. generation' = generation /\ overtaken' = overtaken
    BY <1>7 DEF FactoryCreates, FactoryFails, Reject, bindings, history
  <2> QED
    BY <1>4, <2>2, <2>3
<1>8. ASSUME UNCHANGED <<building, generation, overtaken>>
      PROVE  Dated'
  BY <1>4, <1>8 DEF SameCapture, Active
<1>9. ASSUME NEW k \in Constructors, Constructs(k)
      PROVE  Dated'
  BY <1>3, <1>5, <1>6, <1>7, <1>9 DEF Constructs
<1>10. ASSUME NEW u \in Users, Uses(u)
       PROVE  Dated'
  BY <1>8, <1>10 DEF Uses, Resolve, Acquire, Refused, Release, ReleaseCancelled, bindings, history
<1>11. ASSUME NEW c \in Clients, Cleans(c)
       PROVE  Dated'
  BY <1>8, <1>11 DEF Cleans, RetiredCleanup, CloseSucceeds, CloseFails, CloseEnds, bindings, history
<1>12. CASE Closes
  BY <1>8, <1>12 DEF Closes, Aclose, DeadlineExpires, CaptureShutdown, ShutdownPrepare,
                     ShutdownJoin, ShutdownReport, bindings, history
<1>13. CASE UNCHANGED vars
  BY <1>8, <1>13 DEF vars, bindings, history
<1>14. CASE Registers
  BY <1>1, <1>2, <1>14 DEF Registers, Owners
<1> QED
  BY <1>9, <1>10, <1>11, <1>12, <1>13, <1>14 DEF Next

(***************************************************************************)
(* Retired clients and the cleanups that await them.                        *)
(***************************************************************************)
\* A step that publishes: nobody else loses a cleanup, and the client replaced
\* is either still in use or the one to clean up.
LEMMA AttachForgets ==
  ASSUME Typed, Mirrored, NEW r \in Refs, NEW c \in Clients, NEW own \in Owners, Attach(r, c, own)
  PROVE  \A x \in Clients \ dropped' : Retired(x)' =>
           x \notin dropped /\ (Retired(x) \/ (x = binding[r] /\ Replaced(r, c) = {x}))
<1> SUFFICES ASSUME NEW x \in Clients, x \notin dropped', Retired(x)'
             PROVE  x \notin dropped /\ (Retired(x) \/ (x = binding[r] /\ Replaced(r, c) = {x}))
  OBVIOUS
<1>1. x # c
  <2>1. refs'[c] = refs[c] \cup {r}
    BY DEF Attach
  <2> QED
    BY <2>1 DEF Retired
<1>2. /\ refs'[x] = IF x = binding[r] THEN refs[x] \ {r} ELSE refs[x]
      /\ owner'[x] = owner[x] /\ leases'[x] = leases[x] /\ close'[x] = close[x]
  BY <1>1 DEF Attach, Typed, TypeOK
<1>3. x \notin dropped
  BY <1>1 DEF Attach
<1>4. CASE x # binding[r]
  BY <1>2, <1>3, <1>4 DEF Retired, Owned
<1>5. CASE x = binding[r]
  BY <1>1, <1>2, <1>3, <1>5 DEF Retired, Owned, Replaced, Eligible
<1> QED
  BY <1>4, <1>5

LEMMA ForgottenStep ==
  ASSUME Typed, Mirrored, RetiredClientAwaitsCleanup, [Next]_vars
  PROVE  RetiredClientAwaitsCleanup'
<1> SUFFICES ASSUME NEW x \in Clients, x \notin dropped', Retired(x)'
             PROVE  Awaited(x)'
  BY DEF RetiredClientAwaitsCleanup
<1>0. x \notin dropped /\ Retired(x) => Awaited(x)
  BY DEF RetiredClientAwaitsCleanup
<1>1. ASSUME building' = building, scheduled \subseteq scheduled', Awaited(x)
      PROVE  Awaited(x)'
  BY <1>1 DEF Awaited
<1>2. ASSUME NEW k \in Constructors, building[k].phase # "finishing", scheduled' = scheduled,
             \A j \in Constructors \ {k} : building'[j] = building[j], Awaited(x)
      PROVE  Awaited(x)'
  BY <1>2 DEF Awaited
<1>3. ASSUME NEW r \in Refs, NEW c \in Clients, NEW own \in Owners, NEW replace \in BOOLEAN,
             RegisterClient(r, c, own, replace)
      PROVE  Awaited(x)'
  <2>1. Attach(r, c, own) /\ scheduled' = scheduled \cup Replaced(r, c) /\ building' = building
    BY <1>3 DEF RegisterClient
  <2>2. Awaited(x) \/ x \in Replaced(r, c)
    BY <1>0, <2>1, AttachForgets
  <2> QED
    BY <1>1, <2>1, <2>2 DEF Awaited
<1>4. ASSUME NEW r \in Refs, DeregisterModel(r)
      PROVE  Awaited(x)'
  <2> DEFINE c == binding[r]
  <2>1. /\ c \in Clients /\ building' = building
        /\ scheduled' = scheduled \cup (IF Eligible(c, refs[c] \ {r}, leases[c]) THEN {c} ELSE {})
        /\ refs' = [refs EXCEPT ![c] = @ \ {r}]
        /\ UNCHANGED <<owner, leases, close, dropped>>
    BY <1>4 DEF DeregisterModel, Typed, TypeOK
  <2>2. CASE x = c
    <3>1. refs'[c] = refs[c] \ {r}
      BY <2>1 DEF Typed, TypeOK
    <3>2. Eligible(c, refs[c] \ {r}, leases[c])
      BY <2>1, <2>2, <3>1 DEF Retired, Owned, Eligible
    <3> QED
      BY <2>1, <2>2, <3>2 DEF Awaited
  <2>3. CASE x # c
    BY <1>0, <1>1, <2>1, <2>3 DEF Retired, Owned, Typed, TypeOK
  <2> QED
    BY <2>2, <2>3
<1>5. ASSUME NEW k \in Constructors, Publish(k)
      PROVE  Awaited(x)'
  <2> DEFINE r == building[k].ref
             c == building[k].client
             left == IF Replaced(r, c) = {} THEN NoClient ELSE binding[r]
  <2>1. r \in Refs /\ c \in Clients /\ building[k].owner \in Owners
    BY <1>5, PublishTyped
  <2>2. /\ Attach(r, c, building[k].owner) /\ Advance(k, "finishing", left)
        /\ scheduled' = scheduled /\ building[k].phase = "built"
    BY <1>5 DEF Publish
  <2>3. /\ \A j \in Constructors \ {k} : building'[j] = building[j]
        /\ building'[k].phase = "finishing" /\ building'[k].client = left
    BY <2>2 DEF Advance, Typed, TypeOK
  <2>4. Awaited(x) \/ (x = binding[r] /\ Replaced(r, c) = {x})
    BY <1>0, <2>1, <2>2, AttachForgets
  <2>5. CASE Awaited(x)
    BY <1>2, <2>2, <2>3, <2>5
  <2>6. CASE x = binding[r] /\ Replaced(r, c) = {x}
    BY <2>3, <2>6 DEF Awaited
  <2> QED
    BY <2>4, <2>5, <2>6
<1>6. ASSUME NEW k \in Constructors, Reject(k)
      PROVE  Awaited(x)'
  <2> DEFINE b == building[k]
             keep == b.owner = "runtime" /\ ~Recorded(b.client)
             left == IF keep THEN b.client ELSE NoClient
  <2>1. /\ Advance(k, "finishing", left) /\ b.phase = "built" /\ scheduled' = scheduled
        /\ owner' = IF keep THEN [owner EXCEPT ![b.client] = "runtime"] ELSE owner
        /\ UNCHANGED <<refs, leases, close, dropped>>
    BY <1>6 DEF Reject, history
  <2>2. /\ \A j \in Constructors \ {k} : building'[j] = building[j]
        /\ building'[k].phase = "finishing" /\ building'[k].client = left
    BY <2>1 DEF Advance, Typed, TypeOK
  <2>3. CASE keep /\ x = b.client
    BY <2>2, <2>3 DEF Awaited
  <2>4. CASE ~(keep /\ x = b.client)
    <3>1. owner'[x] = owner[x]
      BY <2>1, <2>4 DEF Typed, TypeOK
    <3>2. Retired(x)
      BY <2>1, <3>1 DEF Retired, Owned
    <3> QED
      BY <1>0, <1>2, <2>1, <2>2, <3>2
  <2> QED
    BY <2>3, <2>4
<1>7. ASSUME NEW k \in Constructors, FinishConstruction(k)
      PROVE  Awaited(x)'
  <2>1. /\ \A j \in Constructors \ {k} : building'[j] = building[j]
        /\ scheduled' = scheduled \cup ({building[k].client} \ {NoClient})
        /\ UNCHANGED <<records, dropped>>
    BY <1>7 DEF FinishConstruction, Typed, TypeOK
  <2>2. Awaited(x)
    BY <1>0, <2>1 DEF Retired, Owned, records
  <2> QED
    BY <2>1, <2>2, RegistryAssumption DEF Awaited
<1>8. ASSUME NEW k \in Constructors, building[k].phase \in {"idle", "building"}, scheduled' = scheduled,
             UNCHANGED <<records, dropped>>, \A j \in Constructors \ {k} : building'[j] = building[j]
      PROVE  Awaited(x)'
  BY <1>0, <1>2, <1>8 DEF Retired, Owned, records
<1>9. ASSUME NEW k \in Constructors, Constructs(k)
      PROVE  Awaited(x)'
  <2>1. ASSUME NEW r \in Refs, NEW own, NEW replace, BeginConstruction(k, r, own, replace)
        PROVE  Awaited(x)'
    BY <1>8, <2>1 DEF BeginConstruction, Active, Typed, TypeOK
  <2>2. ASSUME (\E c \in Clients : FactoryCreates(k, c)) \/ FactoryFails(k)
        PROVE  Awaited(x)'
    BY <1>8, <2>2 DEF FactoryCreates, FactoryFails, Advance, history, Typed, TypeOK
  <2> QED
    BY <1>5, <1>6, <1>7, <1>9, <2>1, <2>2 DEF Constructs
<1>10. ASSUME UNCHANGED <<owner, refs, leases, close, building, scheduled, dropped>>
       PROVE  Awaited(x)'
  BY <1>0, <1>1, <1>10 DEF Retired, Owned
<1>11. ASSUME NEW u \in Users, Acquire(u)
       PROVE  Awaited(x)'
  <2> DEFINE c == using[u].client
  <2>1. c \in Clients
    BY <1>11 DEF Acquire, Typed, Formed
  <2>2. leases' = [leases EXCEPT ![c] = @ + 1] /\ leases[c] \in Nat
        /\ UNCHANGED <<owner, refs, close, building, scheduled, dropped>>
    BY <1>11, <2>1 DEF Acquire, history, Typed, TypeOK
  <2>3. x # c /\ leases'[x] = leases[x]
    BY <2>1, <2>2 DEF Retired, Typed, TypeOK
  <2> QED
    BY <1>0, <1>1, <2>2, <2>3 DEF Retired, Owned
<1>12. ASSUME NEW u \in Users, Release(u) \/ ReleaseCancelled(u)
       PROVE  Awaited(x)'
  <2> DEFINE c == using[u].client
  <2>1. c \in Clients
    BY <1>12 DEF Release, ReleaseCancelled, Typed, Formed
  <2>2. /\ leases' = [leases EXCEPT ![c] = @ - 1]
        /\ UNCHANGED <<owner, refs, close, building>>
        /\ scheduled \subseteq scheduled' /\ dropped \subseteq dropped'
        /\ LeftByRelease(c) \subseteq scheduled' \cup dropped'
    <3>1. CASE Release(u)
      BY <3>1 DEF Release, history
    <3>2. CASE ReleaseCancelled(u)
      BY <3>2 DEF ReleaseCancelled
    <3> QED
      BY <1>12, <3>1, <3>2
  <2>3. CASE x = c
    <3>1. leases'[c] = leases[c] - 1
      BY <2>1, <2>2 DEF Typed, TypeOK
    <3>2. c \in LeftByRelease(c)
      BY <2>2, <2>3, <3>1 DEF Retired, Owned, LeftByRelease, Eligible
    <3> QED
      BY <2>2, <2>3, <3>2 DEF Awaited
  <2>4. CASE x # c
    <3>1. leases'[x] = leases[x]
      BY <2>2, <2>4 DEF Typed, TypeOK
    <3> QED
      BY <1>0, <1>1, <2>2, <3>1 DEF Retired, Owned
  <2> QED
    BY <2>3, <2>4
<1>13. ASSUME NEW u \in Users, Uses(u)
       PROVE  Awaited(x)'
  BY <1>10, <1>11, <1>12, <1>13 DEF Uses, Resolve, Refused, records, history
<1>14. ASSUME NEW c \in Clients, RetiredCleanup(c)
       PROVE  Awaited(x)'
  <2>1. /\ scheduled' = scheduled \ {c} /\ building' = building
        /\ IF Revalidated(c) THEN close' = [close EXCEPT ![c] = "started"] ELSE close' = close
        /\ UNCHANGED <<owner, refs, leases, dropped>>
    BY <1>14 DEF RetiredCleanup, StartClose
  <2>2. x # c
    BY <2>1 DEF Revalidated, Eligible, Retired, Owned, Typed, TypeOK
  <2>3. close'[x] = close[x]
    BY <2>1, <2>2 DEF Typed, TypeOK
  <2>4. Awaited(x)
    BY <1>0, <2>1, <2>3 DEF Retired, Owned
  <2> QED
    BY <2>1, <2>2, <2>4 DEF Awaited
<1>15. ASSUME NEW c \in Clients, CloseSucceeds(c) \/ CloseFails(c) \/ ShutdownPrepare(c)
       PROVE  Awaited(x)'
  <2>1. /\ UNCHANGED <<owner, refs, leases, building, scheduled, dropped>>
        /\ \E result \in {"started", "closed", "failed"} :
             close' = close \/ close' = [close EXCEPT ![c] = result]
    BY <1>15 DEF CloseSucceeds, CloseFails, CloseEnds, ShutdownPrepare, StartClose, history
  <2>2. close'[x] = close[x]
    BY <2>1 DEF Retired, Typed, TypeOK
  <2> QED
    BY <1>0, <1>1, <2>1, <2>2 DEF Retired, Owned
<1>16. CASE Closes
  BY <1>10, <1>15, <1>16 DEF Closes, Aclose, DeadlineExpires, CaptureShutdown, ShutdownJoin,
                             ShutdownReport, records, history
<1>17. CASE UNCHANGED vars
  BY <1>10, <1>17 DEF vars, records, history
<1>18. CASE Registers
  BY <1>3, <1>4, <1>18 DEF Registers, Owners
<1> QED
  BY <1>9, <1>13, <1>14, <1>15, <1>16, <1>17, <1>18 DEF Next, Cleans

-----------------------------------------------------------------------------
LEMMA RegistryInvInit ==
  Init => RegistryInv
<1> SUFFICES ASSUME Init
             PROVE  RegistryInv
  OBVIOUS
<1>1. Typed
  BY TypedInit
<1>2. ClaimedOnce /\ BoundAreOpen
  BY DEF Init, ClaimedOnce, BoundAreOpen
<1>3. Mirrored
  BY RegistryAssumption DEF Init, Mirrored
<1>4. Judged
  BY DEF Init, Judged
<1>5. Dated
  BY DEF Init, Dated, Active, Idle
<1>6. RetiredClientAwaitsCleanup
  BY DEF Init, RetiredClientAwaitsCleanup, Retired, Owned
<1> QED
  BY <1>1, <1>2, <1>3, <1>4, <1>5, <1>6 DEF RegistryInv

LEMMA RegistryInvStep ==
  RegistryInv /\ [Next]_vars => RegistryInv'
BY TypedStep, ClaimedOnceStep, MirroredStep, BoundAreOpenStep, JudgedStep, DatedStep, ForgottenStep
   DEF RegistryInv

LEMMA RegistryInvariant == Spec => []RegistryInv
BY RegistryInvInit, RegistryInvStep, PTL DEF Spec

\* The retired cleanup, the shutdown pass and the calls agree on who closes a
\* client: one of them, once, never the caller's, and never under a call that
\* was accepted (acquire, _prepare_cleanup).
THEOREM ClosedOnceAndUnused == Spec => []ClosesAreSafe
<1>1. RegistryInv => ClosesAreSafe
  <2> SUFFICES ASSUME RegistryInv, NEW c \in Clients
               PROVE  /\ leases[c] > 0 => close[c] = "open"
                      /\ starts[c] <= (IF Owned(c) THEN 1 ELSE 0)
    BY DEF ClosesAreSafe, NeverClosedInUse, ClosedOnceByOwner
  <2>1. /\ close[c] = "open" => starts[c] = 0
        /\ close[c] # "open" => starts[c] = 1 /\ Owned(c) /\ leases[c] = 0
    BY DEF RegistryInv, ClaimedOnce
  <2> QED
    BY <2>1
<1> QED
  BY <1>1, RegistryInvariant, PTL

\* Until shutdown a published client is not being closed, and it alone knows
\* the reference it is published for (resolve, _publish, _detach).
THEOREM ResolvedIsUsable == Spec => []PublishedClientUsable
<1>1. RegistryInv => PublishedClientUsable
  <2> SUFFICES ASSUME RegistryInv, Open, NEW r \in Refs, binding[r] # NoClient
               PROVE  /\ close[binding[r]] = "open"
                      /\ \A c \in Clients : r \in refs[c] <=> binding[r] = c
    BY DEF PublishedClientUsable
  <2>1. binding[r] \in Clients
    BY DEF RegistryInv, Typed, TypeOK
  <2>2. \A c \in Clients : r \in refs[c] <=> binding[r] = c
    BY DEF RegistryInv, Mirrored
  <2>3. close[binding[r]] = "open"
    BY <2>1, <2>2 DEF RegistryInv, BoundAreOpen
  <2> QED
    BY <2>2, <2>3
<1> QED
  BY <1>1, RegistryInvariant, PTL

\* A shutdown report without failures means that every runtime-owned client of
\* the capture is closed and in nobody's use (_shutdown_report).
THEOREM ReportIsTrue == Spec => []SuccessMeansClosed
<1>1. RegistryInv => SuccessMeansClosed
  <2> SUFFICES ASSUME RegistryInv, Reported, NEW c \in Clients, outcome[c] # "none", Owned(c)
               PROVE  close[c] = "closed" /\ leases[c] = 0
    BY DEF SuccessMeansClosed
  <2>1. outcome[c] \notin {"none", "pending", "waiting", "failed"}
    BY DEF RegistryInv, Judged, Reported, ReportedFailures
  <2>2. outcome[c] # "skipped"
    BY DEF RegistryInv, Judged, Owned
  <2>3. outcome[c] = "closed"
    BY <2>1, <2>2 DEF RegistryInv, Typed, TypeOK
  <2> QED
    BY <2>3 DEF RegistryInv, Judged, ClaimedOnce
<1> QED
  BY <1>1, RegistryInvariant, PTL

\* A construction never replaces or resurrects a binding that changed while
\* its factory ran: the generation it captured is older (_publish).
THEOREM OvertakenNeverPublishes == Spec => NoOvertakenPublication
<1>1. RegistryInv => \A k \in Constructors : Publish(k) => k \notin overtaken
  <2> SUFFICES ASSUME RegistryInv, NEW k \in Constructors, Publish(k), k \in overtaken
               PROVE  FALSE
    OBVIOUS
  <2>1. Active(k) /\ generation[building[k].ref] = building[k].expected
    BY DEF Publish, Active, Current
  <2>2. building[k].expected < generation[building[k].ref] /\ building[k].expected \in Nat
    BY <2>1 DEF RegistryInv, Dated, Typed, TypeOK
  <2> QED
    BY <2>1, <2>2
<1> QED
  BY <1>1, RegistryInvariant, PTL DEF NoOvertakenPublication

\* A runtime-owned client nothing uses any more has a cleanup coming, unless
\* the call that asked for it was cancelled before that cleanup began
\* (_eligible_retired_record, release_lease, _finish_construction).
THEOREM NothingRetiredIsForgotten == Spec => []RetiredClientAwaitsCleanup
<1>1. RegistryInv => RetiredClientAwaitsCleanup
  BY DEF RegistryInv
<1> QED
  BY <1>1, RegistryInvariant, PTL

-----------------------------------------------------------------------------
(***************************************************************************)
(* Model calls.  What a call has sent and been answered decides how it may   *)
(* go on.                                                                   *)
(***************************************************************************)
\* The errors of the adapters and of complete_with_retries, and its answers.
Classes ==
  {"unavailable", "timeout", "malformed", "oversized", "unsupported", "cancelled",
   "authentication", "rate_limit", "not_found", "interrupted", "none", "structured", "tool_call"}
Errors == [class : Classes, retryable : BOOLEAN, accepted : BOOLEAN, attempted : BOOLEAN]
\* How far a call is.
Progress ==
  /\ phase \in [Runs -> {"idle", "ready", "waiting", "done"}]
  /\ attempt \in [Runs -> Nat] /\ answer \in [Runs -> Errors]
  /\ sent \in [Runs -> BOOLEAN] /\ responded \in [Runs -> BOOLEAN]
  /\ deployment.users \subseteq Runs
\* The first try of a call follows nothing that was sent.
FirstTryIsFresh == \A r \in Runs : phase[r] = "ready" /\ attempt[r] = 0 => ~sent[r]
CompletionInv == Progress /\ FirstTryIsFresh /\ RetriesStopInTime /\ ClosedMeansPoolClosed

\* A step that touches the call of no other run, and what it makes of its own.
Alone(f, g, r) == g = [f EXCEPT ![r] = g[r]]
Moves(r) == Alone(phase, phase', r) /\ Alone(attempt, attempt', r) /\ Alone(answer, answer', r)
Marks(r) == Alone(sent, sent', r) /\ Alone(responded, responded', r)
CallStands(r) ==
  /\ phase'[r] \in {"idle", "ready", "waiting", "done"} /\ attempt'[r] \in Nat
  /\ answer'[r] \in Errors /\ sent'[r] \in BOOLEAN /\ responded'[r] \in BOOLEAN
  /\ phase'[r] = "ready" /\ attempt'[r] = 0 => ~sent'[r]
  /\ responded'[r] => phase'[r] \notin {"ready", "waiting"}
  /\ phase'[r] = "done" /\ ~answer'[r].attempted => ~sent'[r]

\* A step of one call that leaves it standing keeps the invariant.
LEMMA CallKeeps ==
  ASSUME CompletionInv, NEW r \in Runs, Moves(r), Marks(r), CallStands(r),
         UNCHANGED <<deployment, closed, pool>>
  PROVE  CompletionInv'
<1>1. Progress
  BY DEF CompletionInv
<1>2. Progress'
  BY <1>1 DEF Progress, CallStands, Moves, Marks, Alone
<1>3. \A q \in Runs \ {r} : /\ phase'[q] = phase[q] /\ attempt'[q] = attempt[q]
                            /\ answer'[q] = answer[q] /\ sent'[q] = sent[q]
                            /\ responded'[q] = responded[q]
  BY <1>1 DEF Progress, Moves, Marks, Alone
<1>4. FirstTryIsFresh'
  BY <1>3 DEF CompletionInv, FirstTryIsFresh, CallStands
<1>5. AnsweredMeansOver' /\ NotAttemptedMeansNotSent'
  BY <1>3 DEF CompletionInv, RetriesStopInTime, AnsweredMeansOver, NotAttemptedMeansNotSent, CallStands
<1>6. ClosedMeansPoolClosed'
  BY DEF CompletionInv, ClosedMeansPoolClosed
<1> QED
  BY <1>2, <1>4, <1>5, <1>6 DEF CompletionInv, RetriesStopInTime

LEMMA SameMarks ==
  ASSUME Progress, NEW r \in Runs, UNCHANGED <<sent, responded>>
  PROVE  Marks(r) /\ sent'[r] = sent[r] /\ responded'[r] = responded[r]
BY DEF Progress, Marks, Alone

\* The errors there are.
LEMMA ErrorsAre ==
  /\ Cancellation \in Errors /\ Unsupported \in Errors /\ Oversized \in Errors
  /\ NoAnswer \in Errors /\ Failures \subseteq Errors
  /\ \A b \in BOOLEAN : Timeout(b) \in Errors /\ Unavailable(b) \in Errors /\ Malformed(b) \in Errors
  /\ \A class \in {"structured", "tool_call"} : Result(class) \in Errors
  /\ Err("interrupted", FALSE, FALSE, TRUE) \in Errors
<1> USE DEF Errors, Classes, Err
<1>1. \A b \in BOOLEAN : Timeout(b) \in Errors /\ Unavailable(b) \in Errors /\ Malformed(b) \in Errors
  BY DEF Timeout, Unavailable, Malformed
<1>2. Cancellation \in Errors /\ Unsupported \in Errors /\ Oversized \in Errors /\ NoAnswer \in Errors
  BY DEF Cancellation, Unsupported, Oversized, NoAnswer
<1>3. /\ \A class \in {"structured", "tool_call"} : Result(class) \in Errors
      /\ Err("interrupted", FALSE, FALSE, TRUE) \in Errors
  BY DEF Result
<1>4. Authentication \in Errors /\ ModelNotFound \in Errors /\ RateLimit \in Errors
  BY DEF Authentication, ModelNotFound, RateLimit
<1>5. Timeout(TRUE) \in Errors /\ Unavailable(TRUE) \in Errors
  BY <1>1
<1> HIDE DEF Errors, Classes, Err
<1>6. \A status, hints : Mapped(status, hints) \in Errors
  BY <1>4, <1>5 DEF Mapped
<1>7. Failures \subseteq Errors
  BY <1>6 DEF Failures
<1> QED
  BY <1>1, <1>2, <1>3, <1>7

\* What they say of their call.
LEMMA ErrorsSay ==
  /\ \A b \in BOOLEAN : Timeout(b).attempted <=> b
  /\ \A b \in BOOLEAN : ~Malformed(b).retryable
  /\ ~Oversized.retryable
  /\ \A class \in {"structured", "tool_call"} : Result(class).attempted
  /\ Err("interrupted", FALSE, FALSE, TRUE).attempted
BY DEF Timeout, Malformed, Oversized, Result, Err

\* A call ends, or goes on with another try.
LEMMA EndsIs ==
  ASSUME Progress, NEW r \in Runs, NEW answered \in Errors, Ends(r, answered)
  PROVE  /\ phase'[r] = "done" /\ attempt'[r] = 0 /\ answer'[r] = answered /\ Moves(r)
BY DEF Ends, Progress, Moves, Alone

LEMMA RaisesIs ==
  ASSUME Progress, NEW r \in Runs, NEW err \in Errors, Raises(r, err)
  PROVE  /\ Moves(r) /\ answer'[r] \in Errors
         /\ \/ phase'[r] = "ready" /\ attempt'[r] \in Nat /\ attempt'[r] # 0 /\ err.retryable
            \/ phase'[r] = "done" /\ attempt'[r] = 0 /\ answer'[r].attempted
<1>1. Marked(err) \in Errors /\ Marked(err).attempted = TRUE
  BY DEF Marked, Errors
<1>2. CASE MayRetry(r, err)
  <2>1. /\ phase' = [phase EXCEPT ![r] = "ready"]
        /\ attempt' = [attempt EXCEPT ![r] = attempt[r] + 1] /\ answer' = answer
    BY <1>2 DEF Raises
  <2>2. err.retryable
    BY <1>2 DEF MayRetry
  <2> QED
    BY <2>1, <2>2 DEF Progress, Moves, Alone
<1>3. CASE ~MayRetry(r, err)
  <2>1. Ends(r, Marked(err))
    BY <1>3 DEF Raises
  <2> QED
    BY <1>1, <2>1, EndsIs
<1> QED
  BY <1>2, <1>3

\* How a call may stand: before another try, unanswered, or over.
LEMMA StandsSo ==
  ASSUME NEW r \in Runs, answer'[r] \in Errors, sent'[r] \in BOOLEAN, responded'[r] \in BOOLEAN,
         \/ phase'[r] = "ready" /\ attempt'[r] \in Nat /\ attempt'[r] # 0 /\ ~responded'[r]
         \/ phase'[r] = "done" /\ attempt'[r] = 0 /\ (answer'[r].attempted \/ ~sent'[r])
  PROVE  CallStands(r)
<1>1. phase'[r] \in {"idle", "ready", "waiting", "done"} /\ attempt'[r] \in Nat
  OBVIOUS
<1>2. answer'[r] \in Errors /\ sent'[r] \in BOOLEAN /\ responded'[r] \in BOOLEAN
  OBVIOUS
<1>3. phase'[r] = "ready" /\ attempt'[r] = 0 => ~sent'[r]
  OBVIOUS
<1>4. responded'[r] => phase'[r] \notin {"ready", "waiting"}
  OBVIOUS
<1>5. phase'[r] = "done" /\ ~answer'[r].attempted => ~sent'[r]
  OBVIOUS
<1> QED
  BY <1>1, <1>2, <1>3, <1>4, <1>5 DEF CallStands

-----------------------------------------------------------------------------
\* An error in an exchange of a call that has sent something and is not answered.
LEMMA InterruptedKeeps ==
  ASSUME CompletionInv, NEW r \in Runs, phase[r] = "waiting", NEW err \in Errors,
         Raises(r, err), UNCHANGED <<deployment, closed, pool, sent, responded>>
  PROVE  CompletionInv'
<1>1. Progress /\ ~responded[r] /\ sent[r] \in BOOLEAN /\ responded[r] \in BOOLEAN
  BY DEF CompletionInv, RetriesStopInTime, AnsweredMeansOver, Progress
<1>2. Moves(r) /\ Marks(r) /\ sent'[r] = sent[r] /\ responded'[r] = responded[r]
  BY <1>1, RaisesIs, SameMarks
<1>3. CallStands(r)
  <2>1. /\ answer'[r] \in Errors
        /\ \/ phase'[r] = "ready" /\ attempt'[r] \in Nat /\ attempt'[r] # 0
           \/ phase'[r] = "done" /\ attempt'[r] = 0 /\ answer'[r].attempted
    BY <1>1, RaisesIs
  <2>2. sent'[r] \in BOOLEAN /\ responded'[r] \in BOOLEAN /\ ~responded'[r]
    BY <1>1, <1>2
  <2> QED
    BY <2>1, <2>2, StandsSo
<1> QED
  BY <1>2, <1>3, CallKeeps

LEMMA StartKeeps ==
  ASSUME CompletionInv, NEW r \in Runs, Start(r)
  PROVE  CompletionInv'
<1>1. Progress
  BY DEF CompletionInv
<1>2. /\ sent' = [sent EXCEPT ![r] = FALSE] /\ responded' = [responded EXCEPT ![r] = FALSE]
      /\ UNCHANGED <<deployment, closed, pool>>
      /\ \/ Ends(r, Cancellation)
         \/ /\ phase' = [phase EXCEPT ![r] = "ready"] /\ answer' = [answer EXCEPT ![r] = NoAnswer]
            /\ attempt' = attempt
  BY DEF Start, closeVars
<1>3. Marks(r) /\ sent'[r] = FALSE /\ responded'[r] = FALSE
  BY <1>1, <1>2 DEF Progress, Marks, Alone
<1>4. Moves(r) /\ phase'[r] \in {"ready", "done"} /\ attempt'[r] \in Nat /\ answer'[r] \in Errors
  <2>1. CASE Ends(r, Cancellation)
    BY <1>1, <2>1, EndsIs, ErrorsAre
  <2>2. CASE /\ phase' = [phase EXCEPT ![r] = "ready"] /\ answer' = [answer EXCEPT ![r] = NoAnswer]
             /\ attempt' = attempt
    BY <1>1, <2>2, ErrorsAre DEF Progress, Moves, Alone
  <2> QED
    BY <1>2, <2>1, <2>2
<1>5. CallStands(r)
  BY <1>3, <1>4 DEF CallStands
<1> QED
  BY <1>2, <1>3, <1>4, <1>5, CallKeeps

\* A call that is ready to try fails before it sends anything.
LEMMA ReadyKeeps ==
  ASSUME CompletionInv, NEW r \in Runs, phase[r] = "ready", NEW err \in Errors,
         UNCHANGED <<deployment, closed, pool, sent, responded>>,
         \/ Raises(r, err)
         \/ Ends(r, err) /\ (err.attempted \/ attempt[r] = 0)
  PROVE  CompletionInv'
<1>1. Progress /\ ~responded[r] /\ sent[r] \in BOOLEAN /\ responded[r] \in BOOLEAN /\ (attempt[r] = 0 => ~sent[r])
  BY DEF CompletionInv, RetriesStopInTime, AnsweredMeansOver, FirstTryIsFresh, Progress
<1>2. Marks(r) /\ sent'[r] = sent[r] /\ responded'[r] = responded[r]
  BY <1>1, SameMarks
<1>3. sent'[r] \in BOOLEAN /\ responded'[r] \in BOOLEAN /\ ~responded'[r]
  BY <1>1, <1>2
<1>4. Moves(r) /\ CallStands(r)
  <2>1. CASE Raises(r, err)
    <3>1. /\ Moves(r) /\ answer'[r] \in Errors
          /\ \/ phase'[r] = "ready" /\ attempt'[r] \in Nat /\ attempt'[r] # 0
             \/ phase'[r] = "done" /\ attempt'[r] = 0 /\ answer'[r].attempted
      BY <1>1, <2>1, RaisesIs
    <3> QED
      BY <1>3, <3>1, StandsSo
  <2>2. CASE Ends(r, err) /\ (err.attempted \/ attempt[r] = 0)
    <3>1. Moves(r) /\ phase'[r] = "done" /\ attempt'[r] = 0 /\ answer'[r] = err
      BY <1>1, <2>2, EndsIs
    <3>2. answer'[r].attempted \/ ~sent'[r]
      BY <1>1, <1>2, <2>2, <3>1
    <3> QED
      BY <1>3, <3>1, <3>2, StandsSo
  <2> QED
    BY <2>1, <2>2
<1> QED
  BY <1>2, <1>4, CallKeeps

LEMMA ServesKeeps ==
  ASSUME CompletionInv, NEW r \in Runs, Refuses(r) \/ FindsDeadline(r) \/ Try(r)
  PROVE  CompletionInv'
<1>1. Progress
  BY DEF CompletionInv
<1>2. CASE Refuses(r)
  <2>1. /\ phase[r] = "ready" /\ attempt[r] = 0 /\ Ends(r, Unsupported)
        /\ UNCHANGED <<deployment, closed, pool, sent, responded>>
    BY <1>2 DEF Refuses, closeVars
  <2> QED
    BY <2>1, ReadyKeeps, ErrorsAre
<1>3. CASE FindsDeadline(r)
  <2>1. /\ phase[r] = "ready" /\ UNCHANGED <<deployment, closed, pool, sent, responded>>
        /\ \/ Ends(r, Timeout(attempt[r] > 0)) \/ Ends(r, Timeout(TRUE))
           \/ Raises(r, Timeout(FALSE))
    BY <1>3 DEF FindsDeadline, closeVars
  <2>2. attempt[r] > 0 \/ attempt[r] = 0
    BY <1>1 DEF Progress
  <2>3. CASE Ends(r, Timeout(attempt[r] > 0))
    <3> DEFINE tried == attempt[r] > 0
               err == Timeout(tried)
    <3>1. tried \/ attempt[r] = 0
      BY <2>2
    <3>2. tried \in BOOLEAN
      OBVIOUS
    <3> HIDE DEF tried
    <3>3. err \in Errors /\ (err.attempted \/ attempt[r] = 0)
      BY <3>1, <3>2, ErrorsAre, ErrorsSay
    <3>4. Ends(r, err)
      BY <2>3 DEF tried
    <3> HIDE DEF err
    <3> QED
      BY <2>1, <3>3, <3>4, ReadyKeeps
  <2>4. CASE Ends(r, Timeout(TRUE)) \/ Raises(r, Timeout(FALSE))
    <3>1. Timeout(TRUE) \in Errors /\ Timeout(FALSE) \in Errors /\ Timeout(TRUE).attempted
      BY ErrorsAre, ErrorsSay
    <3> QED
      BY <2>1, <2>4, <3>1, ReadyKeeps
  <2> QED
    BY <2>1, <2>3, <2>4
<1>4. CASE Try(r)
  <2>1. /\ phase[r] = "ready" /\ UNCHANGED <<deployment, closed, pool, responded>>
        /\ \/ /\ sent' = sent
              /\ \/ Raises(r, Unavailable(FALSE)) \/ Raises(r, Malformed(FALSE))
                 \/ Raises(r, Unavailable(TRUE))
           \/ /\ phase' = [phase EXCEPT ![r] = "waiting"] /\ sent' = [sent EXCEPT ![r] = TRUE]
              /\ UNCHANGED <<attempt, answer>>
    BY <1>4 DEF Try, closeVars
  <2>2. CASE sent' = sent /\ (\/ Raises(r, Unavailable(FALSE)) \/ Raises(r, Malformed(FALSE))
                              \/ Raises(r, Unavailable(TRUE)))
    BY <2>1, <2>2, ReadyKeeps, ErrorsAre
  <2>3. CASE /\ phase' = [phase EXCEPT ![r] = "waiting"] /\ sent' = [sent EXCEPT ![r] = TRUE]
             /\ UNCHANGED <<attempt, answer>>
    <3>1. ~responded[r]
      BY <2>1 DEF CompletionInv, RetriesStopInTime, AnsweredMeansOver
    <3>2. Moves(r) /\ Marks(r)
      BY <1>1, <2>1, <2>3 DEF Progress, Moves, Marks, Alone
    <3>3. CallStands(r)
      BY <1>1, <2>1, <2>3, <3>1 DEF CallStands, Progress
    <3> QED
      BY <2>1, <3>2, <3>3, CallKeeps
  <2> QED
    BY <2>1, <2>2, <2>3
<1> QED
  BY <1>2, <1>3, <1>4

\* The exchange fails or times out.
LEMMA ExchangeFailsKeep ==
  ASSUME CompletionInv, NEW r \in Runs, Fails(r) \/ OuterTimer(r) \/ InnerTimer(r)
  PROVE  CompletionInv'
<1>1. /\ phase[r] = "waiting" /\ UNCHANGED <<deployment, closed, pool, sent, responded>>
      /\ \/ \E err \in Failures : Raises(r, err)
         \/ Raises(r, Cancellation) \/ Raises(r, Timeout(TRUE))
  BY DEF Fails, OuterTimer, InnerTimer, closeVars
<1>2. \E err \in Errors : Raises(r, err)
  BY <1>1, ErrorsAre
<1> QED
  BY <1>1, <1>2, InterruptedKeeps

LEMMA RespondsKeeps ==
  ASSUME CompletionInv, NEW r \in Runs, Responds(r)
  PROVE  CompletionInv'
<1>1. Progress
  BY DEF CompletionInv
<1>2. /\ phase[r] = "waiting" /\ responded' = [responded EXCEPT ![r] = TRUE]
      /\ UNCHANGED <<deployment, closed, pool, sent>>
      /\ \/ Ends(r, Result("structured")) \/ Ends(r, Result("tool_call"))
         \/ Raises(r, Malformed(TRUE)) \/ Raises(r, Malformed(FALSE)) \/ Raises(r, Oversized)
  BY DEF Responds, ToolCalled, closeVars
<1>3. /\ Moves(r) /\ phase'[r] = "done" /\ attempt'[r] = 0
      /\ answer'[r] \in Errors /\ answer'[r].attempted
  <2>1. CASE Ends(r, Result("structured")) \/ Ends(r, Result("tool_call"))
    <3>1. \E class \in {"structured", "tool_call"} : Ends(r, Result(class))
      BY <2>1
    <3> QED
      BY <1>1, <3>1, EndsIs, ErrorsAre, ErrorsSay
  <2>2. CASE Raises(r, Malformed(TRUE)) \/ Raises(r, Malformed(FALSE)) \/ Raises(r, Oversized)
    <3>1. \E err \in Errors : Raises(r, err) /\ ~err.retryable
      BY <2>2, ErrorsAre, ErrorsSay
    <3> QED
      BY <1>1, <3>1, RaisesIs
  <2> QED
    BY <1>2, <2>1, <2>2
<1>4. Marks(r) /\ sent'[r] = sent[r] /\ responded'[r] = TRUE
  BY <1>1, <1>2 DEF Progress, Marks, Alone
<1>5. sent'[r] \in BOOLEAN /\ responded'[r] \in BOOLEAN
  BY <1>1, <1>4 DEF Progress
<1>6. CallStands(r)
  BY <1>3, <1>5, StandsSo
<1> QED
  BY <1>2, <1>3, <1>4, <1>6, CallKeeps

LEMMA CancelKeeps ==
  ASSUME CompletionInv, NEW r \in Runs, Cancel(r)
  PROVE  CompletionInv'
<1>1. UNCHANGED <<deployment, closed, pool, sent, responded>>
  BY DEF Cancel, closeVars
<1>2. CASE phase[r] = "waiting"
  <2>1. Raises(r, Cancellation)
    BY <1>2 DEF Cancel
  <2> QED
    BY <1>1, <1>2, <2>1, InterruptedKeeps, ErrorsAre
<1>3. CASE phase[r] = "ready"
  <2> DEFINE err == Err("interrupted", FALSE, FALSE, TRUE)
  <2>1. Ends(r, err) /\ err \in Errors /\ err.attempted
    BY <1>3, ErrorsAre, ErrorsSay DEF Cancel
  <2> HIDE DEF err
  <2> QED
    BY <1>1, <1>3, <2>1, ReadyKeeps
<1>4. CASE phase[r] \notin {"waiting", "ready"}
  <2>1. UNCHANGED <<phase, attempt, answer>>
    BY <1>4 DEF Cancel
  <2> QED
    BY <1>1, <2>1 DEF CompletionInv, Progress, FirstTryIsFresh, RetriesStopInTime,
       AnsweredMeansOver, NotAttemptedMeansNotSent, ClosedMeansPoolClosed
<1> QED
  BY <1>2, <1>3, <1>4

LEMMA NextTurnKeeps ==
  ASSUME CompletionInv, NEW r \in Runs, NextTurn(r)
  PROVE  CompletionInv'
<1>1. /\ phase' = [phase EXCEPT ![r] = "idle"]
      /\ UNCHANGED <<deployment, closed, pool, sent, responded, attempt, answer>>
  BY DEF NextTurn, closeVars
<1> QED
  BY <1>1 DEF CompletionInv, Progress, FirstTryIsFresh, RetriesStopInTime,
     AnsweredMeansOver, NotAttemptedMeansNotSent, ClosedMeansPoolClosed

\* A deadline passes, or the adapter is being closed: no call is touched, and
\* the close task of a pool that is closed stays ended.
LEMMA CloseKeeps ==
  ASSUME CompletionInv,
         \/ \E r \in Runs : DeadlinePasses(r)
         \/ \E c \in Closers : Close(c) \/ Enters(c) \/ CloserEnds(c) \/ Abandons(c)
         \/ PoolCloses
  PROVE  CompletionInv'
<1>1. UNCHANGED <<deployment, phase, attempt, answer, sent, responded>>
  BY DEF DeadlinePasses, Close, Enters, CloserEnds, Abandons, PoolCloses, callVars
<1>2. ClosedMeansPoolClosed'
  <2>1. CASE UNCHANGED <<closed, pool>>
    BY <2>1 DEF CompletionInv, ClosedMeansPoolClosed
  <2>2. CASE \E c \in Closers : Enters(c)
    BY <2>2 DEF CompletionInv, ClosedMeansPoolClosed, Enters
  <2>3. CASE \E c \in Closers : CloserEnds(c)
    BY <2>3 DEF CompletionInv, ClosedMeansPoolClosed, CloserEnds
  <2>4. CASE PoolCloses
    BY <2>4 DEF CompletionInv, ClosedMeansPoolClosed, PoolCloses
  <2> QED
    BY <2>1, <2>2, <2>3, <2>4 DEF DeadlinePasses, Close, Abandons, closeVars
<1> QED
  BY <1>1, <1>2 DEF CompletionInv, Progress, FirstTryIsFresh, RetriesStopInTime,
     AnsweredMeansOver, NotAttemptedMeansNotSent

LEMMA CompletionInvStep == CompletionInv /\ [CompletionNext]_completionVars => CompletionInv'
<1> SUFFICES ASSUME CompletionInv, [CompletionNext]_completionVars
             PROVE  CompletionInv'
  OBVIOUS
<1>1. CASE UNCHANGED completionVars
  BY <1>1 DEF completionVars, callVars, closeVars, CompletionInv, Progress, FirstTryIsFresh,
     RetriesStopInTime, AnsweredMeansOver, NotAttemptedMeansNotSent, ClosedMeansPoolClosed
<1>2. CASE CompletionNext
  <2>1. deployment.users \subseteq Runs
    BY DEF CompletionInv, Progress
  <2>2. CASE \E r \in deployment.users :
               \/ Start(r) \/ Refuses(r) \/ FindsDeadline(r) \/ Try(r)
               \/ Fails(r) \/ Responds(r) \/ OuterTimer(r) \/ InnerTimer(r)
               \/ Cancel(r) \/ DeadlinePasses(r) \/ NextTurn(r)
    BY <2>1, <2>2, StartKeeps, ServesKeeps, ExchangeFailsKeep, RespondsKeeps, CancelKeeps,
       NextTurnKeeps, CloseKeeps
  <2>3. CASE \/ \E c \in Closers : Close(c) \/ Enters(c) \/ CloserEnds(c) \/ Abandons(c)
             \/ PoolCloses
    BY <2>3, CloseKeeps
  <2> QED
    BY <1>2, <2>2, <2>3 DEF CompletionNext
<1> QED
  BY <1>1, <1>2

LEMMA CompletionInvInit == CompletionInit => CompletionInv
<1> SUFFICES ASSUME CompletionInit
             PROVE  CompletionInv
  OBVIOUS
<1>1. deployment.users \subseteq Runs
  BY CompletionAssumption DEF CompletionInit, AdapterInit
<1> QED
  BY <1>1, ErrorsAre DEF CompletionInit, AdapterInit, CompletionInv, Progress, FirstTryIsFresh,
     RetriesStopInTime, AnsweredMeansOver, NotAttemptedMeansNotSent, ClosedMeansPoolClosed

LEMMA CompletionInvariant == CompletionSpec => []CompletionInv
<1> QED
  BY CompletionInvInit, CompletionInvStep, PTL DEF CompletionSpec

(***************************************************************************)
(* However failures, timers, deadlines, cancellations and the adapter's     *)
(* shutdown fall, a call that was answered, usably or not, tries no more,    *)
(* and an error that says "not attempted" belongs to a call that put nothing *)
(* on the wire (core/provider/execution.py, complete_with_retries).         *)
(***************************************************************************)
THEOREM RetriesRepeatNothing == CompletionSpec => []RetriesStopInTime
<1>1. CompletionInv => RetriesStopInTime
  BY DEF CompletionInv
<1> QED
  BY <1>1, CompletionInvariant, PTL

(***************************************************************************)
(* An adapter reports itself closed only once its HTTP client has closed,    *)
(* however its closers queue, give up and come back (_lifecycle.py).        *)
(***************************************************************************)
THEOREM ClosedIsClosed == CompletionSpec => []ClosedMeansPoolClosed
<1>1. CompletionInv => ClosedMeansPoolClosed
  BY DEF CompletionInv
<1> QED
  BY <1>1, CompletionInvariant, PTL

-----------------------------------------------------------------------------
(***************************************************************************)
(* The tool call cache.  Every call it holds has been asked for, an ID that   *)
(* was made tells which call it is, and the ghost of the cache is what its   *)
(* order says.                                                              *)
(***************************************************************************)
Calls == [id : Given, body : Bodies] \cup
         {[id |-> Synthesized(request, body), body |-> body] :
            request \in ServerNames \cup {NoName}, body \in Bodies}

\* From its oldest to its newest: no call twice, and behind each what was used
\* since; a call that is forgotten had as many others used as the cache holds.
Ordered(calls, gone) ==
  /\ \A i, j \in DOMAIN calls : calls[i].id = calls[j].id => i = j
  /\ \A i \in DOMAIN calls :
       /\ calls[i].id \in DOMAIN gone
       /\ \A id : id \in gone[calls[i].id] <=> \E j \in i + 1 .. Len(calls) : id = calls[j].id
Forgotten(calls, gone) ==
  \A id \in DOMAIN gone : /\ IsFiniteSet(gone[id])
                          /\ ~Cached(calls, id) => Limit <= Cardinality(gone[id])
Recent(calls, gone) == calls \in Seq(Calls) /\ Ordered(calls, gone) /\ Forgotten(calls, gone)

\* What is left without a call: the others, as they were.
LEMMA WithoutIs ==
  ASSUME NEW calls \in Seq(Calls), NEW p \in 1 .. Len(calls)
  PROVE  LET rest == RemoveAt(calls, p) IN
         /\ rest \in Seq(Calls) /\ Len(rest) = Len(calls) - 1
         /\ \A i \in 1 .. Len(rest) : rest[i] = IF i < p THEN calls[i] ELSE calls[i + 1]
<1> DEFINE before == SubSeq(calls, 1, p - 1)
           behind == SubSeq(calls, p + 1, Len(calls))
           rest == RemoveAt(calls, p)
<1>1. /\ before \in Seq(Calls) /\ Len(before) = p - 1
      /\ \A i \in 1 .. p - 1 : before[i] = calls[i]
  BY SubSeqProperties
<1>2. /\ behind \in Seq(Calls) /\ Len(behind) = Len(calls) - p
      /\ \A i \in 1 .. Len(calls) - p : behind[i] = calls[p + i]
  BY SubSeqProperties
<1>3. rest = before \o behind
  BY DEF RemoveAt
<1> HIDE DEF before, behind, rest
<1>4. /\ rest \in Seq(Calls) /\ Len(rest) = Len(before) + Len(behind)
      /\ \A i \in 1 .. Len(rest) : rest[i] = IF i <= Len(before) THEN before[i] ELSE behind[i - Len(before)]
  <2>1. /\ before \o behind \in Seq(Calls) /\ Len(before \o behind) = Len(before) + Len(behind)
        /\ \A i \in 1 .. Len(before) + Len(behind) : (before \o behind)[i] =
             IF i <= Len(before) THEN before[i] ELSE behind[i - Len(before)]
    BY <1>1, <1>2, ConcatProperties
  <2> QED
    BY <1>3, <2>1
<1>5. Len(rest) = Len(calls) - 1
  BY <1>1, <1>2, <1>4
<1>6. ASSUME NEW i \in 1 .. Len(rest) PROVE rest[i] = IF i < p THEN calls[i] ELSE calls[i + 1]
  <2>1. CASE i < p
    BY <1>1, <1>4, <1>5, <2>1
  <2>2. CASE ~(i < p)
    <3>1. i - Len(before) \in 1 .. Len(calls) - p /\ p + (i - Len(before)) = i + 1 /\ ~(i <= Len(before))
      BY <1>1, <1>5, <2>2
    <3> QED
      BY <1>2, <1>4, <2>2, <3>1
  <2> QED
    BY <2>1, <2>2
<1> QED
  BY <1>4, <1>5, <1>6 DEF rest

LEMMA PositionIs ==
  ASSUME NEW calls \in Seq(Calls), NEW id, Cached(calls, id)
  PROVE  /\ Position(calls, id) \in 1 .. Len(calls) /\ calls[Position(calls, id)].id = id
         /\ Entry(calls, id) \in Calls /\ Entry(calls, id).id = id
         /\ \E i \in 1 .. Len(calls) : Entry(calls, id) = calls[i]
<1>1. \E i \in DOMAIN calls : calls[i].id = id
  BY DEF Cached
<1>2. Position(calls, id) \in DOMAIN calls /\ calls[Position(calls, id)].id = id
  BY <1>1 DEF Position
<1> QED
  BY <1>2 DEF Entry

\* Without(calls, id) is calls but for that one, in the same order.
LEMMA WithoutKeeps ==
  ASSUME NEW calls, NEW gone, NEW id, calls \in Seq(Calls), Ordered(calls, gone)
  PROVE  LET rest == Without(calls, id) IN
         /\ rest \in Seq(Calls)
         /\ Len(rest) = IF Cached(calls, id) THEN Len(calls) - 1 ELSE Len(calls)
         /\ \A i, j \in DOMAIN rest : rest[i].id = rest[j].id => i = j
         /\ \A i \in DOMAIN rest :
              /\ rest[i].id # id /\ rest[i].id \in DOMAIN gone
              /\ \E j \in DOMAIN calls : rest[i] = calls[j]
              /\ \A x : x # id => (x \in gone[rest[i].id] <=> \E j \in i + 1 .. Len(rest) : x = rest[j].id)
         /\ \A x : x # id => (Cached(rest, x) <=> Cached(calls, x))
<1> DEFINE rest == Without(calls, id)
<1>1. CASE ~Cached(calls, id)
  <2>1. rest = calls
    BY <1>1 DEF Without
  <2> QED
    BY <1>1, <2>1 DEF Ordered, Cached
<1>2. CASE Cached(calls, id)
  <2>1. PICK p \in 1 .. Len(calls) : p = Position(calls, id) /\ calls[p].id = id
    BY <1>2, PositionIs
  <2>2. rest = RemoveAt(calls, p)
    BY <1>2, <2>1 DEF Without
  <2> HIDE DEF rest
  <2>3. /\ rest \in Seq(Calls) /\ Len(rest) = Len(calls) - 1
        /\ \A i \in 1 .. Len(rest) : rest[i] = IF i < p THEN calls[i] ELSE calls[i + 1]
    BY <2>2, WithoutIs
  <2> DEFINE old(i) == IF i < p THEN i ELSE i + 1
  <2>4. DOMAIN rest = 1 .. Len(rest) /\ DOMAIN calls = 1 .. Len(calls) /\ Len(calls) \in Nat
    BY <2>3
  <2>5. ASSUME NEW i \in DOMAIN rest
        PROVE  old(i) \in DOMAIN calls /\ old(i) # p /\ rest[i] = calls[old(i)] /\ rest[i].id # id
    <3>1. old(i) \in DOMAIN calls /\ old(i) # p /\ rest[i] = calls[old(i)]
      BY <2>3, <2>4
    <3> QED
      BY <2>1, <2>4, <3>1 DEF Ordered
  <2>6. ASSUME NEW k \in DOMAIN calls, k # p
        PROVE  \E i \in DOMAIN rest : old(i) = k /\ rest[i] = calls[k]
    <3>1. CASE k < p
      BY <2>3, <2>4, <3>1
    <3>2. CASE k > p
      <4>1. k - 1 \in DOMAIN rest /\ old(k - 1) = k
        BY <2>3, <2>4, <3>2
      <4> QED
        BY <4>1, <2>5
    <3> QED
      BY <2>4, <2>6, <3>1, <3>2
  <2>7. ASSUME NEW i \in DOMAIN rest, NEW j \in DOMAIN rest PROVE (old(i) < old(j)) <=> (i < j)
    BY <2>4
  <2>8. \A i, j \in DOMAIN rest : rest[i].id = rest[j].id => i = j
    BY <2>4, <2>5, <2>7 DEF Ordered
  <2>9. ASSUME NEW i \in DOMAIN rest, NEW x, x # id
        PROVE  x \in gone[rest[i].id] <=> \E j \in i + 1 .. Len(rest) : x = rest[j].id
    <3>1. x \in gone[rest[i].id] <=> \E k \in old(i) + 1 .. Len(calls) : x = calls[k].id
      BY <2>5 DEF Ordered
    <3>2. ASSUME NEW k \in old(i) + 1 .. Len(calls), x = calls[k].id
          PROVE  \E j \in i + 1 .. Len(rest) : x = rest[j].id
      <4>1. k \in DOMAIN calls /\ k # p /\ old(i) < k
        BY <2>1, <2>4, <2>5, <2>9, <3>2
      <4>2. PICK j \in DOMAIN rest : old(j) = k /\ rest[j] = calls[k]
        BY <2>6, <4>1
      <4>3. i < j
        BY <2>7, <4>1, <4>2
      <4> QED
        BY <2>4, <3>2, <4>2, <4>3
    <3>3. ASSUME NEW j \in i + 1 .. Len(rest), x = rest[j].id
          PROVE  \E k \in old(i) + 1 .. Len(calls) : x = calls[k].id
      <4>1. j \in DOMAIN rest /\ i < j
        BY <2>4
      <4>2. old(i) < old(j) /\ old(j) \in DOMAIN calls /\ rest[j] = calls[old(j)]
        BY <2>5, <2>7, <4>1
      <4>3. old(j) \in old(i) + 1 .. Len(calls)
        BY <2>4, <2>5, <4>2
      <4> QED
        BY <3>3, <4>2, <4>3
    <3> QED
      BY <3>1, <3>2, <3>3
  <2>10. ASSUME NEW x, x # id PROVE Cached(rest, x) <=> Cached(calls, x)
    BY <2>1, <2>5, <2>6, <2>10 DEF Cached
  <2>11. \A i \in DOMAIN rest : rest[i].id \in DOMAIN gone
    BY <2>5 DEF Ordered
  <2> HIDE DEF old
  <2> QED
    BY <1>2, <2>3, <2>5, <2>8, <2>9, <2>10, <2>11 DEF rest
<1> QED
  BY <1>1, <1>2

\* As many were used since a call as there are behind it.
LEMMA BehindAre ==
  ASSUME NEW calls \in Seq(Calls), NEW gone, Ordered(calls, gone), NEW i \in DOMAIN calls
  PROVE  IsFiniteSet(gone[calls[i].id]) /\ Cardinality(gone[calls[i].id]) = Len(calls) - i
<1> DEFINE behind == i + 1 .. Len(calls)
           ids == gone[calls[i].id]
           f == [j \in behind |-> calls[j].id]
<1>1. i \in 1 .. Len(calls) /\ Len(calls) \in Nat
  OBVIOUS
<1>2. \A id : id \in ids <=> \E j \in behind : id = calls[j].id
  BY DEF Ordered
<1> HIDE DEF ids
<1>3. f \in Surjection(behind, ids)
  BY <1>2 DEF Surjection
<1>4. f \in Injection(behind, ids)
  BY <1>1, <1>2 DEF Injection, IsInjective, Ordered
<1>5. IsFiniteSet(behind) /\ Cardinality(behind) = Len(calls) - i
  <2>1. i + 1 \in Int /\ Len(calls) \in Int
    BY <1>1
  <2>2. IsFiniteSet(behind) /\ Cardinality(behind) = IF i + 1 > Len(calls) THEN 0 ELSE Len(calls) - (i + 1) + 1
    BY <2>1, FS_Interval
  <2> QED
    BY <1>1, <2>2
<1> QED
  BY <1>3, <1>4, <1>5, FS_Surjection DEF ids

\* A call becomes the most recently used.
LEMMA UsedIsNewest ==
  ASSUME NEW calls, NEW gone, NEW call \in Calls, Recent(calls, gone)
  PROVE  LET all == Append(Without(calls, call.id), call) IN
         /\ Recent(all, Used(gone, call.id))
         /\ Len(all) = IF Cached(calls, call.id) THEN Len(calls) ELSE Len(calls) + 1
         /\ Range(all) \subseteq Range(calls) \cup {call}
<1> DEFINE rest == Without(calls, call.id)
           all == Append(rest, call)
           used == Used(gone, call.id)
<1>1. calls \in Seq(Calls) /\ Ordered(calls, gone) /\ Forgotten(calls, gone)
  BY DEF Recent
<1>2. /\ rest \in Seq(Calls)
      /\ Len(rest) = IF Cached(calls, call.id) THEN Len(calls) - 1 ELSE Len(calls)
      /\ \A i, j \in DOMAIN rest : rest[i].id = rest[j].id => i = j
      /\ \A i \in DOMAIN rest :
           /\ rest[i].id # call.id /\ rest[i].id \in DOMAIN gone
           /\ \E j \in DOMAIN calls : rest[i] = calls[j]
           /\ \A x : x # call.id => (x \in gone[rest[i].id] <=> \E j \in i + 1 .. Len(rest) : x = rest[j].id)
      /\ \A x : x # call.id => (Cached(rest, x) <=> Cached(calls, x))
  BY <1>1, WithoutKeeps
<1> HIDE DEF rest
<1>3. /\ all \in Seq(Calls) /\ Len(all) = Len(rest) + 1 /\ all[Len(all)] = call
      /\ \A i \in 1 .. Len(rest) : all[i] = rest[i]
  BY <1>2, AppendProperties
<1>4. /\ DOMAIN rest = 1 .. Len(rest) /\ DOMAIN all = 1 .. Len(all)
      /\ Len(rest) \in Nat /\ Len(calls) \in Nat
  BY <1>1, <1>2, <1>3
<1> HIDE DEF all
<1>5. /\ DOMAIN used = DOMAIN gone \cup {call.id} /\ used[call.id] = {}
      /\ \A id \in DOMAIN gone : id # call.id => used[id] = gone[id] \cup {call.id}
  BY DEF Used
<1> HIDE DEF used
<1>6. ASSUME NEW i \in DOMAIN all, NEW j \in DOMAIN all, all[i].id = all[j].id
      PROVE  i = j
  <2>1. \A n \in DOMAIN all : n = Len(all) \/ (n \in DOMAIN rest /\ all[n] = rest[n])
    BY <1>3, <1>4
  <2>2. \A n \in DOMAIN rest : rest[n].id # all[Len(all)].id
    BY <1>2, <1>3
  <2>3. \A m, n \in DOMAIN rest : rest[m].id = rest[n].id => m = n
    BY <1>2
  <2> QED
    BY <1>6, <2>1, <2>2, <2>3, Zenon
<1>7. ASSUME NEW i \in DOMAIN all
      PROVE  /\ all[i].id \in DOMAIN used
             /\ \A id : id \in used[all[i].id] <=> \E j \in i + 1 .. Len(all) : id = all[j].id
  <2>1. CASE i = Len(all)
    BY <1>3, <1>4, <1>5, <2>1
  <2>2. CASE i # Len(all)
    <3>1. i \in DOMAIN rest /\ all[i] = rest[i]
      BY <1>3, <1>4, <2>2
    <3>2. used[all[i].id] = gone[rest[i].id] \cup {call.id} /\ all[i].id \in DOMAIN used
      BY <1>2, <1>5, <3>1
    <3>3. ASSUME NEW id, id # call.id
          PROVE  id \in gone[rest[i].id] <=> \E j \in i + 1 .. Len(all) : id = all[j].id
      <4>1. id \in gone[rest[i].id] <=> \E j \in i + 1 .. Len(rest) : id = rest[j].id
        BY <1>2, <3>1, <3>3
      <4>2. (\E j \in i + 1 .. Len(all) : id = all[j].id) <=> (\E j \in i + 1 .. Len(rest) : id = rest[j].id)
        BY <1>3, <1>4, <3>1, <3>3
      <4> QED
        BY <4>1, <4>2
    <3>4. \E j \in i + 1 .. Len(all) : call.id = all[j].id
      BY <1>3, <1>4, <2>2
    <3> QED
      BY <3>2, <3>3, <3>4
  <2> QED
    BY <2>1, <2>2
<1>8. Ordered(all, used)
  BY <1>6, <1>7 DEF Ordered
<1>9. ASSUME NEW id \in DOMAIN used
      PROVE  IsFiniteSet(used[id]) /\ (~Cached(all, id) => Limit <= Cardinality(used[id]))
  <2>1. CASE id = call.id
    <3>1. Cached(all, id)
      BY <1>3, <1>4, <2>1 DEF Cached
    <3> QED
      BY <1>5, <2>1, <3>1, FS_EmptySet
  <2>2. CASE id # call.id
    <3>1. id \in DOMAIN gone /\ used[id] = gone[id] \cup {call.id}
      BY <1>5, <2>2
    <3>2. IsFiniteSet(gone[id]) /\ (~Cached(calls, id) => Limit <= Cardinality(gone[id]))
      BY <1>1, <3>1 DEF Forgotten
    <3>3. IsFiniteSet(used[id]) /\ Cardinality(gone[id]) <= Cardinality(used[id])
          /\ Cardinality(gone[id]) \in Nat /\ Cardinality(used[id]) \in Nat
      <4>1. IsFiniteSet(used[id])
        BY <3>1, <3>2, FS_AddElement
      <4>2. gone[id] \in SUBSET used[id]
        BY <3>1
      <4> QED
        BY <3>2, <4>1, <4>2, FS_Subset, FS_CardinalityType
    <3>4. ~Cached(all, id) => ~Cached(calls, id)
      <4>1. Cached(rest, id) => Cached(all, id)
        BY <1>3, <1>4 DEF Cached
      <4> QED
        BY <1>2, <2>2, <4>1
    <3> QED
      BY <3>2, <3>3, <3>4, CompletionAssumption
  <2> QED
    BY <2>1, <2>2
<1>10. Forgotten(all, used)
  BY <1>9 DEF Forgotten
<1>11. Range(all) \subseteq Range(calls) \cup {call}
  BY <1>2, <1>3, <1>4 DEF Range
<1> QED
  BY <1>2, <1>3, <1>4, <1>8, <1>10, <1>11 DEF Recent, all, rest, used

\* The oldest is dropped once there is one more than the cache holds.
LEMMA OldestIsDropped ==
  ASSUME NEW calls, NEW gone, Recent(calls, gone), Len(calls) = Limit + 1
  PROVE  LET kept == SubSeq(calls, 2, Len(calls)) IN
         /\ Recent(kept, gone) /\ Len(kept) = Limit
         /\ Range(kept) \subseteq Range(calls)
<1> DEFINE kept == SubSeq(calls, 2, Len(calls))
<1>1. /\ calls \in Seq(Calls) /\ Ordered(calls, gone) /\ Forgotten(calls, gone)
      /\ Limit \in Nat /\ Limit # 0 /\ DOMAIN calls = 1 .. Limit + 1
  BY CompletionAssumption DEF Recent
<1>2. /\ kept \in Seq(Calls) /\ Len(kept) = Limit
      /\ \A i \in 1 .. Limit : kept[i] = calls[i + 1]
  <2>1. \A i \in 2 .. Len(calls) : calls[i] \in Calls
    BY <1>1
  <2>2. /\ kept \in Seq(Calls) /\ Len(kept) = IF 2 <= Len(calls) THEN Len(calls) - 2 + 1 ELSE 0
        /\ \A i \in 1 .. Len(calls) - 2 + 1 : kept[i] = calls[2 + i - 1]
    BY <1>1, <2>1, SubSeqProperties
  <2>3. ASSUME NEW i \in 1 .. Limit PROVE 2 + i - 1 = i + 1 /\ i \in 1 .. Len(calls) - 2 + 1
    BY <1>1
  <2>4. ASSUME NEW i \in 1 .. Limit PROVE kept[i] = calls[i + 1]
    BY <2>2, <2>3
  <2> QED
    BY <1>1, <2>2, <2>4
<1> HIDE DEF kept
<1>3. DOMAIN kept = 1 .. Limit
  BY <1>2
<1>4. \A i, j \in DOMAIN kept : kept[i].id = kept[j].id => i = j
  <2> SUFFICES ASSUME NEW i \in DOMAIN kept, NEW j \in DOMAIN kept, kept[i].id = kept[j].id
               PROVE  i = j
    OBVIOUS
  <2>1. i + 1 \in DOMAIN calls /\ j + 1 \in DOMAIN calls /\ calls[i + 1].id = calls[j + 1].id
    BY <1>1, <1>2, <1>3
  <2>2. i + 1 = j + 1
    BY <1>1, <2>1 DEF Ordered
  <2> QED
    BY <1>3, <2>2
<1>5. ASSUME NEW i \in DOMAIN kept
      PROVE  /\ kept[i].id \in DOMAIN gone
             /\ \A id : id \in gone[kept[i].id] <=> \E j \in i + 1 .. Len(kept) : id = kept[j].id
  <2>1. i + 1 \in DOMAIN calls /\ kept[i] = calls[i + 1] /\ i \in 1 .. Limit
    BY <1>1, <1>2, <1>3
  <2>2. /\ kept[i].id \in DOMAIN gone
        /\ \A id : id \in gone[kept[i].id] <=> \E k \in (i + 1) + 1 .. Len(calls) : id = calls[k].id
    BY <1>1, <2>1 DEF Ordered
  <2>3. ASSUME NEW id, NEW k \in (i + 1) + 1 .. Len(calls), id = calls[k].id
        PROVE  \E j \in i + 1 .. Len(kept) : id = kept[j].id
    <3>1. k - 1 \in i + 1 .. Len(kept) /\ k - 1 \in 1 .. Limit /\ (k - 1) + 1 = k
      BY <1>1, <1>2, <2>1
    <3>2. kept[k - 1] = calls[k]
      BY <1>2, <3>1
    <3> QED
      BY <2>3, <3>1, <3>2
  <2>4. ASSUME NEW id, NEW j \in i + 1 .. Len(kept), id = kept[j].id
        PROVE  \E k \in (i + 1) + 1 .. Len(calls) : id = calls[k].id
    <3>1. j + 1 \in (i + 1) + 1 .. Len(calls) /\ j \in 1 .. Limit
      BY <1>1, <1>2, <2>1
    <3> QED
      BY <1>2, <2>4, <3>1
  <2> QED
    BY <2>2, <2>3, <2>4
<1>6. ASSUME NEW id \in DOMAIN gone, ~Cached(kept, id) PROVE Limit <= Cardinality(gone[id])
  <2>1. CASE ~Cached(calls, id)
    BY <1>1, <2>1 DEF Forgotten
  <2>2. CASE Cached(calls, id)
    <3>1. PICK i \in DOMAIN calls : calls[i].id = id
      BY <2>2 DEF Cached
    <3>2. i = 1
      <4>1. SUFFICES ASSUME i # 1 PROVE FALSE
        OBVIOUS
      <4>2. i - 1 \in DOMAIN kept /\ (i - 1) + 1 = i /\ i - 1 \in 1 .. Limit
        BY <1>1, <1>3, <4>1
      <4>3. kept[i - 1].id = id
        BY <1>2, <3>1, <4>2
      <4> QED
        BY <1>6, <4>2, <4>3 DEF Cached
    <3>3. Cardinality(gone[calls[1].id]) = Len(calls) - 1
      BY <1>1, <3>2, BehindAre
    <3> QED
      BY <1>1, <3>1, <3>2, <3>3
  <2> QED
    BY <2>1, <2>2
<1>7. Forgotten(kept, gone)
  BY <1>1, <1>6 DEF Forgotten
<1>8. Range(kept) \subseteq Range(calls)
  <2>1. \A i \in DOMAIN kept : i + 1 \in DOMAIN calls /\ kept[i] = calls[i + 1]
    BY <1>1, <1>2, <1>3
  <2> QED
    BY <2>1 DEF Range
<1>9. Ordered(kept, gone)
  BY <1>4, <1>5 DEF Ordered
<1> QED
  BY <1>2, <1>7, <1>8, <1>9 DEF Recent, kept

\* lookup and remember keep the order, the bound and what else is held.
LEMMA RefreshedKeeps ==
  ASSUME NEW calls, NEW gone, NEW id, Recent(calls, gone), Len(calls) <= Limit, Cached(calls, id)
  PROVE  /\ Recent(Refreshed(calls, id), Used(gone, id)) /\ Len(Refreshed(calls, id)) <= Limit
         /\ Range(Refreshed(calls, id)) \subseteq Range(calls)
<1> DEFINE call == Entry(calls, id)
           all == Append(Without(calls, call.id), call)
<1>1. calls \in Seq(Calls)
  BY DEF Recent
<1>2. call \in Calls /\ call.id = id /\ \E j \in DOMAIN calls : call = calls[j]
  BY <1>1, PositionIs
<1>3. Refreshed(calls, id) = all
  BY <1>2 DEF Refreshed
<1> HIDE DEF call, all
<1>4. /\ Recent(all, Used(gone, call.id)) /\ Len(all) = Len(calls)
      /\ Range(all) \subseteq Range(calls) \cup {call}
  BY <1>2, UsedIsNewest DEF all
<1>5. Range(all) \subseteq Range(calls)
  BY <1>2, <1>4 DEF Range
<1> QED
  BY <1>2, <1>3, <1>4, <1>5

LEMMA RememberedKeeps ==
  ASSUME NEW calls, NEW gone, NEW call \in Calls, Recent(calls, gone), Len(calls) <= Limit
  PROVE  LET kept == Remembered(calls, call) IN
         /\ Recent(kept, Used(gone, call.id)) /\ Len(kept) <= Limit
         /\ Range(kept) \subseteq Range(calls) \cup {call}
<1> DEFINE all == Append(Without(calls, call.id), call)
           kept == Remembered(calls, call)
<1>1. /\ Recent(all, Used(gone, call.id))
      /\ Len(all) = IF Cached(calls, call.id) THEN Len(calls) ELSE Len(calls) + 1
      /\ Range(all) \subseteq Range(calls) \cup {call}
  BY UsedIsNewest
<1>2. kept = SubSeq(all, IF Len(all) > Limit THEN Len(all) - Limit + 1 ELSE 1, Len(all))
  BY DEF Remembered
<1> HIDE DEF all, kept
<1>3. /\ all \in Seq(Calls) /\ Len(all) \in Nat /\ Limit \in Nat /\ Len(calls) \in Nat /\ Len(all) <= Limit + 1
  BY <1>1, CompletionAssumption DEF Recent
<1>4. CASE Len(all) > Limit
  <2>1. Len(all) = Limit + 1 /\ Len(all) - Limit + 1 = 2
    BY <1>3, <1>4
  <2>2. kept = SubSeq(all, 2, Len(all))
    BY <1>2, <1>4, <2>1
  <2>3. /\ Recent(kept, Used(gone, call.id)) /\ Len(kept) = Limit
        /\ Range(kept) \subseteq Range(all)
    BY <1>1, <2>1, <2>2, OldestIsDropped
  <2>4. Len(kept) <= Limit
    BY <1>3, <2>3
  <2> QED
    BY <1>1, <2>3, <2>4 DEF kept
<1>5. CASE ~(Len(all) > Limit)
  <2>1. kept = all
    BY <1>2, <1>3, <1>5, SubSeqFull
  <2> QED
    BY <1>1, <1>3, <1>5, <2>1 DEF kept
<1> QED
  BY <1>4, <1>5

-----------------------------------------------------------------------------
\* What holds of zero and of the next number after each is true of all.
LEMMA SetInduction ==
  ASSUME NEW S, 0 \in S, \A n \in Nat : n \in S => n + 1 \in S
  PROVE  Nat \subseteq S
<1> DEFINE R == OpToRel(<, Nat)
           T == Nat \ S
<1>1. IsWellFoundedOn(R, Nat)
  BY NatLessThanWellFounded, Zenon
<1>2. \A m, n \in Nat : m < n => <<m, n>> \in R
  BY DEF OpToRel
<1> HIDE DEF R
<1>3. SUFFICES ASSUME T # {} PROVE FALSE
  OBVIOUS
<1>4. PICK n \in T : \A m \in T : <<m, n>> \notin R
  BY <1>1, <1>3, WFMin
<1>5. n \in Nat /\ n # 0 /\ n - 1 \in Nat /\ n - 1 < n /\ (n - 1) + 1 = n
  BY <1>4
<1>6. n - 1 \notin T
  BY <1>2, <1>4, <1>5
<1> QED
  BY <1>4, <1>5, <1>6

\* f looks up the first m calls, one after the other.
Translates(f, calls, m) ==
  f = [n \in 0 .. m |-> IF n = 0 THEN Untranslated ELSE LookedUp(f[n - 1], calls[n])]

LEMMA TranslationExists ==
  ASSUME NEW calls
  PROVE  \A m \in Nat : \E f : Translates(f, calls, m)
<1> DEFINE S == {m \in Nat : \E f : Translates(f, calls, m)}
<1>1. 0 \in S
  <2> DEFINE f == [n \in 0 .. 0 |-> Untranslated]
  <2>1. f = [n \in 0 .. 0 |-> IF n = 0 THEN Untranslated ELSE LookedUp(f[n - 1], calls[n])]
    OBVIOUS
  <2>2. Translates(f, calls, 0)
    BY <2>1 DEF Translates
  <2> QED
    BY <2>2
<1>2. ASSUME NEW m \in Nat, m \in S PROVE m + 1 \in S
  <2>1. PICK f : Translates(f, calls, m)
    BY <1>2
  <2> DEFINE g == [n \in 0 .. m + 1 |-> IF n = m + 1 THEN LookedUp(f[m], calls[n]) ELSE f[n]]
             h == [n \in 0 .. m + 1 |-> IF n = 0 THEN Untranslated ELSE LookedUp(g[n - 1], calls[n])]
  <2>2. ASSUME NEW n \in 0 .. m + 1 PROVE g[n] = h[n]
    <3>1. CASE n = m + 1
      <4>1. g[n] = LookedUp(f[m], calls[n]) /\ n - 1 = m /\ n # 0 /\ m \in 0 .. m + 1 /\ m # m + 1
        BY <3>1
      <4>2. g[m] = f[m]
        BY <4>1
      <4> QED
        BY <4>1, <4>2
    <3>2. CASE n \in 0 .. m /\ n # 0
      <4>1. g[n] = f[n] /\ g[n - 1] = f[n - 1]
        BY <3>2
      <4>2. f[n] = LookedUp(f[n - 1], calls[n])
        BY <2>1, <3>2 DEF Translates
      <4> QED
        BY <3>2, <4>1, <4>2
    <3>3. CASE n = 0
      <4>1. g[n] = f[n]
        BY <3>3
      <4>2. f[n] = Untranslated
        BY <2>1, <3>3 DEF Translates
      <4> QED
        BY <3>3, <4>1, <4>2
    <3> QED
      BY <3>1, <3>2, <3>3
  <2>3. g = h
    BY <2>2
  <2>4. Translates(g, calls, m + 1)
    BY <2>3 DEF Translates
  <2> QED
    BY <2>4
<1> HIDE DEF S
<1>3. Nat \subseteq S
  BY <1>1, <1>2, SetInduction
<1> QED
  BY <1>3 DEF S

LEMMA TranslatedIs ==
  ASSUME NEW calls, Len(calls) \in Nat
  PROVE  \E f : Translates(f, calls, Len(calls)) /\ Translated(calls) = f[Len(calls)]
<1> DEFINE len == Len(calls)
           first == CHOOSE f : f = [n \in 0 .. len |->
                                     IF n = 0 THEN Untranslated ELSE LookedUp(f[n - 1], calls[n])]
<1>1. Translated(calls) = first[len]
  BY DEF Translated
<1>2. \E f : f = [n \in 0 .. len |-> IF n = 0 THEN Untranslated ELSE LookedUp(f[n - 1], calls[n])]
  BY TranslationExists DEF Translates
<1>3. first = [n \in 0 .. len |-> IF n = 0 THEN Untranslated ELSE LookedUp(first[n - 1], calls[n])]
  BY <1>2
<1> HIDE DEF first
<1> QED
  BY <1>1, <1>3 DEF Translates

-----------------------------------------------------------------------------
\* Only a server gives two calls one ID: a made one has its call in it.
LEMMA OneOrReused ==
  ASSUME NEW call \in Calls \cap Asked, NEW other \in Calls \cap Asked, call.id = other.id
  PROVE  call.body = other.body \/ Reused(call.id)
<1>1. CASE call.id \in Given
  BY <1>1 DEF Reused
<1>2. CASE call.id \notin Given
  <2>1. PICK request : call.id = <<"made", request, call.body>>
    BY <1>2 DEF Calls, Synthesized
  <2>2. PICK another : other.id = <<"made", another, other.body>>
    BY <1>2 DEF Calls, Synthesized
  <2>3. <<"made", request, call.body>> = <<"made", another, other.body>>
    BY <2>1, <2>2
  <2> QED
    BY <2>3
<1> QED
  BY <1>1, <1>2

\* Behind each of the first n results goes a call that was asked under its ID.
Found(asked, bodies, messages, n) ==
  /\ Len(bodies) = n
  /\ \A i \in 1 .. n : \E call \in asked : call.id = messages[i].id /\ call.body = bodies[i]

Conversations == results \in [Runs -> Seq(Calls)] /\ carried \in [Runs -> Seq(Bodies)]
CacheInv ==
  /\ Conversations
  /\ Recent(cache, since) /\ Len(cache) <= Limit
  /\ Range(cache) \subseteq Asked
  /\ \A r \in Runs : phase[r] = "waiting" => Found(Asked, carried[r], results[r], Len(results[r]))

\* A translation as far as it got.
Fine(request, messages, n) ==
  /\ request = [ok |-> request.ok, cache |-> request.cache, since |-> request.since, sent |-> request.sent]
  /\ Recent(request.cache, request.since) /\ Len(request.cache) <= Limit
  /\ Range(request.cache) \subseteq Range(cache)
  /\ request.sent \in Seq(Bodies)
  /\ request.ok => Found(Asked, request.sent, messages, n)

LEMMA LookedUpIsFine ==
  ASSUME CacheInv, NEW messages, NEW n \in Nat, NEW request, Fine(request, messages, n)
  PROVE  Fine(LookedUp(request, messages[n + 1]), messages, n + 1)
<1> DEFINE message == messages[n + 1]
           next == LookedUp(request, message)
<1>1. /\ request = [ok |-> request.ok, cache |-> request.cache, since |-> request.since, sent |-> request.sent]
      /\ Recent(request.cache, request.since) /\ Len(request.cache) <= Limit
      /\ Range(request.cache) \subseteq Range(cache)
      /\ request.sent \in Seq(Bodies)
      /\ request.ok => Found(Asked, request.sent, messages, n)
  BY DEF Fine
<1>2. Range(cache) \subseteq Asked
  BY DEF CacheInv
<1> HIDE DEF message
<1>3. CASE request.ok /\ Cached(request.cache, message.id)
  <2> DEFINE entry == Entry(request.cache, message.id)
             kept == Refreshed(request.cache, message.id)
             used == Used(request.since, message.id)
             sending == Append(request.sent, entry.body)
  <2>1. next = [ok |-> TRUE, cache |-> kept, since |-> used, sent |-> sending]
    BY <1>3 DEF LookedUp
  <2>2. /\ Recent(kept, used) /\ Len(kept) <= Limit
        /\ Range(kept) \subseteq Range(request.cache)
    BY <1>1, <1>3, RefreshedKeeps
  <2>3. entry \in Calls /\ entry.id = message.id /\ entry \in Range(request.cache)
    BY <1>1, <1>3, PositionIs DEF Recent, Range
  <2> HIDE DEF entry, kept, used
  <2>4. Range(kept) \subseteq Range(cache)
    BY <1>1, <2>2
  <2>5. entry \in Asked /\ entry.body \in Bodies
    BY <1>1, <1>2, <2>3 DEF Calls
  <2>6. Len(request.sent) = n
    BY <1>1, <1>3 DEF Found
  <2>7. /\ sending \in Seq(Bodies) /\ Len(sending) = n + 1
        /\ \A i \in 1 .. n : sending[i] = request.sent[i]
        /\ sending[n + 1] = entry.body
    BY <1>1, <2>5, <2>6, AppendProperties
  <2> HIDE DEF sending
  <2>8. ASSUME NEW i \in 1 .. n + 1
        PROVE  \E call \in Asked : call.id = messages[i].id /\ call.body = sending[i]
    <3>1. CASE i = n + 1
      BY <2>3, <2>5, <2>7, <3>1 DEF message
    <3>2. CASE i # n + 1
      <4>1. i \in 1 .. n
        BY <3>2
      <4> QED
        BY <1>1, <1>3, <2>7, <4>1 DEF Found
    <3> QED
      BY <3>1, <3>2
  <2>9. Found(Asked, sending, messages, n + 1)
    BY <2>7, <2>8 DEF Found
  <2> QED
    BY <2>1, <2>2, <2>4, <2>7, <2>9 DEF Fine, message
<1>4. CASE ~(request.ok /\ Cached(request.cache, message.id))
  <2>1. next = [request EXCEPT !.ok = FALSE]
    BY <1>4 DEF LookedUp
  <2>2. next = [ok |-> FALSE, cache |-> request.cache, since |-> request.since, sent |-> request.sent]
    BY <1>1, <2>1
  <2> QED
    BY <1>1, <2>2 DEF Fine, message
<1> QED
  BY <1>3, <1>4

LEMMA TranslatedIsFine ==
  ASSUME CacheInv, NEW r \in Runs
  PROVE  Fine(Translated(results[r]), results[r], Len(results[r]))
<1> DEFINE calls == results[r]
           len == Len(calls)
<1>1. calls \in Seq(Calls) /\ len \in Nat
  BY DEF CacheInv, Conversations
<1>2. PICK f : Translates(f, calls, len) /\ Translated(calls) = f[len]
  BY <1>1, TranslatedIs
<1> DEFINE S == {n \in Nat : n <= len => Fine(f[n], calls, n)}
<1>3. f[0] = Untranslated
  BY <1>1, <1>2 DEF Translates
<1>4. Fine(Untranslated, calls, 0)
  BY DEF Fine, Found, Untranslated, CacheInv
<1>5. 0 \in S
  BY <1>3, <1>4
<1>6. ASSUME NEW n \in Nat, n \in S PROVE n + 1 \in S
  <2> SUFFICES ASSUME n + 1 <= len PROVE Fine(f[n + 1], calls, n + 1)
    OBVIOUS
  <2>1. n <= len /\ (n + 1) - 1 = n /\ n + 1 \in 0 .. len /\ n + 1 # 0
    BY <1>1
  <2>2. Fine(f[n], calls, n)
    BY <1>6, <2>1
  <2>3. f[n + 1] = LookedUp(f[n], calls[n + 1])
    BY <1>2, <2>1 DEF Translates
  <2> QED
    BY <2>2, <2>3, LookedUpIsFine
<1> HIDE DEF S
<1>7. Nat \subseteq S
  BY <1>5, <1>6, SetInduction
<1> QED
  BY <1>1, <1>2, <1>7 DEF S

-----------------------------------------------------------------------------
\* How a step takes one run on: a request that waits has found its calls.
Proceeds(r) ==
  /\ Alone(phase, phase', r)
  /\ \E bodies \in Seq(Bodies) : carried' = [carried EXCEPT ![r] = bodies]
  /\ phase'[r] = "waiting" => Found(Asked, carried'[r], results[r], Len(results[r]))

\* The new calls of one run: none, or one that it is asked for and does not wait for.
Learns(r, new) ==
  \/ results' = results
  \/ new \in Calls /\ results' = [results EXCEPT ![r] = Append(@, new)] /\ phase'[r] # "waiting"

\* What was asked once stays asked.
LEMMA AskedGrows ==
  ASSUME Conversations, NEW r \in Runs, NEW new, Learns(r, new)
  PROVE  /\ results' \in [Runs -> Seq(Calls)]
         /\ \A q \in Runs \ {r} : results'[q] = results[q]
         /\ Asked \subseteq Asked'
         /\ results' # results => new \in Asked'
<1>1. CASE results' = results
  BY <1>1 DEF Conversations, Asked
<1>2. CASE new \in Calls /\ results' = [results EXCEPT ![r] = Append(@, new)]
  <2> DEFINE all == Append(results[r], new)
  <2>1. results \in [Runs -> Seq(Calls)] /\ results[r] \in Seq(Calls)
    BY DEF Conversations
  <2>2. /\ all \in Seq(Calls) /\ Len(all) = Len(results[r]) + 1 /\ all[Len(results[r]) + 1] = new
        /\ \A i \in 1 .. Len(results[r]) : all[i] = results[r][i]
    BY <1>2, <2>1, AppendProperties
  <2>3. DOMAIN all = 1 .. Len(all) /\ DOMAIN results[r] = 1 .. Len(results[r]) /\ Len(results[r]) \in Nat
    BY <2>1, <2>2
  <2>4. results'[r] = all
    BY <1>2, <2>1
  <2> HIDE DEF all
  <2>5. Range(results[r]) \subseteq Range(all) /\ new \in Range(all)
    <3>1. \A i \in DOMAIN results[r] : i \in DOMAIN all /\ all[i] = results[r][i]
      BY <2>2, <2>3
    <3>2. Len(results[r]) + 1 \in DOMAIN all
      BY <2>2, <2>3
    <3> QED
      BY <2>2, <3>1, <3>2 DEF Range
  <2>6. \A q \in Runs \ {r} : results'[q] = results[q]
    BY <1>2, <2>1
  <2>7. results' \in [Runs -> Seq(Calls)]
    BY <1>2, <2>1, <2>2 DEF all
  <2>8. \A q \in Runs : Range(results[q]) \subseteq Range(results'[q])
    BY <2>4, <2>5, <2>6
  <2>9. new \in Range(results'[r])
    BY <2>4, <2>5
  <2> QED
    BY <2>6, <2>7, <2>8, <2>9 DEF Asked
<1> QED
  BY <1>1, <1>2 DEF Learns

LEMMA FoundLater ==
  ASSUME NEW asked, NEW more, asked \subseteq more, NEW bodies, NEW messages, NEW n,
         Found(asked, bodies, messages, n)
  PROVE  Found(more, bodies, messages, n)
BY DEF Found

\* A run that goes on keeps the invariant: the cache holds what it held, or what
\* the run was asked for now.
LEMMA ProceedsKeeps ==
  ASSUME Progress, CacheInv, NEW r \in Runs, Proceeds(r), NEW new, Learns(r, new),
         Recent(cache', since'), Len(cache') <= Limit,
         \/ Range(cache') \subseteq Range(cache)
         \/ Range(cache') \subseteq Range(cache) \cup {new} /\ new \in Asked'
  PROVE  CacheInv'
<1>1. PICK bodies \in Seq(Bodies) : carried' = [carried EXCEPT ![r] = bodies]
  BY DEF Proceeds
<1>2. Conversations /\ Range(cache) \subseteq Asked
  BY DEF CacheInv
<1>3. /\ results' \in [Runs -> Seq(Calls)] /\ Asked \subseteq Asked'
      /\ \A q \in Runs \ {r} : results'[q] = results[q]
  BY <1>2, AskedGrows
<1>4. carried' \in [Runs -> Seq(Bodies)] /\ \A q \in Runs \ {r} : carried'[q] = carried[q]
  BY <1>1, <1>2 DEF Conversations
<1>5. Range(cache') \subseteq Asked'
  BY <1>2, <1>3
<1>6. ASSUME NEW q \in Runs, phase'[q] = "waiting"
      PROVE  Found(Asked', carried'[q], results'[q], Len(results'[q]))
  <2>1. CASE q = r
    <3>1. results' = results
      BY <1>6, <2>1 DEF Learns
    <3>2. Found(Asked, carried'[r], results[r], Len(results[r]))
      BY <1>6, <2>1 DEF Proceeds
    <3> QED
      BY <1>3, <2>1, <3>1, <3>2, FoundLater
  <2>2. CASE q # r
    <3>1. phase[q] = "waiting" /\ carried'[q] = carried[q] /\ results'[q] = results[q]
      BY <1>3, <1>4, <1>6, <2>2 DEF Proceeds, Alone, Progress
    <3>2. Found(Asked, carried[q], results[q], Len(results[q]))
      BY <3>1 DEF CacheInv
    <3> QED
      BY <1>3, <3>1, <3>2, FoundLater
  <2> QED
    BY <2>1, <2>2
<1> QED
  BY <1>3, <1>4, <1>5, <1>6 DEF CacheInv, Conversations

\* A run that does not end up waiting.
Settles(r) ==
  /\ \E p \in {"idle", "ready", "done"} : phase' = [phase EXCEPT ![r] = p]
  /\ carried' = carried \/ carried' = [carried EXCEPT ![r] = <<>>]

LEMMA EndsSettles ==
  ASSUME NEW r \in Runs, NEW answered, Ends(r, answered)
  PROVE  Settles(r)
BY DEF Ends, Settles

LEMMA RaisesSettles ==
  ASSUME NEW r \in Runs, NEW err, Raises(r, err)
  PROVE  Settles(r)
<1>1. CASE MayRetry(r, err)
  BY <1>1 DEF Raises, Settles
<1>2. CASE ~MayRetry(r, err)
  BY <1>2, EndsSettles DEF Raises
<1> QED
  BY <1>1, <1>2

LEMMA SettlesProceeds ==
  ASSUME Progress, Conversations, NEW r \in Runs, Settles(r)
  PROVE  Proceeds(r) /\ phase'[r] # "waiting"
<1>1. Alone(phase, phase', r) /\ phase'[r] \in {"idle", "ready", "done"}
  BY DEF Settles, Alone, Progress
<1>2. \E bodies \in Seq(Bodies) : carried' = [carried EXCEPT ![r] = bodies]
  <2>1. carried \in [Runs -> Seq(Bodies)]
    BY DEF Conversations
  <2>2. CASE carried' = carried
    <3>1. carried[r] \in Seq(Bodies) /\ carried' = [carried EXCEPT ![r] = carried[r]]
      BY <2>1, <2>2
    <3> QED
      BY <3>1
  <2>3. CASE carried' = [carried EXCEPT ![r] = <<>>]
    <3>1. <<>> \in Seq(Bodies)
      OBVIOUS
    <3> QED
      BY <2>3, <3>1
  <2> QED
    BY <2>2, <2>3 DEF Settles
<1> QED
  BY <1>1, <1>2 DEF Proceeds

\* The run that acts learns of no call and the cache stays as it is.
LEMMA SettlesKeeps ==
  ASSUME Progress, CacheInv, NEW r \in Runs, Settles(r), UNCHANGED <<results, cache, since>>
  PROVE  CacheInv'
<1>1. Proceeds(r)
  BY SettlesProceeds DEF CacheInv
<1>2. Recent(cache', since') /\ Len(cache') <= Limit /\ Range(cache') \subseteq Range(cache)
  BY DEF CacheInv
<1>3. Learns(r, {})
  BY DEF Learns
<1> QED
  BY <1>1, <1>2, <1>3, ProceedsKeeps

LEMMA OthersKeepCache ==
  ASSUME CacheInv, UNCHANGED <<phase, results, carried, cache, since>>
  PROVE  CacheInv'
BY DEF CacheInv, Conversations, Asked

LEMMA StartKeepsCache ==
  ASSUME Progress, CacheInv, NEW r \in Runs, Start(r)
  PROVE  CacheInv'
<1>1. UNCHANGED <<results, cache, since>>
  BY DEF Start, cacheVars
<1>2. Settles(r)
  <2>1. CASE Ends(r, Cancellation)
    BY <2>1, EndsSettles
  <2>2. CASE phase' = [phase EXCEPT ![r] = "ready"] /\ carried' = carried
    BY <2>2 DEF Settles
  <2> QED
    BY <2>1, <2>2 DEF Start
<1> QED
  BY <1>1, <1>2, SettlesKeeps

LEMMA InterruptedKeepsCache ==
  ASSUME Progress, CacheInv, NEW r \in Runs,
         Refuses(r) \/ Fails(r) \/ OuterTimer(r) \/ InnerTimer(r)
  PROVE  CacheInv'
<1>1. UNCHANGED <<results, cache, since>>
  BY DEF Refuses, Fails, OuterTimer, InnerTimer, cacheVars
<1>2. Settles(r)
  <2>1. Ends(r, Unsupported) \/ \E err : Raises(r, err)
    BY DEF Refuses, Fails, OuterTimer, InnerTimer
  <2> QED
    BY <2>1, EndsSettles, RaisesSettles
<1> QED
  BY <1>1, <1>2, SettlesKeeps

LEMMA CancelKeepsCache ==
  ASSUME Progress, CacheInv, NEW r \in Runs, Cancel(r)
  PROVE  CacheInv'
<1>1. UNCHANGED <<results, cache, since>>
  BY DEF Cancel, cacheVars
<1>2. CASE phase[r] \in {"ready", "waiting"}
  <2>1. \/ Raises(r, Cancellation)
        \/ Ends(r, Err("interrupted", FALSE, FALSE, TRUE))
    BY <1>2 DEF Cancel
  <2>2. Settles(r)
    BY <2>1, EndsSettles, RaisesSettles
  <2> QED
    BY <1>1, <1>2, <2>2, SettlesKeeps
<1>3. CASE phase[r] \notin {"ready", "waiting"}
  <2>1. UNCHANGED <<phase, carried>>
    BY <1>3 DEF Cancel
  <2> QED
    BY <1>1, <2>1, OthersKeepCache
<1> QED
  BY <1>2, <1>3

LEMMA NextTurnKeepsCache ==
  ASSUME Progress, CacheInv, NEW r \in Runs, NextTurn(r)
  PROVE  CacheInv'
<1>1. phase' = [phase EXCEPT ![r] = "idle"] /\ UNCHANGED <<results, carried, cache, since>>
  BY DEF NextTurn, cacheVars
<1>2. Settles(r)
  BY <1>1 DEF Settles
<1> QED
  BY <1>1, <1>2, SettlesKeeps

\* Building a request, and what comes of it.
LEMMA ServesKeepsCache ==
  ASSUME Progress, CacheInv, NEW r \in Runs, FindsDeadline(r) \/ Try(r)
  PROVE  CacheInv'
<1> DEFINE request == Translated(results[r])
<1>1. Learns(r, {})
  BY DEF FindsDeadline, Try, Learns
<1>2. Fine(request, results[r], Len(results[r]))
  BY TranslatedIsFine
<1>3. request.ok => /\ request.sent \in Seq(Bodies)
                    /\ Found(Asked, request.sent, results[r], Len(results[r]))
  BY <1>2 DEF Fine
<1>4. /\ \/ cache' = cache /\ since' = since
         \/ cache' = request.cache /\ since' = request.since
      /\ \/ \E answered : Ends(r, answered)
         \/ \E err : Raises(r, err)
         \/ /\ request.ok /\ phase' = [phase EXCEPT ![r] = "waiting"]
            /\ carried' = [carried EXCEPT ![r] = request.sent]
  <2>1. CASE FindsDeadline(r)
    <3>1. \/ Ends(r, Timeout(attempt[r] > 0)) /\ cache' = cache /\ since' = since
          \/ Ends(r, Timeout(TRUE)) /\ cache' = cache /\ since' = since
          \/ Raises(r, Timeout(FALSE)) /\ cache' = request.cache /\ since' = request.since
      BY <2>1, Zenon DEF FindsDeadline, cacheVars
    <3> QED
      BY <3>1, Zenon
  <2>2. CASE Try(r)
    <3>1. \/ Raises(r, Unavailable(FALSE)) /\ cache' = cache /\ since' = since
          \/ /\ cache' = request.cache /\ since' = request.since
             /\ \/ Raises(r, Malformed(FALSE)) \/ Raises(r, Unavailable(TRUE))
                \/ /\ request.ok /\ phase' = [phase EXCEPT ![r] = "waiting"]
                   /\ carried' = [carried EXCEPT ![r] = request.sent]
      BY <2>2 DEF Try, cacheVars
    <3> QED
      BY <3>1, Zenon
  <2> QED
    BY <2>1, <2>2
<1> HIDE DEF request
<1>5. Recent(cache', since') /\ Len(cache') <= Limit /\ Range(cache') \subseteq Range(cache)
  <2>1. Recent(cache, since) /\ Len(cache) <= Limit
    BY DEF CacheInv
  <2>2. Recent(request.cache, request.since) /\ Len(request.cache) <= Limit
        /\ Range(request.cache) \subseteq Range(cache)
    BY <1>2 DEF Fine
  <2> QED
    BY <1>4, <2>1, <2>2
<1>6. CASE (\E answered : Ends(r, answered)) \/ (\E err : Raises(r, err))
  <2>1. Settles(r)
    BY <1>6, EndsSettles, RaisesSettles
  <2>2. Proceeds(r)
    BY <2>1, SettlesProceeds DEF CacheInv
  <2> QED
    BY <1>1, <1>5, <2>2, ProceedsKeeps
<1>7. CASE request.ok /\ phase' = [phase EXCEPT ![r] = "waiting"]
                      /\ carried' = [carried EXCEPT ![r] = request.sent]
  <2>1. Alone(phase, phase', r)
    BY <1>7 DEF Alone, Progress
  <2>2. carried'[r] = request.sent
    BY <1>7 DEF CacheInv, Conversations
  <2>3. Proceeds(r)
    BY <1>3, <1>7, <2>1, <2>2 DEF Proceeds
  <2> QED
    BY <1>1, <1>5, <2>3, ProceedsKeeps
<1> QED
  BY <1>4, <1>6, <1>7

LEMMA ToolCalledKeepsCache ==
  ASSUME Progress, CacheInv, NEW r \in Runs,
         NEW body \in Bodies, NEW id \in CallIds(body), ToolCalled(r, body, id)
  PROVE  CacheInv'
<1> DEFINE new == [id |-> id, body |-> body]
<1>1. /\ cache' = Remembered(cache, new) /\ since' = Used(since, id)
      /\ results' = [results EXCEPT ![r] = Append(@, new)]
      /\ Ends(r, Result("tool_call"))
  BY DEF ToolCalled
<1>2. new \in Calls /\ new.id = id
  BY DEF Calls, CallIds
<1> HIDE DEF new
<1>3. Proceeds(r) /\ phase'[r] # "waiting"
  BY <1>1, EndsSettles, SettlesProceeds DEF CacheInv
<1>4. Learns(r, new)
  BY <1>1, <1>2, <1>3 DEF Learns
<1>5. new \in Asked'
  <2>1. results \in [Runs -> Seq(Calls)] /\ results[r] \in Seq(Calls) /\ Len(results[r]) \in Nat
    BY DEF CacheInv, Conversations
  <2>2. results'[r] = Append(results[r], new)
    BY <1>1, <2>1
  <2>3. Len(results'[r]) = Len(results[r]) + 1
    BY <1>2, <2>1, <2>2, AppendProperties
  <2>4. results' # results
    BY <2>1, <2>3
  <2> QED
    BY <1>4, <2>4, AskedGrows DEF CacheInv
<1>6. Recent(cache', since') /\ Len(cache') <= Limit /\ Range(cache') \subseteq Range(cache) \cup {new}
  BY <1>1, <1>2, RememberedKeeps DEF CacheInv
<1> QED
  BY <1>3, <1>4, <1>5, <1>6, ProceedsKeeps

LEMMA RespondsKeepsCache ==
  ASSUME Progress, CacheInv, NEW r \in Runs, Responds(r)
  PROVE  CacheInv'
<1>2. \/ /\ \E answered : Ends(r, answered) \/ Raises(r, answered)
         /\ UNCHANGED <<results, cache, since>>
      \/ \E body \in Bodies : \E id \in CallIds(body) : ToolCalled(r, body, id)
  BY DEF Responds, cacheVars
<1>3. CASE /\ \E answered : Ends(r, answered) \/ Raises(r, answered)
           /\ UNCHANGED <<results, cache, since>>
  <2>1. Settles(r)
    BY <1>3, EndsSettles, RaisesSettles
  <2> QED
    BY <1>3, <2>1, SettlesKeeps
<1>4. CASE \E body \in Bodies : \E id \in CallIds(body) : ToolCalled(r, body, id)
  BY <1>4, ToolCalledKeepsCache
<1> QED
  BY <1>2, <1>3, <1>4

LEMMA CacheInvStep == Progress /\ CacheInv /\ [CompletionNext]_completionVars => CacheInv'
<1> SUFFICES ASSUME Progress, CacheInv, [CompletionNext]_completionVars
             PROVE  CacheInv'
  OBVIOUS
<1>1. CASE UNCHANGED completionVars
  <2>1. UNCHANGED <<phase, results, carried, cache, since>>
    BY <1>1 DEF completionVars, callVars, cacheVars
  <2> QED
    BY <2>1, OthersKeepCache
<1>2. CASE CompletionNext
  <2>1. deployment.users \subseteq Runs
    BY DEF Progress
  <2>2. CASE \E r \in deployment.users :
               \/ Start(r) \/ Refuses(r) \/ FindsDeadline(r) \/ Try(r)
               \/ Fails(r) \/ Responds(r) \/ OuterTimer(r) \/ InnerTimer(r)
               \/ Cancel(r) \/ NextTurn(r)
    BY <2>1, <2>2, StartKeepsCache, InterruptedKeepsCache, ServesKeepsCache, RespondsKeepsCache,
       CancelKeepsCache, NextTurnKeepsCache
  <2>3. CASE \/ \E r \in Runs : DeadlinePasses(r)
             \/ \E c \in Closers : Close(c) \/ Enters(c) \/ CloserEnds(c) \/ Abandons(c)
             \/ PoolCloses
    <3>1. UNCHANGED <<phase, results, carried, cache, since>>
      BY <2>3 DEF DeadlinePasses, Close, Enters, CloserEnds, Abandons, PoolCloses, callVars, cacheVars
    <3> QED
      BY <3>1, OthersKeepCache
  <2> QED
    BY <1>2, <2>1, <2>2, <2>3 DEF CompletionNext
<1> QED
  BY <1>1, <1>2

LEMMA CacheInvInit == CompletionInit => CacheInv
<1> SUFFICES ASSUME CompletionInit
             PROVE  CacheInv
  OBVIOUS
<1>1. /\ cache = <<>> /\ since = <<>> /\ phase = [r \in Runs |-> "idle"]
      /\ results = [r \in Runs |-> <<>>] /\ carried = [r \in Runs |-> <<>>]
  BY DEF CompletionInit, AdapterInit
<1>2. <<>> \in Seq(Calls) /\ <<>> \in Seq(Bodies) /\ Len(<<>>) = 0 /\ DOMAIN <<>> = {}
  OBVIOUS
<1>3. Conversations
  BY <1>1, <1>2 DEF Conversations
<1>4. Recent(cache, since) /\ Len(cache) <= Limit
  BY <1>1, <1>2, CompletionAssumption DEF Recent, Ordered, Forgotten
<1>5. Range(cache) = {}
  BY <1>1, <1>2 DEF Range
<1> QED
  BY <1>1, <1>3, <1>4, <1>5 DEF CacheInv

(***************************************************************************)
(* Although all runs share one cache, each tool result goes back behind the  *)
(* very call it answers when the ID of that call was made, its server having *)
(* given none, and behind a call asked under the same ID when a server gave  *)
(* it: another one only where servers gave that ID to two different calls.   *)
(* And a call is forgotten exactly when as many others as the cache holds    *)
(* were used since it was (_tool_cache.py, _to_openai_messages).            *)
(***************************************************************************)
THEOREM ResultsMeetCalls == CompletionSpec => []ResultsMeetTheirCalls
<1>1. CacheInv => ToolTurnsCarryTheirCall
  <2> SUFFICES ASSUME CacheInv, NEW r \in Runs, phase[r] = "waiting"
               PROVE  /\ Len(carried[r]) = Len(results[r])
                      /\ \A i \in DOMAIN results[r] :
                           /\ carried[r][i] = results[r][i].body \/ Reused(results[r][i].id)
                           /\ \E call \in Asked :
                                call.id = results[r][i].id /\ call.body = carried[r][i]
    BY DEF ToolTurnsCarryTheirCall
  <2>1. Found(Asked, carried[r], results[r], Len(results[r]))
    BY DEF CacheInv
  <2>2. \A q \in Runs : results[q] \in Seq(Calls) /\ DOMAIN results[q] = 1 .. Len(results[q])
    BY DEF CacheInv, Conversations
  <2>3. Asked \subseteq Calls
    <3>1. \A q \in Runs : \A i \in DOMAIN results[q] : results[q][i] \in Calls
      BY <2>2
    <3> QED
      BY <3>1 DEF Asked, Range
  <2>4. ASSUME NEW i \in DOMAIN results[r]
        PROVE  /\ carried[r][i] = results[r][i].body \/ Reused(results[r][i].id)
               /\ \E call \in Asked : call.id = results[r][i].id /\ call.body = carried[r][i]
    <3>1. PICK call \in Asked : call.id = results[r][i].id /\ call.body = carried[r][i]
      BY <2>1, <2>2 DEF Found
    <3>2. results[r][i] \in Asked
      BY DEF Asked, Range
    <3>3. results[r][i].body = call.body \/ Reused(results[r][i].id)
      BY <2>3, <3>1, <3>2, OneOrReused
    <3> QED
      BY <3>1, <3>3
  <2> QED
    BY <2>1, <2>4 DEF Found
<1>2. CacheInv => RecentCallsAreKept
  <2> SUFFICES ASSUME CacheInv
               PROVE  RecentCallsAreKept
    OBVIOUS
  <2>1. /\ cache \in Seq(Calls) /\ Ordered(cache, since) /\ Forgotten(cache, since)
        /\ Len(cache) <= Limit
    BY DEF CacheInv, Recent
  <2>2. ASSUME NEW id \in DOMAIN since, Cached(cache, id) PROVE Cardinality(since[id]) < Limit
    <3>1. PICK i \in DOMAIN cache : cache[i].id = id
      BY <2>2 DEF Cached
    <3>2. Cardinality(since[id]) = Len(cache) - i
      BY <2>1, <3>1, BehindAre
    <3>3. i \in 1 .. Len(cache) /\ Len(cache) \in Nat
      BY <2>1
    <3> QED
      BY <2>1, <3>2, <3>3, CompletionAssumption
  <2>3. ASSUME NEW id \in DOMAIN since, ~Cached(cache, id) PROVE ~(Cardinality(since[id]) < Limit)
    <3>1. IsFiniteSet(since[id]) /\ Limit <= Cardinality(since[id])
      BY <2>1, <2>3 DEF Forgotten
    <3>2. Cardinality(since[id]) \in Nat /\ Limit \in Nat
      BY <3>1, FS_CardinalityType, CompletionAssumption
    <3> QED
      BY <3>1, <3>2
  <2> QED
    BY <2>2, <2>3 DEF RecentCallsAreKept
<1>3. CacheInv => ResultsMeetTheirCalls
  BY <1>1, <1>2 DEF ResultsMeetTheirCalls
<1>4. CompletionInv => Progress
  BY DEF CompletionInv
<1> QED
  BY <1>3, <1>4, CompletionInvariant, CacheInvInit, CacheInvStep, PTL DEF CompletionSpec
=============================================================================
