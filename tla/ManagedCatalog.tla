--------------------------- MODULE ManagedCatalog ---------------------------
(***************************************************************************)
(* AgentCatalog and the ManagedInstances ledger it owns                     *)
(* (core/catalog/_lifecycle.py, _managed.py, _admission.py).                *)
(*                                                                         *)
(* One lock guards everything, so each public method is one atomic action.  *)
(* The legacy methods read the clock before they take the lock: they act on *)
(* some earlier time t <= now.  The managed ledger reads it under the lock. *)
(*                                                                         *)
(* A card stands for the logical digest and supported versions of an entry; *)
(* Upgrades holds the pairs <<old, new>> AdmissionPolicy.validate accepts   *)
(* (<<NoCard, c>> for a first admission).  A lease handle is unguessable    *)
(* and minted once per identity, so a command only says whether the handle  *)
(* it presents is that one.                                                 *)
(***************************************************************************)
EXTENDS Integers, FiniteSets

CONSTANTS Agents, Instances, Owners, Principals, Keys, Cards,
          NoCard, NoOwner, NoPrincipal, NoReceipt,
          Upgrades,      \* card changes the admission policy accepts
          Durations,     \* lease lengths a caller may ask for
          Capacity,      \* managed_capacity
          MaxTime,       \* bound: the clock stops here
          MaxRevision,   \* bound: catalog mutations in a behaviour
          MaxExpected    \* bound: the generations a command may expect

ASSUME BoundsAssumption ==
  /\ Capacity \in Nat \ {0}
  /\ MaxTime \in Nat
  /\ MaxRevision \in Nat
  /\ MaxExpected \in Nat
  /\ Durations \subseteq Nat \ {0}
ASSUME NamesAssumption ==
  /\ NoCard \notin Cards /\ NoOwner \notin Owners /\ NoPrincipal \notin Principals
  /\ Upgrades \subseteq (Cards \cup {NoCard}) \X Cards
ASSUME FiniteAssumption ==
  IsFiniteSet(Agents) /\ IsFiniteSet(Instances) /\ IsFiniteSet(Principals) /\ IsFiniteSet(Keys)

VARIABLES
  now,        \* the catalog clock
  agents,     \* _agents: the registrations discovery reads
  ledger,     \* ManagedInstances.instances: the authority of each identity
  receipts,   \* ManagedInstances.receipts, by <<principal, idempotency key>>
  pending,    \* ManagedInstances.pending_expiries
  revision,   \* _revision
  reported    \* history: expiry receipts handed out, by identity

vars == <<now, agents, ledger, receipts, pending, revision, reported>>

Identities == Agents \X Instances
ReceiptKeys == Principals \X Keys

Lifecycles == {"active", "quarantined", "disabled", "revoked", "removed"}
Live == {"active", "draining"}
Terminal == {"removed", "revoked", "expired"}
TerminalOps == {"deregister", "revoke"}
Operations == {"register", "renew", "drain", "status"} \cup TerminalOps

-----------------------------------------------------------------------------
(* Records of the state.                                                    *)

InstanceRecord == [present : BOOLEAN, healthy : BOOLEAN, lease : Nat]
NoInstance == [present |-> FALSE, healthy |-> FALSE, lease |-> 0]
Serving(expiry) == [present |-> TRUE, healthy |-> TRUE, lease |-> expiry]
Unhealthy(inst) == [present |-> inst.present, healthy |-> FALSE, lease |-> inst.lease]

AgentRecord == [lifecycle : Lifecycles \cup {"absent"}, owner : Owners \cup {NoOwner},
                card : Cards \cup {NoCard}, generation : Nat,
                instances : [Instances -> InstanceRecord]]
NoAgent == [lifecycle |-> "absent", owner |-> NoOwner, card |-> NoCard, generation |-> 0,
            instances |-> [i \in Instances |-> NoInstance]]
\* dataclasses.replace(agent, instances=...), replace(agent, lifecycle=...)
WithInstances(ag, instances) ==
  [lifecycle |-> ag.lifecycle, owner |-> ag.owner, card |-> ag.card,
   generation |-> ag.generation, instances |-> instances]
WithLifecycle(ag, lifecycle) ==
  [lifecycle |-> lifecycle, owner |-> ag.owner, card |-> ag.card,
   generation |-> ag.generation, instances |-> ag.instances]

ManagedRecord == [state : Live \cup Terminal \cup {"absent"}, owner : Owners \cup {NoOwner},
                  principal : Principals \cup {NoPrincipal}, generation : Nat,
                  instance : InstanceRecord]
Unmanaged == [state |-> "absent", owner |-> NoOwner, principal |-> NoPrincipal,
              generation |-> 0, instance |-> NoInstance]
\* Mutant: a change that keeps the state keeps the generation too.
MovedLazily(m, state, inst) ==
  [state |-> state, owner |-> m.owner, principal |-> m.principal, instance |-> inst,
   generation |-> IF state = m.state THEN m.generation ELSE m.generation + 1]
\* The record after a publication: a new state, instance and generation.
Moved(m, state, inst) ==
  [state |-> state, owner |-> m.owner, principal |-> m.principal,
   generation |-> m.generation + 1, instance |-> inst]

\* What a command asks for.  The caller fingerprints the whole request, so
\* two commands have the same fingerprint when these fields agree.
CommandRecord == [op : Operations, id : Identities, owner : Owners, principal : Principals,
                  key : Keys, expected : Nat, lease : Nat, handle : BOOLEAN,
                  card : Cards \cup {NoCard}]
Fingerprint(c) == [op |-> c.op, expected |-> c.expected, lease |-> c.lease, card |-> c.card]
ReceiptKey(c) == <<c.principal, c.key>>

FingerprintRecord == [op : Operations, expected : Nat, lease : Nat, card : Cards \cup {NoCard}]
ResultRecord == [generation : Nat, state : Live \cup Terminal, lease : Nat]
ReceiptRecord == [fingerprint : FingerprintRecord, id : Identities, result : ResultRecord]
ASSUME NoReceiptAssumption == NoReceipt \notin ReceiptRecord

TypeOK ==
  /\ now \in 0 .. MaxTime
  /\ agents \in [Agents -> AgentRecord]
  /\ ledger \in [Identities -> ManagedRecord]
  /\ receipts \in [ReceiptKeys -> ReceiptRecord \cup {NoReceipt}]
  /\ pending \subseteq Identities
  /\ revision \in Nat
  /\ reported \in [Identities -> Nat]

Init ==
  /\ now = 0
  /\ agents = [a \in Agents |-> NoAgent]
  /\ ledger = [id \in Identities |-> Unmanaged]
  /\ receipts = [k \in ReceiptKeys |-> NoReceipt]
  /\ pending = {}
  /\ revision = 0
  /\ reported = [id \in Identities |-> 0]

-----------------------------------------------------------------------------
(* Publication: every change of a managed identity bumps its generation,    *)
(* the catalog revision, and is written through to the agent's instances.   *)

Managed(id) == ledger[id].state # "absent"
Registered(a) == agents[a].lifecycle # "absent"
Enrolled == {id \in Identities : Managed(id)}
Stored == {k \in ReceiptKeys : receipts[k] # NoReceipt}

\* upd maps the identities that change to their new state and instance.
LedgerAfter(upd) ==
  [id \in Identities |->
     IF id \in DOMAIN upd THEN Moved(ledger[id], upd[id].state, upd[id].instance)
     ELSE ledger[id]]

\* Mutant: the ledger changes, the instance discovery reads does not.
UnpublishedAgentsAfter(upd) == agents
AgentsAfter(upd) ==
  [a \in Agents |->
     IF ~Registered(a) THEN agents[a]
     ELSE WithInstances(agents[a],
            [i \in Instances |->
               IF <<a, i>> \notin DOMAIN upd THEN agents[a].instances[i]
               ELSE IF upd[<<a, i>>].state = "removed" THEN NoInstance
               ELSE upd[<<a, i>>].instance])]

RevisionAfter(upd) == revision + Cardinality(DOMAIN upd)

Change(id, state, inst) == [x \in {id} |-> [state |-> state, instance |-> inst]]
Retirement(ids, state) ==
  [id \in ids |-> [state |-> state, instance |-> Unhealthy(ledger[id].instance)]]

Publish(upd) ==
  /\ ledger' = LedgerAfter(upd)
  /\ agents' = AgentsAfter(upd)
  /\ revision' = RevisionAfter(upd)

Bounded == revision' <= MaxRevision

-----------------------------------------------------------------------------
(* Expiry.                                                                  *)

Lapsed(id) == ledger[id].state \in Live /\ now >= ledger[id].instance.lease
LapsedIds == {id \in Identities : Lapsed(id)}

\* _expire_one for each identity: fence it, and keep the evidence to report.
Expire(ids) == Publish(Retirement(ids, "expired"))
Evidence(ids) == pending \cup ids

\* fence: the live identities of an agent, or one of them.
LiveOf(a) == {id \in Identities : id[1] = a /\ ledger[id].state \in Live}
-----------------------------------------------------------------------------
(* The checks of a managed command, in the order the code makes them.       *)

\* _authorize
AuthError(c) ==
  LET m == ledger[c.id] IN
  IF c.owner # m.owner THEN "identity_conflict"
  ELSE IF c.op = "revoke" THEN "none"
  ELSE IF c.principal # m.principal THEN "identity_conflict"
  ELSE IF c.op # "register" /\ ~c.handle THEN "invalid_handle"
  ELSE "none"

\* _check_managed: authority first, then the state the lapse leaves.
StateError(id) ==
  IF Lapsed(id) \/ ledger[id].state = "expired" THEN "expired"
  ELSE IF ledger[id].state \in {"removed", "revoked"} THEN "inactive"
  ELSE "none"
CheckManaged(c) == IF AuthError(c) # "none" THEN AuthError(c) ELSE StateError(c.id)

\* A receipt answers a terminal command again although the identity is dead.
AnswersTerminal(c) ==
  LET r == receipts[ReceiptKey(c)].result IN
  /\ c.op \in TerminalOps
  /\ r.generation = ledger[c.id].generation
  /\ r.state = ledger[c.id].state

MatchesReceipt(c) ==
  LET r == receipts[ReceiptKey(c)] IN r.fingerprint = Fingerprint(c) /\ r.id = c.id

\* lookup, for a command whose key has a receipt.  "ok": the stored result.
LookupCode(c) ==
  IF Managed(c.id) /\ AuthError(c) # "none" THEN AuthError(c)
  ELSE IF ~Managed(c.id) /\ c.op # "register" THEN "not_found"
  ELSE IF ~MatchesReceipt(c) THEN "idempotency_conflict"
  ELSE IF ~Managed(c.id) THEN "replay_rejected"
  ELSE IF StateError(c.id) = "inactive" /\ AnswersTerminal(c) THEN "ok"
  ELSE IF StateError(c.id) # "none" THEN StateError(c.id)
  ELSE IF receipts[ReceiptKey(c)].result.generation # ledger[c.id].generation
       THEN "stale_generation"
  ELSE "ok"

\* guard_external_entry: live managed siblings pin the agent's metadata.
SiblingConflict(a, owner, card) ==
  /\ Registered(a)
  /\ LiveOf(a) # {}
  /\ agents[a].owner # owner \/ agents[a].card # card

\* AdmissionPolicy.validate against the registration under the lock.
Admissible(a, card) == <<agents[a].card, card>> \in Upgrades

LiveLease(a) ==
  \E i \in Instances : agents[a].instances[i].present /\ now < agents[a].instances[i].lease

\* _register; "invalid_card" is the CatalogValidationError of register_instance.
RegisterCode(c) ==
  LET a == c.id[1] IN
  IF Cardinality(Enrolled) >= Capacity THEN "capacity_exceeded"
  ELSE IF Registered(a) /\ agents[a].lifecycle # "active" THEN "inactive"
  ELSE IF /\ Registered(a)
          /\ \/ agents[a].owner # c.owner
             \/ agents[a].instances[c.id[2]].present
             \/ LiveLease(a) /\ agents[a].card # c.card
       THEN "identity_conflict"
  ELSE IF SiblingConflict(a, c.owner, c.card) \/ ~Admissible(a, c.card) THEN "invalid_card"
  ELSE "ok"

\* Nothing is evicted: when the receipts are full only a terminal operation
\* may add one.
\* Mutant: terminal operations are counted as well.
UnreservedReceipts(c) == Cardinality(Stored) >= Capacity
ReceiptsFull(c) == Cardinality(Stored) >= Capacity /\ c.op \notin TerminalOps

\* execute, for a command whose key has no receipt.
ExecuteCode(c) ==
  IF Managed(c.id) /\ CheckManaged(c) # "none" THEN CheckManaged(c)
  ELSE IF c.op = "register" /\ Managed(c.id) THEN "identity_conflict"
  ELSE IF c.op = "register" /\ c.expected # 0 THEN "stale_generation"
  ELSE IF c.op # "register" /\ ~Managed(c.id) THEN "not_found"
  ELSE IF c.op \notin {"register", "status"} /\ c.expected # ledger[c.id].generation
       THEN "stale_generation"
  ELSE IF c.op \in {"register", "renew"} /\ c.lease = 0 THEN "invalid_lease"
  ELSE IF ReceiptsFull(c) THEN "capacity_exceeded"
  ELSE IF c.op = "register" THEN RegisterCode(c)
  ELSE IF c.op = "renew" /\ ledger[c.id].state # "active" THEN "inactive"
  ELSE "ok"

\* The code manage_instance answers, and whether it does so by executing.
HasReceipt(c) == receipts[ReceiptKey(c)] # NoReceipt
ManageCode(c) == IF HasReceipt(c) THEN LookupCode(c) ELSE ExecuteCode(c)
Applies(c) == ~HasReceipt(c) /\ ExecuteCode(c) = "ok"

\* Either path reaches _expire_one once the command is authorized for the
\* identity; lookup first wants the receipt to be this command's.
Observes(c) ==
  /\ Managed(c.id) /\ AuthError(c) = "none"
  /\ HasReceipt(c) => MatchesReceipt(c)

-----------------------------------------------------------------------------
(* manage_instance and lookup_managed_request.  A command that is refused   *)
(* without observing a lapse, or answered from a receipt, changes nothing.  *)

\* The result an executed command stores and returns.
ResultOf(m) == [generation |-> m.generation, state |-> m.state, lease |-> m.instance.lease]
Remember(c) ==
  receipts' = [receipts EXCEPT ![ReceiptKey(c)] =
    [fingerprint |-> Fingerprint(c), id |-> c.id, result |-> ResultOf(ledger'[c.id])]]

\* Any command may be the first to notice that the lease has run out.
ManageLapse(c) ==
  /\ Observes(c) /\ Lapsed(c.id)
  /\ Expire({c.id})
  /\ pending' = Evidence({c.id})
  /\ Bounded
  /\ UNCHANGED <<now, receipts, reported>>

\* register_instance's effect on the agent map.
Admitted(a, i, owner, card, expiry) ==
  [agents EXCEPT ![a] =
     [lifecycle |-> IF Registered(a) THEN agents[a].lifecycle ELSE "active",
      owner |-> owner, card |-> card, generation |-> agents[a].generation + 1,
      instances |-> [agents[a].instances EXCEPT ![i] = Serving(expiry)]]]

ManageRegister(c) ==
  /\ c.op = "register" /\ Applies(c)
  /\ ledger' = [ledger EXCEPT ![c.id] =
       [state |-> "active", owner |-> c.owner, principal |-> c.principal,
        generation |-> 1, instance |-> Serving(now + c.lease)]]
  /\ agents' = Admitted(c.id[1], c.id[2], c.owner, c.card, now + c.lease)
  /\ revision' = revision + 1
  /\ Remember(c)
  /\ Bounded
  /\ UNCHANGED <<now, pending, reported>>

Mutates(c, upd) ==
  /\ Applies(c)
  /\ Publish(upd)
  /\ Remember(c)
  /\ Bounded
  /\ UNCHANGED <<now, pending, reported>>

\* A renewal keeps a longer lease and never shortens it.
\* Mutant: the renewal replaces the lease.
Replaced(lease, expiry) == expiry
Longer(lease, expiry) == IF lease >= expiry THEN lease ELSE expiry
Renewed(c) ==
  [present |-> TRUE, healthy |-> ledger[c.id].instance.healthy,
   lease |-> Longer(ledger[c.id].instance.lease, now + c.lease)]
ManageRenew(c) ==
  c.op = "renew" /\ Mutates(c, Change(c.id, "active", Renewed(c)))

ManageDrain(c) ==
  /\ c.op = "drain" /\ ledger[c.id].state # "draining"
  /\ Mutates(c, Change(c.id, "draining", Unhealthy(ledger[c.id].instance)))

\* status, and draining what is draining, only read; their receipt is stored.
ManageRead(c) ==
  /\ c.op = "status" \/ (c.op = "drain" /\ ledger[c.id].state = "draining")
  /\ Applies(c)
  /\ UNCHANGED <<now, agents, ledger, pending, revision, reported>>
  /\ Remember(c)

\* Mutant: the operation is recorded instead of the state it leads to.
OperationAsState(op) == op
TerminalState(op) == IF op = "deregister" THEN "removed" ELSE "revoked"
ManageTerminate(c) ==
  c.op \in TerminalOps /\ Mutates(c, Retirement({c.id}, TerminalState(c.op)))

\* expire_managed_instances: sweep, then hand out every pending receipt.
ExpireManagedInstances ==
  /\ LapsedIds \cup pending # {}
  /\ Expire(LapsedIds)
  /\ pending' = {}
  /\ reported' = [id \in Identities |->
       reported[id] + IF id \in Evidence(LapsedIds) THEN 1 ELSE 0]
  /\ Bounded
  /\ UNCHANGED <<now, receipts>>

-----------------------------------------------------------------------------
(* The legacy methods of AgentCatalog.                                      *)

\* register_instance and renew_lease on an identity that was ever managed
\* raise, and take its authority with them.
ExternalFence(a, i) ==
  /\ ledger[<<a, i>>].state \in Live
  /\ Publish(Retirement({<<a, i>>}, "revoked"))
  /\ Bounded
  /\ UNCHANGED <<now, receipts, pending, reported>>

\* register_instance of a legacy instance, with the clock read at t.
RegisterInstance(a, i, owner, card, lease, t) ==
  /\ ~Managed(<<a, i>>)
  /\ ~SiblingConflict(a, owner, card) /\ Admissible(a, card)
  /\ agents' = Admitted(a, i, owner, card, t + lease)
  /\ revision' = revision + 1
  /\ Bounded
  /\ UNCHANGED <<now, ledger, receipts, pending, reported>>

\* renew_lease of a legacy instance, with the clock read at t.  The default
\* duration is the one of the last admission or renewal, a member of Durations.
RenewLease(a, i, lease, t) ==
  /\ ~Managed(<<a, i>>) /\ agents[a].instances[i].present
  /\ agents' = [agents EXCEPT ![a] =
       WithInstances(agents[a], [agents[a].instances EXCEPT ![i] = Serving(t + lease)])]
  /\ revision' = revision + 1
  /\ Bounded
  /\ UNCHANGED <<now, ledger, receipts, pending, reported>>

\* expire_instances: the ledger sweeps by the current clock, the other
\* instances are judged by the time t read before the lock.
ExpireInstances(t) ==
  LET swept == AgentsAfter(Retirement(LapsedIds, "expired"))
      Aged(a) == {i \in Instances : swept[a].instances[i].healthy
                                    /\ t >= swept[a].instances[i].lease}
      Stale == {a \in Agents : Aged(a) # {}}
  IN
  /\ LapsedIds \cup Stale # {}
  /\ ledger' = LedgerAfter(Retirement(LapsedIds, "expired"))
  /\ agents' = [a \in Agents |-> WithInstances(swept[a],
       [i \in Instances |-> IF i \in Aged(a) THEN Unhealthy(swept[a].instances[i])
                            ELSE swept[a].instances[i]])]
  /\ revision' = revision + Cardinality(LapsedIds) + Cardinality(Stale)
  /\ pending' = Evidence(LapsedIds)
  /\ Bounded
  /\ UNCHANGED <<now, receipts, reported>>

\* set_lifecycle: leaving "active" fences every managed instance of the agent.
FencedBy(a, lifecycle) == IF lifecycle = "active" THEN {} ELSE LiveOf(a)
SetLifecycle(a, lifecycle) ==
  LET upd == Retirement(FencedBy(a, lifecycle),
                        IF lifecycle = "removed" THEN "removed" ELSE "revoked") IN
  /\ Registered(a)
  /\ ledger' = LedgerAfter(upd)
  /\ agents' = [AgentsAfter(upd) EXCEPT ![a] = WithLifecycle(AgentsAfter(upd)[a], lifecycle)]
  /\ revision' = RevisionAfter(upd) + 1
  /\ Bounded
  /\ UNCHANGED <<now, receipts, pending, reported>>

\* remove: forget the registration; the ledger keeps the tombstones.
Remove(a) ==
  /\ Registered(a)
  /\ ledger' = LedgerAfter(Retirement(LiveOf(a), "removed"))
  /\ agents' = [agents EXCEPT ![a] = NoAgent]
  /\ revision' = revision + Cardinality(LiveOf(a)) + 1
  /\ Bounded
  /\ UNCHANGED <<now, receipts, pending, reported>>

Tick ==
  /\ now < MaxTime
  /\ now' = now + 1
  /\ UNCHANGED <<agents, ledger, receipts, pending, revision, reported>>

-----------------------------------------------------------------------------
(* The commands a caller may send: each operation with the fields it uses.  *)

Command(ops, expected, leases, cards) ==
  [op : ops, id : Identities, owner : Owners, principal : Principals, key : Keys,
   expected : expected, lease : leases, handle : BOOLEAN, card : cards]
Registers == Command({"register"}, {0, 1}, Durations, Cards)
Renews == Command({"renew"}, 0 .. MaxExpected, Durations, {NoCard})
Others == Command({"drain", "status"} \cup TerminalOps, 0 .. MaxExpected, {0}, {NoCard})
Commands == Registers \cup Renews \cup Others

ManageInstance ==
  \/ \E c \in Commands : ManageLapse(c)
  \/ \E c \in Registers : ManageRegister(c)
  \/ \E c \in Renews : ManageRenew(c)
  \/ \E c \in Others : ManageDrain(c) \/ ManageRead(c) \/ ManageTerminate(c)

Legacy ==
  \/ \E a \in Agents, i \in Instances : ExternalFence(a, i)
  \/ \E a \in Agents, i \in Instances, o \in Owners, card \in Cards, d \in Durations,
        t \in 0 .. now : RegisterInstance(a, i, o, card, d, t)
  \/ \E a \in Agents, i \in Instances, d \in Durations, t \in 0 .. now : RenewLease(a, i, d, t)
  \/ \E t \in 0 .. now : ExpireInstances(t)
  \/ \E a \in Agents, lifecycle \in Lifecycles : SetLifecycle(a, lifecycle)
  \/ \E a \in Agents : Remove(a)

Next == ManageInstance \/ ExpireManagedInstances \/ Legacy \/ Tick

Spec == Init /\ [][Next]_vars

-----------------------------------------------------------------------------
(* Properties.                                                              *)

\* What snapshot() lists when it judges leases by the clock value t.
Discoverable(t) ==
  {id \in Identities :
     LET ag == agents[id[1]]  inst == ag.instances[id[2]] IN
     /\ ag.lifecycle = "active"
     /\ inst.present /\ inst.healthy /\ t < inst.lease}

\* Every live grant is mirrored by the registration it was made under: the
\* agent is active, has the same owner, and serves exactly the instance record
\* the ledger holds; a dead identity is never a healthy instance of an agent.
\* The ledger and the agent map are written by different methods of two classes.
LedgerMirrorsCatalog ==
  \A a \in Agents, i \in Instances :
    LET m == ledger[<<a, i>>]  ag == agents[a] IN
    /\ m.state \in Live =>
         /\ ag.lifecycle = "active" /\ ag.owner = m.owner
         /\ ag.instances[i] = m.instance
         /\ m.instance.healthy <=> m.state = "active"
    /\ m.state \in Terminal => ~ag.instances[i].healthy

\* Whatever time a snapshot judged leases by, a managed instance it lists has
\* an active grant in the ledger: no interleaving of legacy and managed calls
\* lets discovery serve a drained, revoked, removed or expired identity.
DiscoveryServesGrants ==
  \A t \in 0 .. now : \A id \in Discoverable(t) : Managed(id) => ledger[id].state = "active"

\* The ledger is bounded although nothing is evicted: capacity limits the
\* identities and the ordinary receipts, and each identity has at most one
\* receipt of a terminal operation on top (ManagedInstances' docstring).
OrdinaryReceipts == {k \in Stored : receipts[k].fingerprint.op \notin TerminalOps}
ReceiptBudget ==
  /\ Cardinality(Enrolled) <= Capacity
  /\ Cardinality(OrdinaryReceipts) <= Capacity
  /\ \A j, k \in Stored \ OrdinaryReceipts : receipts[j].id = receipts[k].id => j = k

\* Exhausted capacity never prevents the owner of a live lease from giving it
\* up: with an unused key, deregister at the current generation is accepted.
TerminalNeverStarved ==
  \A id \in Identities : ledger[id].state \in Live /\ ~Lapsed(id) =>
    \A key \in Keys :
      LET c == [op |-> "deregister", id |-> id, owner |-> ledger[id].owner,
                principal |-> ledger[id].principal, key |-> key,
                expected |-> ledger[id].generation, lease |-> 0, handle |-> TRUE,
                card |-> NoCard]
      IN ~HasReceipt(c) => ManageCode(c) = "ok"

\* A replayed request is answered "ok" only while its result still describes
\* the identity: no retry learns of a lease or state that was superseded.
ReplayTellsTheTruth ==
  \A c \in Commands :
    HasReceipt(c) /\ LookupCode(c) = "ok" =>
      receipts[ReceiptKey(c)].result = ResultOf(ledger[c.id])

\* Every expiry, whichever call noticed it, is pending or was handed to the
\* caller of expire_managed_instances, and never both nor twice.
ExpiryEvidenceOnce ==
  \A id \in Identities :
    reported[id] + (IF id \in pending THEN 1 ELSE 0)
      = IF ledger[id].state = "expired" THEN 1 ELSE 0

\* Every identity's grant goes through the life InstanceAuthority describes,
\* whatever the callers of the two interfaces do to its agent and siblings.
Grants == [id \in Identities |->
  [phase |-> ledger[id].state, generation |-> ledger[id].generation,
   lease |-> ledger[id].instance.lease, holder |-> ledger[id].principal]]
Authority == INSTANCE InstanceAuthority WITH grants <- Grants
GrantsFollowAuthority == Authority!Spec
============================================================================
