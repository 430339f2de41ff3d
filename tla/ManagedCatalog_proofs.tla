------------------------ MODULE ManagedCatalog_proofs ------------------------
(***************************************************************************)
(* Proofs about ManagedCatalog, for every set of agents, instances, owners, *)
(* principals, keys and cards and for every capacity.                       *)
(***************************************************************************)
EXTENDS ManagedCatalog, FiniteSetTheorems, TLAPS

-----------------------------------------------------------------------------
(* Facts about the helpers.                                                 *)

\* There are finitely many identities and receipt keys.
LEMMA FiniteIdentities ==
  /\ IsFiniteSet(Identities)
  /\ IsFiniteSet(ReceiptKeys)
BY FiniteAssumption, FS_Product DEF Identities, ReceiptKeys

\* Adding an element to a set that is not full does not overfill it.
LEMMA OneMore ==
  ASSUME NEW S, IsFiniteSet(S), NEW x, NEW n \in Nat, ~(Cardinality(S) >= n)
  PROVE  Cardinality(S \cup {x}) <= n
<1>1. Cardinality(S) \in Nat
  BY FS_CardinalityType
<1>2. Cardinality(S \cup {x}) = IF x \in S THEN Cardinality(S) ELSE Cardinality(S) + 1
  BY FS_AddElement
<1> QED BY <1>1, <1>2

\* An update a publication may carry: identities with a new state and instance.
Update(upd) ==
  /\ DOMAIN upd \subseteq Identities
  /\ \A id \in DOMAIN upd : upd[id].state \in Live \cup Terminal
                            /\ upd[id].instance \in InstanceRecord

\* Publishing an update keeps the types of the ledger, the agents, the revision.
LEMMA PublishType ==
  ASSUME TypeOK, NEW upd, Update(upd)
  PROVE  /\ LedgerAfter(upd) \in [Identities -> ManagedRecord]
         /\ AgentsAfter(upd) \in [Agents -> AgentRecord]
         /\ RevisionAfter(upd) \in Nat
<1>1. LedgerAfter(upd) \in [Identities -> ManagedRecord]
  <2>1. SUFFICES ASSUME NEW id \in Identities
                 PROVE  LedgerAfter(upd)[id] \in ManagedRecord
    BY DEF LedgerAfter
  <2>2. ledger[id] \in ManagedRecord
    BY DEF TypeOK
  <2>3. CASE id \in DOMAIN upd
    BY <2>2, <2>3 DEF Update, LedgerAfter, Moved, ManagedRecord
  <2>4. CASE id \notin DOMAIN upd
    BY <2>2, <2>4 DEF LedgerAfter
  <2> QED BY <2>3, <2>4
<1>2. AgentsAfter(upd) \in [Agents -> AgentRecord]
  <2>1. NoInstance \in InstanceRecord
    BY DEF NoInstance, InstanceRecord
  <2>2. \A a \in Agents : agents[a] \in AgentRecord
    BY DEF TypeOK
  <2>3. SUFFICES ASSUME NEW a \in Agents
                 PROVE  AgentsAfter(upd)[a] \in AgentRecord
    BY DEF AgentsAfter
  <2>4. ASSUME NEW i \in Instances, <<a, i>> \in DOMAIN upd
        PROVE  upd[<<a, i>>].instance \in InstanceRecord
    BY <2>4 DEF Update
  <2>5. [i \in Instances |->
           IF <<a, i>> \notin DOMAIN upd THEN agents[a].instances[i]
           ELSE IF upd[<<a, i>>].state = "removed" THEN NoInstance
           ELSE upd[<<a, i>>].instance] \in [Instances -> InstanceRecord]
    BY <2>1, <2>2, <2>4 DEF AgentRecord
  <2> QED BY <2>2, <2>5 DEF AgentsAfter, WithInstances, AgentRecord
<1>3. RevisionAfter(upd) \in Nat
  BY FiniteIdentities, FS_Subset, FS_CardinalityType DEF TypeOK, Update, RevisionAfter
<1> QED BY <1>1, <1>2, <1>3

\* A change of one identity and a retirement of several are updates.
LEMMA ChangeIsUpdate ==
  ASSUME NEW id \in Identities, NEW state \in Live \cup Terminal, NEW inst \in InstanceRecord
  PROVE  Update(Change(id, state, inst))
BY DEF Update, Change

LEMMA UnhealthyType ==
  ASSUME NEW inst \in InstanceRecord
  PROVE  Unhealthy(inst) \in InstanceRecord /\ ~Unhealthy(inst).healthy
         /\ Unhealthy(inst).lease = inst.lease
BY DEF Unhealthy, InstanceRecord

LEMMA RetirementIsUpdate ==
  ASSUME TypeOK, NEW ids \in SUBSET Identities, NEW state \in Terminal
  PROVE  Update(Retirement(ids, state))
BY UnhealthyType DEF TypeOK, Update, Retirement, ManagedRecord

\* What the checks of manage_instance establish about a command it executes.
LEMMA ExecutedCommand ==
  ASSUME TypeOK, NEW c \in CommandRecord, Applies(c)
  PROVE  /\ receipts[ReceiptKey(c)] = NoReceipt
         /\ c.op = "register" => ledger[c.id].state = "absent" /\ RegisterCode(c) = "ok"
         /\ c.op # "register" => ledger[c.id].state \in Live
         /\ c.op = "renew" => ledger[c.id].state = "active"
         /\ c.op \notin TerminalOps => ~(Cardinality(Stored) >= Capacity)
<1>1. receipts[ReceiptKey(c)] = NoReceipt /\ ExecuteCode(c) = "ok"
  BY DEF Applies, HasReceipt
<1>2. c.op = "register" => ~Managed(c.id) /\ RegisterCode(c) = "ok"
  <2>1. CASE Managed(c.id) /\ CheckManaged(c) # "none"
    <3>1. CheckManaged(c) # "ok"
      BY DEF CheckManaged, AuthError, StateError
    <3> QED BY <1>1, <2>1, <3>1 DEF ExecuteCode
  <2>2. CASE ~(Managed(c.id) /\ CheckManaged(c) # "none")
    BY <1>1, <2>2 DEF ExecuteCode
  <2> QED BY <2>1, <2>2
<1>3. c.op # "register" => Managed(c.id) /\ CheckManaged(c) = "none"
  <2>1. CheckManaged(c) # "ok"
    BY DEF CheckManaged, AuthError, StateError
  <2> QED BY <1>1, <2>1 DEF ExecuteCode
<1>4. c.op # "register" => ledger[c.id].state \in Live
  <2>1. ledger[c.id] \in ManagedRecord
    BY DEF TypeOK, CommandRecord
  <2>2. CheckManaged(c) = "none" => StateError(c.id) = "none"
    BY DEF CheckManaged
  <2> QED BY <1>3, <2>1, <2>2 DEF StateError, ManagedRecord, Managed, Terminal, Live
<1>5. c.op = "renew" => ledger[c.id].state = "active"
  BY <1>1, <1>3 DEF ExecuteCode
<1>6. c.op \notin TerminalOps => ~(Cardinality(Stored) >= Capacity)
  <2>1. CheckManaged(c) # "ok"
    BY DEF CheckManaged, AuthError, StateError
  <2> QED BY <1>1, <2>1 DEF ExecuteCode, ReceiptsFull
<1> QED BY <1>1, <1>2, <1>4, <1>5, <1>6 DEF Managed

\* The receipt of an executed command has the type of a receipt.
LEMMA RememberType ==
  ASSUME TypeOK, NEW c \in CommandRecord, Remember(c),
         ledger'[c.id] \in ManagedRecord, ledger'[c.id].state # "absent"
  PROVE  receipts' \in [ReceiptKeys -> ReceiptRecord \cup {NoReceipt}]
<1>1. ResultOf(ledger'[c.id]) \in ResultRecord
  BY DEF ResultOf, ResultRecord, ManagedRecord, InstanceRecord
<1>2. Fingerprint(c) \in FingerprintRecord /\ c.id \in Identities
  BY DEF Fingerprint, FingerprintRecord, CommandRecord
<1> QED BY <1>1, <1>2 DEF TypeOK, Remember, ReceiptRecord

\* Every command the callers send is a command record.
LEMMA CommandTypes ==
  /\ Registers \subseteq CommandRecord
  /\ Renews \subseteq CommandRecord
  /\ Others \subseteq CommandRecord
  /\ Commands \subseteq CommandRecord
<1>1. Registers \subseteq CommandRecord
  <2>1. Durations \subseteq Nat /\ {0, 1} \subseteq Nat
    BY BoundsAssumption
  <2>2. "register" \in Operations
    BY DEF Operations
  <2> QED BY <2>1, <2>2 DEF Registers, Command, CommandRecord
<1>2. Renews \subseteq CommandRecord
  <2>1. Durations \subseteq Nat /\ 0 .. MaxExpected \subseteq Nat
    BY BoundsAssumption
  <2>2. "renew" \in Operations
    BY DEF Operations
  <2> QED BY <2>1, <2>2 DEF Renews, Command, CommandRecord
<1>3. Others \subseteq CommandRecord
  BY DEF Others, Command, CommandRecord, Operations
<1> QED BY <1>1, <1>2, <1>3 DEF Commands

\* Admission keeps the type of the agent map.
LEMMA AdmittedType ==
  ASSUME TypeOK, NEW a \in Agents, NEW i \in Instances, NEW owner \in Owners,
         NEW card \in Cards, NEW expiry \in Nat
  PROVE  Admitted(a, i, owner, card, expiry) \in [Agents -> AgentRecord]
<1>1. agents[a] \in AgentRecord
  BY DEF TypeOK
<1>2. Serving(expiry) \in InstanceRecord
  BY DEF Serving, InstanceRecord
<1>3. [agents[a].instances EXCEPT ![i] = Serving(expiry)] \in [Instances -> InstanceRecord]
  BY <1>1, <1>2 DEF AgentRecord
<1> QED BY <1>1, <1>3 DEF TypeOK, Admitted, AgentRecord, Lifecycles, Registered

-----------------------------------------------------------------------------
(* Type correctness.                                                        *)

\* One step keeps the types.
LEMMA TypeStep == TypeOK /\ [Next]_vars => TypeOK'
<1> SUFFICES ASSUME TypeOK, [Next]_vars PROVE TypeOK'
  OBVIOUS
<1> USE CommandTypes
<1>1. ASSUME NEW c \in Commands, ManageLapse(c) PROVE TypeOK'
  <2>1. c.id \in Identities
    BY DEF CommandRecord
  <2>2. Update(Retirement({c.id}, "expired"))
    BY <2>1, RetirementIsUpdate DEF Terminal
  <2> QED BY <1>1, <2>1, <2>2, PublishType DEF ManageLapse, Expire, Publish, Evidence, TypeOK
<1>2. ASSUME NEW c \in Registers, ManageRegister(c) PROVE TypeOK'
  <2>1. /\ c \in CommandRecord /\ c.card \in Cards /\ now + c.lease \in Nat
        /\ c.id[1] \in Agents /\ c.id[2] \in Instances
    BY DEF Registers, Command, CommandRecord, Identities, TypeOK
  <2>2. agents' \in [Agents -> AgentRecord]
    BY <1>2, <2>1, AdmittedType DEF ManageRegister, CommandRecord
  <2>3. ledger' \in [Identities -> ManagedRecord] /\ ledger'[c.id].state # "absent"
    BY <1>2, <2>1 DEF ManageRegister, CommandRecord, TypeOK, ManagedRecord, Serving,
       InstanceRecord, Live
  <2>4. receipts' \in [ReceiptKeys -> ReceiptRecord \cup {NoReceipt}]
    BY <1>2, <2>1, <2>3, RememberType DEF ManageRegister, CommandRecord
  <2> QED BY <1>2, <2>2, <2>3, <2>4 DEF ManageRegister, TypeOK
<1>3. ASSUME NEW c \in CommandRecord, NEW upd, Update(upd), c.id \in DOMAIN upd,
             Mutates(c, upd)
      PROVE  TypeOK'
  <2>1. ledger'[c.id] \in ManagedRecord /\ ledger'[c.id].state # "absent"
    BY <1>3, PublishType
    DEF Mutates, Publish, LedgerAfter, Moved, Update, CommandRecord, Live, Terminal
  <2>2. receipts' \in [ReceiptKeys -> ReceiptRecord \cup {NoReceipt}]
    BY <1>3, <2>1, RememberType DEF Mutates
  <2> QED BY <1>3, <2>2, PublishType DEF Mutates, Publish, TypeOK
<1>4. ASSUME NEW c \in Renews, ManageRenew(c) PROVE TypeOK'
  <2>1. c \in CommandRecord /\ c.id \in Identities /\ c.lease \in Nat
    BY DEF CommandRecord
  <2>2. Renewed(c) \in InstanceRecord
    BY <2>1 DEF TypeOK, ManagedRecord, Renewed, Longer, InstanceRecord
  <2>3. Update(Change(c.id, "active", Renewed(c)))
    BY <2>1, <2>2, ChangeIsUpdate DEF Live
  <2> QED BY <1>3, <1>4, <2>1, <2>3 DEF ManageRenew, Change
<1>5. ASSUME NEW c \in Others, ManageDrain(c) PROVE TypeOK'
  <2>1. c \in CommandRecord /\ c.id \in Identities
    BY DEF CommandRecord
  <2>2. Unhealthy(ledger[c.id].instance) \in InstanceRecord
    BY <2>1, UnhealthyType DEF TypeOK, ManagedRecord
  <2>3. Update(Change(c.id, "draining", Unhealthy(ledger[c.id].instance)))
    BY <2>1, <2>2, ChangeIsUpdate DEF Live
  <2> QED BY <1>3, <1>5, <2>1, <2>3 DEF ManageDrain, Change
<1>6. ASSUME NEW c \in Others, ManageRead(c) PROVE TypeOK'
  <2>1. c \in CommandRecord /\ c.id \in Identities
    BY DEF CommandRecord
  <2>2. ledger'[c.id] \in ManagedRecord /\ ledger'[c.id].state # "absent"
    BY <1>6, <2>1, ExecutedCommand DEF ManageRead, TypeOK, Live
  <2>3. receipts' \in [ReceiptKeys -> ReceiptRecord \cup {NoReceipt}]
    BY <1>6, <2>1, <2>2, RememberType DEF ManageRead
  <2> QED BY <1>6, <2>3 DEF ManageRead, TypeOK
<1>7. ASSUME NEW c \in Others, ManageTerminate(c) PROVE TypeOK'
  <2>1. c \in CommandRecord /\ c.id \in Identities
    BY DEF CommandRecord
  <2>2. Update(Retirement({c.id}, TerminalState(c.op)))
    BY <2>1, RetirementIsUpdate DEF TerminalState, Terminal
  <2> QED BY <1>3, <1>7, <2>1, <2>2 DEF ManageTerminate, Retirement
<1>8. CASE ExpireManagedInstances
  <2>1. Update(Retirement(LapsedIds, "expired"))
    BY RetirementIsUpdate DEF Terminal, LapsedIds
  <2>2. reported' \in [Identities -> Nat]
    BY <1>8 DEF ExpireManagedInstances, TypeOK
  <2> QED BY <1>8, <2>1, <2>2, PublishType DEF ExpireManagedInstances, Expire, Publish, TypeOK
<1>9. ASSUME NEW a \in Agents, NEW i \in Instances, ExternalFence(a, i) PROVE TypeOK'
  <2>1. Update(Retirement({<<a, i>>}, "revoked"))
    BY RetirementIsUpdate DEF Terminal, Identities
  <2> QED BY <1>9, <2>1, PublishType DEF ExternalFence, Publish, TypeOK
<1>10. ASSUME NEW a \in Agents, NEW i \in Instances, NEW o \in Owners, NEW card \in Cards,
              NEW d \in Durations, NEW t \in 0 .. now, RegisterInstance(a, i, o, card, d, t)
       PROVE  TypeOK'
  <2>1. t + d \in Nat
    BY BoundsAssumption DEF TypeOK
  <2> QED BY <1>10, <2>1, AdmittedType DEF RegisterInstance, TypeOK
<1>11. ASSUME NEW a \in Agents, NEW i \in Instances, NEW d \in Durations, NEW t \in 0 .. now,
              RenewLease(a, i, d, t)
       PROVE  TypeOK'
  <2>1. t + d \in Nat /\ agents[a] \in AgentRecord
    BY BoundsAssumption DEF TypeOK
  <2>2. [agents[a].instances EXCEPT ![i] = Serving(t + d)] \in [Instances -> InstanceRecord]
    BY <2>1 DEF AgentRecord, Serving, InstanceRecord
  <2>3. WithInstances(agents[a], [agents[a].instances EXCEPT ![i] = Serving(t + d)])
          \in AgentRecord
    BY <2>1, <2>2 DEF WithInstances, AgentRecord
  <2> QED BY <1>11, <2>3 DEF RenewLease, TypeOK
<1>12. ASSUME NEW t \in 0 .. now, ExpireInstances(t) PROVE TypeOK'
  <2> DEFINE swept == AgentsAfter(Retirement(LapsedIds, "expired"))
             Aged(a) == {i \in Instances : swept[a].instances[i].healthy
                                           /\ t >= swept[a].instances[i].lease}
             Stale == {a \in Agents : Aged(a) # {}}
  <2>1. Update(Retirement(LapsedIds, "expired"))
    BY RetirementIsUpdate DEF Terminal, LapsedIds
  <2>2. swept \in [Agents -> AgentRecord]
    BY <2>1, PublishType
  <2>3. IsFiniteSet(LapsedIds) /\ IsFiniteSet(Stale)
    BY FiniteIdentities, FiniteAssumption, FS_Subset DEF LapsedIds
  <2>4. Cardinality(LapsedIds) \in Nat /\ Cardinality(Stale) \in Nat
    BY <2>3, FS_CardinalityType
  <2> HIDE DEF swept
  <2>5. ASSUME NEW a \in Agents
        PROVE  WithInstances(swept[a],
                 [i \in Instances |-> IF i \in Aged(a) THEN Unhealthy(swept[a].instances[i])
                                      ELSE swept[a].instances[i]]) \in AgentRecord
    <3>1. swept[a] \in AgentRecord /\ \A i \in Instances : swept[a].instances[i] \in InstanceRecord
      BY <2>2 DEF AgentRecord
    <3>2. \A i \in Instances : Unhealthy(swept[a].instances[i]) \in InstanceRecord
      BY <3>1, UnhealthyType
    <3> HIDE DEF Aged
    <3> QED BY <3>1, <3>2 DEF WithInstances, AgentRecord
  <2>6. agents' \in [Agents -> AgentRecord]
    BY <1>12, <2>5 DEF ExpireInstances, swept
  <2>7. ledger' \in [Identities -> ManagedRecord]
    BY <1>12, <2>1, PublishType DEF ExpireInstances
  <2>8. revision' \in Nat
    BY <1>12, <2>4 DEF ExpireInstances, TypeOK, swept
  <2> QED BY <1>12, <2>6, <2>7, <2>8 DEF ExpireInstances, Evidence, LapsedIds, TypeOK
<1>13. ASSUME NEW a \in Agents, NEW lifecycle \in Lifecycles, SetLifecycle(a, lifecycle)
       PROVE  TypeOK'
  <2> DEFINE upd == Retirement(FencedBy(a, lifecycle),
                               IF lifecycle = "removed" THEN "removed" ELSE "revoked")
  <2>1. Update(upd)
    BY RetirementIsUpdate DEF Terminal, FencedBy, LiveOf
  <2>2. /\ LedgerAfter(upd) \in [Identities -> ManagedRecord]
        /\ AgentsAfter(upd) \in [Agents -> AgentRecord]
        /\ RevisionAfter(upd) \in Nat
    BY <2>1, PublishType
  <2>3. WithLifecycle(AgentsAfter(upd)[a], lifecycle) \in AgentRecord
    BY <2>2 DEF WithLifecycle, AgentRecord
  <2> QED BY <1>13, <2>2, <2>3 DEF SetLifecycle, TypeOK
<1>14. ASSUME NEW a \in Agents, Remove(a) PROVE TypeOK'
  <2>1. Update(Retirement(LiveOf(a), "removed"))
    BY RetirementIsUpdate DEF Terminal, LiveOf
  <2>2. Cardinality(LiveOf(a)) \in Nat
    BY FiniteIdentities, FS_Subset, FS_CardinalityType DEF LiveOf
  <2>3. NoAgent \in AgentRecord
    BY DEF NoAgent, AgentRecord, NoInstance, InstanceRecord
  <2> QED BY <1>14, <2>1, <2>2, <2>3, PublishType DEF Remove, TypeOK
<1>15. CASE Tick
  BY <1>15, BoundsAssumption DEF Tick, TypeOK
<1>16. CASE UNCHANGED vars
  BY <1>16 DEF vars, TypeOK
<1> QED BY <1>1, <1>2, <1>4, <1>5, <1>6, <1>7, <1>8, <1>9, <1>10, <1>11, <1>12, <1>13,
           <1>14, <1>15, <1>16 DEF Next, ManageInstance, Legacy

\* Every state of the catalog has the types its records declare.
THEOREM TypeCorrect == Spec => []TypeOK
<1>1. Init => TypeOK
  BY BoundsAssumption DEF Init, TypeOK, NoAgent, AgentRecord, NoInstance, InstanceRecord,
     Unmanaged, ManagedRecord
<1> QED BY <1>1, TypeStep, PTL DEF Spec

-----------------------------------------------------------------------------
(* The ledger and the agent map agree.                                      *)

\* LedgerMirrorsCatalog for one ledger record m and the agent record ag of
\* its identity, whose instance is i.
Mirrors(m, ag, i) ==
  /\ m.state \in Live =>
       /\ ag.lifecycle = "active" /\ ag.owner = m.owner
       /\ ag.instances[i] = m.instance
       /\ m.instance.healthy <=> m.state = "active"
  /\ m.state \in Terminal => ~ag.instances[i].healthy

\* Retiring live identities through a publication keeps the two in agreement.
LEMMA RetirementMirrors ==
  ASSUME TypeOK, LedgerMirrorsCatalog, NEW state \in Terminal,
         NEW ids \in SUBSET Identities, \A id \in ids : ledger[id].state \in Live,
         NEW a \in Agents, NEW i \in Instances
  PROVE  Mirrors(LedgerAfter(Retirement(ids, state))[<<a, i>>],
                 AgentsAfter(Retirement(ids, state))[a], i)
<1> DEFINE upd == Retirement(ids, state)
<1>1. <<a, i>> \in Identities /\ Mirrors(ledger[<<a, i>>], agents[a], i)
  BY DEF Identities, LedgerMirrorsCatalog, Mirrors
<1>2. ledger[<<a, i>>] \in ManagedRecord /\ agents[a] \in AgentRecord
  BY <1>1 DEF TypeOK
<1>3. CASE <<a, i>> \in ids
  <2>1. Registered(a)
    BY <1>1, <1>3 DEF Mirrors, Registered
  <2>2. LedgerAfter(upd)[<<a, i>>].state = state
    BY <1>1, <1>3 DEF LedgerAfter, Retirement, Moved
  <2>3. ~AgentsAfter(upd)[a].instances[i].healthy
    BY <1>3, <2>1 DEF AgentsAfter, Retirement, WithInstances, NoInstance, Unhealthy
  <2> QED BY <2>2, <2>3 DEF Mirrors, Live, Terminal
<1>4. CASE <<a, i>> \notin ids
  <2>1. LedgerAfter(upd)[<<a, i>>] = ledger[<<a, i>>]
    BY <1>1, <1>4 DEF LedgerAfter, Retirement
  <2>2. /\ AgentsAfter(upd)[a].instances[i] = agents[a].instances[i]
        /\ AgentsAfter(upd)[a].lifecycle = agents[a].lifecycle
        /\ AgentsAfter(upd)[a].owner = agents[a].owner
    BY <1>4 DEF AgentsAfter, Retirement, WithInstances
  <2> QED BY <1>1, <2>1, <2>2 DEF Mirrors
<1> QED BY <1>3, <1>4

\* So does a change of one live identity to another live state.
LEMMA ChangeMirrors ==
  ASSUME TypeOK, LedgerMirrorsCatalog, NEW id \in Identities, ledger[id].state \in Live,
         NEW state \in Live, NEW inst \in InstanceRecord, inst.healthy <=> state = "active",
         NEW a \in Agents, NEW i \in Instances
  PROVE  Mirrors(LedgerAfter(Change(id, state, inst))[<<a, i>>],
                 AgentsAfter(Change(id, state, inst))[a], i)
<1> DEFINE upd == Change(id, state, inst)
<1>1. <<a, i>> \in Identities /\ Mirrors(ledger[<<a, i>>], agents[a], i)
  BY DEF Identities, LedgerMirrorsCatalog, Mirrors
<1>2. ledger[<<a, i>>] \in ManagedRecord /\ agents[a] \in AgentRecord
  BY <1>1 DEF TypeOK
<1>3. CASE <<a, i>> = id
  <2>1. Registered(a)
    BY <1>1, <1>3 DEF Mirrors, Registered
  <2>2. /\ LedgerAfter(upd)[<<a, i>>].state = state
        /\ LedgerAfter(upd)[<<a, i>>].instance = inst
        /\ LedgerAfter(upd)[<<a, i>>].owner = ledger[<<a, i>>].owner
    BY <1>1, <1>3 DEF LedgerAfter, Change, Moved
  <2>3. /\ AgentsAfter(upd)[a].instances[i] = inst
        /\ AgentsAfter(upd)[a].lifecycle = agents[a].lifecycle
        /\ AgentsAfter(upd)[a].owner = agents[a].owner
    BY <1>3, <2>1 DEF AgentsAfter, Change, WithInstances, Live
  <2> QED BY <1>1, <1>3, <2>2, <2>3 DEF Mirrors, Live, Terminal
<1>4. CASE <<a, i>> # id
  <2>1. LedgerAfter(upd)[<<a, i>>] = ledger[<<a, i>>]
    BY <1>1, <1>4 DEF LedgerAfter, Change
  <2>2. /\ AgentsAfter(upd)[a].instances[i] = agents[a].instances[i]
        /\ AgentsAfter(upd)[a].lifecycle = agents[a].lifecycle
        /\ AgentsAfter(upd)[a].owner = agents[a].owner
    BY <1>4 DEF AgentsAfter, Change, WithInstances
  <2> QED BY <1>1, <2>1, <2>2 DEF Mirrors
<1> QED BY <1>3, <1>4

\* Admitting an instance that is not managed yet, under the owner of the live
\* siblings and without lifting a suspension, keeps every other grant mirrored.
LEMMA AdmittedMirrors ==
  ASSUME TypeOK, LedgerMirrorsCatalog, NEW b \in Agents, NEW j \in Instances,
         NEW owner, NEW card, NEW expiry,
         LiveOf(b) # {} => agents[b].owner = owner,
         NEW a \in Agents, NEW i \in Instances, <<a, i>> # <<b, j>>
  PROVE  Mirrors(ledger[<<a, i>>], Admitted(b, j, owner, card, expiry)[a], i)
<1>1. <<a, i>> \in Identities /\ Mirrors(ledger[<<a, i>>], agents[a], i)
  BY DEF Identities, LedgerMirrorsCatalog, Mirrors
<1>2. agents \in [Agents -> AgentRecord] /\ agents[b].instances \in [Instances -> InstanceRecord]
  BY DEF TypeOK, AgentRecord
<1>3. CASE a # b
  BY <1>1, <1>2, <1>3 DEF Admitted
<1>4. CASE a = b
  <2>1. Admitted(b, j, owner, card, expiry)[a].instances[i] = agents[a].instances[i]
    BY <1>2, <1>4 DEF Admitted
  <2>2. ledger[<<a, i>>].state \in Live =>
          /\ Admitted(b, j, owner, card, expiry)[a].lifecycle = "active"
          /\ Admitted(b, j, owner, card, expiry)[a].owner = agents[a].owner
    BY <1>1, <1>2, <1>4 DEF Admitted, Mirrors, Registered, LiveOf
  <2> QED BY <1>1, <2>1, <2>2 DEF Mirrors
<1> QED BY <1>3, <1>4

\* The agreement is inductive given the types: it needs no other history.
THEOREM LedgerMirrored == Spec => []LedgerMirrorsCatalog
<1>1. Init => LedgerMirrorsCatalog
  BY DEF Init, LedgerMirrorsCatalog, Unmanaged, Live, Terminal, Identities
<1>2. TypeOK /\ LedgerMirrorsCatalog /\ [Next]_vars => LedgerMirrorsCatalog'
  <2> SUFFICES ASSUME TypeOK, LedgerMirrorsCatalog, [Next]_vars,
                      NEW a \in Agents, NEW i \in Instances
               PROVE  Mirrors(ledger'[<<a, i>>], agents'[a], i)
    BY DEF LedgerMirrorsCatalog, Mirrors
  <2> USE CommandTypes
  <2>0. <<a, i>> \in Identities /\ Mirrors(ledger[<<a, i>>], agents[a], i)
    BY DEF Identities, LedgerMirrorsCatalog, Mirrors
  <2>1. ASSUME NEW c \in Commands, ManageLapse(c)
        PROVE  Mirrors(ledger'[<<a, i>>], agents'[a], i)
    <3>1. c.id \in Identities /\ ledger[c.id].state \in Live
      BY <2>1 DEF CommandRecord, ManageLapse, Lapsed
    <3> QED BY <2>1, <3>1, RetirementMirrors DEF ManageLapse, Expire, Publish, Terminal
  <2>2. ASSUME NEW c \in Registers, ManageRegister(c)
        PROVE  Mirrors(ledger'[<<a, i>>], agents'[a], i)
    <3>1. /\ c \in CommandRecord /\ c.op = "register" /\ c.id \in Identities
          /\ c.id[1] \in Agents /\ c.id[2] \in Instances /\ c.id = <<c.id[1], c.id[2]>>
      BY DEF Registers, Command, CommandRecord, Identities
    <3>2. RegisterCode(c) = "ok"
      BY <2>2, <3>1, ExecutedCommand DEF ManageRegister
    <3>3. Registered(c.id[1]) => /\ agents[c.id[1]].lifecycle = "active"
                                 /\ agents[c.id[1]].owner = c.owner
      BY <3>2 DEF RegisterCode
    <3>4. CASE <<a, i>> = c.id
      <4>1. ledger'[<<a, i>>].state = "active" /\ ledger'[<<a, i>>].owner = c.owner
            /\ ledger'[<<a, i>>].instance = Serving(now + c.lease)
        BY <2>0, <2>2, <3>4 DEF ManageRegister, TypeOK
      <4>2. /\ agents'[a].lifecycle = "active" /\ agents'[a].owner = c.owner
            /\ agents'[a].instances[i] = Serving(now + c.lease)
        BY <2>2, <3>1, <3>3, <3>4 DEF ManageRegister, Admitted, TypeOK, AgentRecord
      <4> QED BY <4>1, <4>2 DEF Mirrors, Serving, Terminal
    <3>5. CASE <<a, i>> # c.id
      <4>1. LiveOf(c.id[1]) # {} => agents[c.id[1]].owner = c.owner
        <5> SUFFICES ASSUME NEW id \in LiveOf(c.id[1]) PROVE Registered(c.id[1])
          BY <3>3
        <5> QED BY DEF LiveOf, Identities, LedgerMirrorsCatalog, Registered
      <4>2. ledger'[<<a, i>>] = ledger[<<a, i>>]
        BY <2>0, <2>2, <3>5 DEF ManageRegister, TypeOK
      <4> QED BY <2>2, <3>1, <3>5, <4>1, <4>2, AdmittedMirrors DEF ManageRegister
    <3> QED BY <3>4, <3>5
  <2>3. ASSUME NEW c \in Renews, ManageRenew(c)
        PROVE  Mirrors(ledger'[<<a, i>>], agents'[a], i)
    <3>1. /\ c \in CommandRecord /\ c.id \in Identities /\ ledger[c.id].state = "active"
          /\ ledger[c.id] \in ManagedRecord /\ c.lease \in Nat
      BY <2>3, ExecutedCommand DEF ManageRenew, Mutates, CommandRecord, TypeOK
    <3>2. Renewed(c) \in InstanceRecord
      BY <3>1 DEF TypeOK, ManagedRecord, Renewed, Longer, InstanceRecord
    <3>3. ledger[c.id].instance.healthy = TRUE
      BY <3>1 DEF LedgerMirrorsCatalog, Identities, Live, ManagedRecord, InstanceRecord
    <3>4. Renewed(c).healthy = TRUE
      BY <3>3 DEF Renewed
    <3> QED BY <2>3, <3>1, <3>2, <3>4, ChangeMirrors DEF ManageRenew, Mutates, Publish, Live
  <2>4. ASSUME NEW c \in Others, ManageDrain(c)
        PROVE  Mirrors(ledger'[<<a, i>>], agents'[a], i)
    <3>1. /\ c \in CommandRecord /\ c.id \in Identities /\ ledger[c.id].state \in Live
          /\ ledger[c.id] \in ManagedRecord
      BY <2>4, ExecutedCommand DEF ManageDrain, Mutates, CommandRecord, TypeOK
    <3>2. Unhealthy(ledger[c.id].instance) \in InstanceRecord
          /\ ~Unhealthy(ledger[c.id].instance).healthy
      BY <3>1, UnhealthyType DEF ManagedRecord
    <3> QED BY <2>4, <3>1, <3>2, ChangeMirrors DEF ManageDrain, Mutates, Publish, Live
  <2>5. ASSUME NEW c \in Others, ManageRead(c)
        PROVE  Mirrors(ledger'[<<a, i>>], agents'[a], i)
    BY <2>0, <2>5 DEF ManageRead
  <2>6. ASSUME NEW c \in Others, ManageTerminate(c)
        PROVE  Mirrors(ledger'[<<a, i>>], agents'[a], i)
    <3>1. /\ c \in CommandRecord /\ c.id \in Identities /\ ledger[c.id].state \in Live
          /\ TerminalState(c.op) \in Terminal
      BY <2>6, ExecutedCommand
      DEF ManageTerminate, Mutates, CommandRecord, TerminalOps, TerminalState, Terminal
    <3> QED BY <2>6, <3>1, RetirementMirrors DEF ManageTerminate, Mutates, Publish
  <2>7. CASE ExpireManagedInstances
    <3>1. LapsedIds \subseteq Identities /\ \A id \in LapsedIds : ledger[id].state \in Live
      BY DEF LapsedIds, Lapsed
    <3> QED BY <2>7, <3>1, RetirementMirrors DEF ExpireManagedInstances, Expire, Publish, Terminal
  <2>8. ASSUME NEW b \in Agents, NEW j \in Instances, ExternalFence(b, j)
        PROVE  Mirrors(ledger'[<<a, i>>], agents'[a], i)
    BY <2>8, RetirementMirrors DEF ExternalFence, Publish, Identities, Terminal
  <2>9. ASSUME NEW b \in Agents, NEW j \in Instances, NEW o \in Owners, NEW card \in Cards,
               NEW d \in Durations, NEW t \in 0 .. now, RegisterInstance(b, j, o, card, d, t)
        PROVE  Mirrors(ledger'[<<a, i>>], agents'[a], i)
    <3>1. CASE <<a, i>> = <<b, j>>
      BY <2>9, <3>1 DEF RegisterInstance, Managed, Mirrors, Live, Terminal
    <3>2. CASE <<a, i>> # <<b, j>>
      <4>1. LiveOf(b) # {} => agents[b].owner = o
        <5> SUFFICES ASSUME NEW id \in LiveOf(b) PROVE Registered(b)
          BY <2>9 DEF RegisterInstance, SiblingConflict
        <5> QED BY DEF LiveOf, Identities, LedgerMirrorsCatalog, Registered
      <4> QED BY <2>9, <3>2, <4>1, AdmittedMirrors DEF RegisterInstance
    <3> QED BY <3>1, <3>2
  <2>10. ASSUME NEW b \in Agents, NEW j \in Instances, NEW d \in Durations, NEW t \in 0 .. now,
                RenewLease(b, j, d, t)
         PROVE  Mirrors(ledger'[<<a, i>>], agents'[a], i)
    <3>1. CASE <<a, i>> = <<b, j>>
      BY <2>10, <3>1 DEF RenewLease, Managed, Mirrors, Live, Terminal
    <3>2. CASE <<a, i>> # <<b, j>>
      BY <2>0, <2>10, <3>2 DEF RenewLease, WithInstances, Mirrors, TypeOK, AgentRecord
    <3> QED BY <3>1, <3>2
  <2>11. ASSUME NEW t \in 0 .. now, ExpireInstances(t)
         PROVE  Mirrors(ledger'[<<a, i>>], agents'[a], i)
    <3> DEFINE upd == Retirement(LapsedIds, "expired")
               swept == AgentsAfter(upd)
               Aged == {j \in Instances : swept[a].instances[j].healthy
                                          /\ t >= swept[a].instances[j].lease}
    <3>1. LapsedIds \subseteq Identities /\ \A id \in LapsedIds : ledger[id].state \in Live
      BY DEF LapsedIds, Lapsed
    <3>2. Mirrors(LedgerAfter(upd)[<<a, i>>], swept[a], i)
      BY <3>1, RetirementMirrors DEF Terminal
    <3>3. ledger'[<<a, i>>] = LedgerAfter(upd)[<<a, i>>]
      BY <2>11 DEF ExpireInstances
    <3>4. /\ agents'[a].lifecycle = swept[a].lifecycle /\ agents'[a].owner = swept[a].owner
          /\ agents'[a].instances[i] = IF i \in Aged THEN Unhealthy(swept[a].instances[i])
                                       ELSE swept[a].instances[i]
      BY <2>11 DEF ExpireInstances, WithInstances
    <3>5. ledger'[<<a, i>>].state \in Live => i \notin Aged
      <4> SUFFICES ASSUME ledger'[<<a, i>>].state \in Live PROVE i \notin Aged
        OBVIOUS
      <4>1. <<a, i>> \notin LapsedIds
        BY <2>0, <3>3 DEF LedgerAfter, Retirement, Moved, Live
      <4>2. ledger'[<<a, i>>] = ledger[<<a, i>>]
        BY <2>0, <3>3, <4>1 DEF LedgerAfter, Retirement
      <4>3. now < ledger[<<a, i>>].instance.lease
        BY <2>0, <4>1, <4>2 DEF LapsedIds, Lapsed, TypeOK, ManagedRecord, InstanceRecord
      <4>4. swept[a].instances[i] = ledger[<<a, i>>].instance
        BY <3>2, <3>3, <4>2 DEF Mirrors
      <4>5. ledger[<<a, i>>].instance.lease \in Nat /\ now \in Nat
        BY <2>0, BoundsAssumption DEF TypeOK, ManagedRecord, InstanceRecord
      <4> QED BY <4>3, <4>4, <4>5
    <3>6. ~swept[a].instances[i].healthy => ~agents'[a].instances[i].healthy
      BY <3>4 DEF Unhealthy
    <3> HIDE DEF Aged, swept, upd
    <3> QED BY <3>2, <3>3, <3>4, <3>5, <3>6 DEF Mirrors
  <2>12. ASSUME NEW b \in Agents, NEW lifecycle \in Lifecycles, SetLifecycle(b, lifecycle)
         PROVE  Mirrors(ledger'[<<a, i>>], agents'[a], i)
    <3> DEFINE state == IF lifecycle = "removed" THEN "removed" ELSE "revoked"
               upd == Retirement(FencedBy(b, lifecycle), state)
    <3>1. /\ FencedBy(b, lifecycle) \subseteq Identities /\ state \in Terminal
          /\ \A id \in FencedBy(b, lifecycle) : ledger[id].state \in Live
      BY DEF FencedBy, LiveOf, Terminal
    <3>2. Mirrors(LedgerAfter(upd)[<<a, i>>], AgentsAfter(upd)[a], i)
      BY <3>1, RetirementMirrors
    <3>3. /\ ledger' = LedgerAfter(upd)
          /\ agents' = [AgentsAfter(upd) EXCEPT ![b] = WithLifecycle(AgentsAfter(upd)[b], lifecycle)]
      BY <2>12 DEF SetLifecycle
    <3>4. CASE a # b
      BY <3>2, <3>3, <3>4 DEF AgentsAfter
    <3>5. CASE a = b
      <4>1. /\ agents'[a].lifecycle = lifecycle /\ agents'[a].owner = AgentsAfter(upd)[a].owner
            /\ agents'[a].instances = AgentsAfter(upd)[a].instances
        BY <3>3, <3>5 DEF AgentsAfter, WithLifecycle
      <4>2. ledger'[<<a, i>>].state \in Live => lifecycle = "active"
        <5> SUFFICES ASSUME lifecycle # "active" PROVE ledger'[<<a, i>>].state \notin Live
          OBVIOUS
        <5>1. CASE <<a, i>> \in LiveOf(b)
          <6>1. LedgerAfter(upd)[<<a, i>>].state = state
            BY <2>0, <5>1 DEF FencedBy, LedgerAfter, Retirement, Moved
          <6> QED BY <3>3, <6>1 DEF Live
        <5>2. CASE <<a, i>> \notin LiveOf(b)
          <6>1. LedgerAfter(upd)[<<a, i>>] = ledger[<<a, i>>]
            BY <2>0, <5>2 DEF FencedBy, LedgerAfter, Retirement
          <6> QED BY <2>0, <3>3, <3>5, <5>2, <6>1 DEF LiveOf
        <5> QED BY <5>1, <5>2
      <4> HIDE DEF upd, state
      <4> QED BY <3>2, <3>3, <4>1, <4>2 DEF Mirrors
    <3> QED BY <3>4, <3>5
  <2>13. ASSUME NEW b \in Agents, Remove(b)
         PROVE  Mirrors(ledger'[<<a, i>>], agents'[a], i)
    <3> DEFINE upd == Retirement(LiveOf(b), "removed")
    <3>1. ledger' = LedgerAfter(upd) /\ agents' = [agents EXCEPT ![b] = NoAgent]
      BY <2>13 DEF Remove
    <3>2. CASE a # b
      <4>1. ledger'[<<a, i>>] = ledger[<<a, i>>] /\ agents'[a] = agents[a]
        BY <2>0, <3>1, <3>2 DEF LedgerAfter, Retirement, LiveOf, TypeOK
      <4> QED BY <2>0, <4>1
    <3>3. CASE a = b
      <4>1. ~agents'[a].instances[i].healthy
        BY <3>1, <3>3 DEF NoAgent, NoInstance, TypeOK
      <4>2. ledger'[<<a, i>>].state \notin Live
        <5>1. CASE <<a, i>> \in LiveOf(b)
          BY <2>0, <3>1, <5>1 DEF LedgerAfter, Retirement, Moved, Live
        <5>2. CASE <<a, i>> \notin LiveOf(b)
          BY <2>0, <3>1, <3>3, <5>2 DEF LedgerAfter, Retirement, LiveOf
        <5> QED BY <5>1, <5>2
      <4> QED BY <4>1, <4>2 DEF Mirrors
    <3> QED BY <3>2, <3>3
  <2>14. CASE Tick
    BY <2>0, <2>14 DEF Tick
  <2>15. CASE UNCHANGED vars
    BY <2>0, <2>15 DEF vars
  <2> QED BY <2>1, <2>2, <2>3, <2>4, <2>5, <2>6, <2>7, <2>8, <2>9, <2>10, <2>11, <2>12,
             <2>13, <2>14, <2>15 DEF Next, ManageInstance, Legacy
<1> QED BY <1>1, <1>2, TypeCorrect, PTL DEF Spec

\* Discovery never serves an identity whose authority ended: this follows from
\* the mirror at every time a snapshot may judge leases by.
THEOREM DiscoverySound == Spec => []DiscoveryServesGrants
<1>1. TypeOK /\ LedgerMirrorsCatalog => DiscoveryServesGrants
  <2> SUFFICES ASSUME TypeOK, LedgerMirrorsCatalog, NEW t \in 0 .. now,
                      NEW id \in Discoverable(t), Managed(id)
               PROVE  ledger[id].state = "active"
    BY DEF DiscoveryServesGrants
  <2>1. PICK a \in Agents, i \in Instances : id = <<a, i>>
    BY DEF Discoverable, Identities
  <2>2. id \in Identities /\ agents[a].instances[i].healthy
    BY <2>1 DEF Discoverable
  <2>3. ledger[id].state \in Live \cup Terminal
    BY <2>2 DEF TypeOK, ManagedRecord, Managed
  <2> QED BY <2>1, <2>2, <2>3 DEF LedgerMirrorsCatalog, Live
<1> QED BY <1>1, TypeCorrect, LedgerMirrored, PTL

-----------------------------------------------------------------------------
(* Every grant lives the life InstanceAuthority describes.                  *)

\* The abstract grant of an identity and the step it may take.
GrantOf(m) == [phase |-> m.state, generation |-> m.generation,
               lease |-> m.instance.lease, holder |-> m.principal]
LifeStep(old, new) ==
  \/ new = old
  \/ Authority!Grant(old, new) \/ Authority!Extend(old, new)
  \/ Authority!Drain(old, new) \/ Authority!Retire(old, new)

\* Retiring live identities is a step of each one's life.
LEMMA RetirementIsLife ==
  ASSUME TypeOK, NEW state \in Terminal,
         NEW ids \in SUBSET Identities, \A id \in ids : ledger[id].state \in Live,
         NEW id \in Identities
  PROVE  LifeStep(GrantOf(ledger[id]), GrantOf(LedgerAfter(Retirement(ids, state))[id]))
<1>1. CASE id \in ids
  <2>1. LedgerAfter(Retirement(ids, state))[id]
          = Moved(ledger[id], state, Unhealthy(ledger[id].instance))
    BY <1>1 DEF LedgerAfter, Retirement
  <2>2. ledger[id].state \in Live
    BY <1>1
  <2> QED BY <2>1, <2>2 DEF Moved, Unhealthy, GrantOf, LifeStep, Authority!Retire,
      Authority!Fenced, Authority!Live, Authority!Terminal, Live, Terminal
<1>2. CASE id \notin ids
  BY <1>2 DEF LedgerAfter, Retirement, LifeStep
<1> QED BY <1>1, <1>2

\* A renewal or a drain of an active identity is a step of its life.
LEMMA ChangeIsLife ==
  ASSUME TypeOK, NEW x \in Identities, ledger[x].state = "active",
         NEW state \in Live, NEW inst \in InstanceRecord,
         IF state = "active" THEN inst.lease >= ledger[x].instance.lease
         ELSE inst.lease = ledger[x].instance.lease,
         NEW id \in Identities
  PROVE  LifeStep(GrantOf(ledger[id]), GrantOf(LedgerAfter(Change(x, state, inst))[id]))
<1>1. CASE id = x
  <2>1. LedgerAfter(Change(x, state, inst))[id] = Moved(ledger[id], state, inst)
    BY <1>1 DEF LedgerAfter, Change
  <2> QED BY <1>1, <2>1 DEF Moved, GrantOf, LifeStep, Authority!Extend, Authority!Drain,
      Authority!Fenced, Live
<1>2. CASE id # x
  BY <1>2 DEF LedgerAfter, Change, LifeStep
<1> QED BY <1>1, <1>2

\* Every step is, for every identity, a step of its life.
LEMMA StepIsLife ==
  ASSUME TypeOK, [Next]_vars, NEW id \in Identities
  PROVE  LifeStep(GrantOf(ledger[id]), GrantOf(ledger'[id]))
<1> USE CommandTypes
<1>2. ASSUME NEW c \in Commands, ManageLapse(c)
      PROVE  LifeStep(GrantOf(ledger[id]), GrantOf(ledger'[id]))
  <2>1. c.id \in Identities /\ ledger[c.id].state \in Live
    BY <1>2 DEF CommandRecord, ManageLapse, Lapsed
  <2> QED BY <1>2, <2>1, RetirementIsLife DEF ManageLapse, Expire, Publish, Terminal
<1>3. ASSUME NEW c \in Registers, ManageRegister(c)
      PROVE  LifeStep(GrantOf(ledger[id]), GrantOf(ledger'[id]))
  <2>1. c \in CommandRecord /\ c.id \in Identities /\ c.op = "register"
    BY DEF Registers, Command, CommandRecord
  <2>2. ledger[c.id].state = "absent"
    BY <1>3, <2>1, ExecutedCommand DEF ManageRegister
  <2> QED BY <1>3, <2>1, <2>2 DEF ManageRegister, TypeOK, GrantOf, LifeStep, Authority!Grant
<1>4. ASSUME NEW c \in Renews, ManageRenew(c)
      PROVE  LifeStep(GrantOf(ledger[id]), GrantOf(ledger'[id]))
  <2>1. /\ c \in CommandRecord /\ c.id \in Identities /\ ledger[c.id].state = "active"
        /\ ledger[c.id] \in ManagedRecord /\ c.lease \in Nat
    BY <1>4, ExecutedCommand DEF ManageRenew, Mutates, CommandRecord, TypeOK
  <2>2. Renewed(c) \in InstanceRecord /\ Renewed(c).lease >= ledger[c.id].instance.lease
    BY <2>1 DEF TypeOK, ManagedRecord, Renewed, Longer, InstanceRecord
  <2> QED BY <1>4, <2>1, <2>2, ChangeIsLife DEF ManageRenew, Mutates, Publish, Live
<1>5. ASSUME NEW c \in Others, ManageDrain(c)
      PROVE  LifeStep(GrantOf(ledger[id]), GrantOf(ledger'[id]))
  <2>1. /\ c \in CommandRecord /\ c.id \in Identities /\ ledger[c.id].state = "active"
        /\ ledger[c.id] \in ManagedRecord
    BY <1>5, ExecutedCommand DEF ManageDrain, Mutates, CommandRecord, TypeOK, Live, Others, Command
  <2>2. Unhealthy(ledger[c.id].instance) \in InstanceRecord
        /\ Unhealthy(ledger[c.id].instance).lease = ledger[c.id].instance.lease
    BY <2>1, UnhealthyType DEF ManagedRecord
  <2> QED BY <1>5, <2>1, <2>2, ChangeIsLife DEF ManageDrain, Mutates, Publish, Live
<1>6. ASSUME NEW c \in Others, ManageTerminate(c)
      PROVE  LifeStep(GrantOf(ledger[id]), GrantOf(ledger'[id]))
  <2>1. /\ c \in CommandRecord /\ c.id \in Identities /\ ledger[c.id].state \in Live
        /\ TerminalState(c.op) \in Terminal
    BY <1>6, ExecutedCommand
    DEF ManageTerminate, Mutates, CommandRecord, TerminalOps, TerminalState, Terminal
  <2> QED BY <1>6, <2>1, RetirementIsLife DEF ManageTerminate, Mutates, Publish
<1>7. CASE ExpireManagedInstances \/ \E t \in 0 .. now : ExpireInstances(t)
  <2>1. LapsedIds \subseteq Identities /\ \A x \in LapsedIds : ledger[x].state \in Live
    BY DEF LapsedIds, Lapsed
  <2>2. ledger' = LedgerAfter(Retirement(LapsedIds, "expired"))
    BY <1>7 DEF ExpireManagedInstances, Expire, Publish, ExpireInstances
  <2> QED BY <2>1, <2>2, RetirementIsLife DEF Terminal
<1>8. ASSUME NEW a \in Agents, NEW i \in Instances, ExternalFence(a, i)
      PROVE  LifeStep(GrantOf(ledger[id]), GrantOf(ledger'[id]))
  BY <1>8, RetirementIsLife DEF ExternalFence, Publish, Identities, Terminal
<1>9. ASSUME NEW a \in Agents, NEW lifecycle \in Lifecycles, SetLifecycle(a, lifecycle)
      PROVE  LifeStep(GrantOf(ledger[id]), GrantOf(ledger'[id]))
  <2>1. FencedBy(a, lifecycle) \subseteq Identities
        /\ \A x \in FencedBy(a, lifecycle) : ledger[x].state \in Live
    BY DEF FencedBy, LiveOf
  <2> QED BY <1>9, <2>1, RetirementIsLife DEF SetLifecycle, Terminal
<1>10. ASSUME NEW a \in Agents, Remove(a)
       PROVE  LifeStep(GrantOf(ledger[id]), GrantOf(ledger'[id]))
  <2>1. LiveOf(a) \subseteq Identities /\ \A x \in LiveOf(a) : ledger[x].state \in Live
    BY DEF LiveOf
  <2> QED BY <1>10, <2>1, RetirementIsLife DEF Remove, Terminal
<1>11. CASE UNCHANGED ledger
  BY <1>11 DEF LifeStep
<1>12. ASSUME NEW c \in Others, ManageRead(c) PROVE UNCHANGED ledger
  BY <1>12 DEF ManageRead
<1>13. ASSUME NEW a \in Agents, NEW i \in Instances, NEW o \in Owners, NEW card \in Cards,
              NEW d \in Durations, NEW t \in 0 .. now, RegisterInstance(a, i, o, card, d, t)
       PROVE  UNCHANGED ledger
  BY <1>13 DEF RegisterInstance
<1>14. ASSUME NEW a \in Agents, NEW i \in Instances, NEW d \in Durations, NEW t \in 0 .. now,
              RenewLease(a, i, d, t)
       PROVE  UNCHANGED ledger
  BY <1>14 DEF RenewLease
<1>15. CASE Tick \/ UNCHANGED vars
  BY <1>11, <1>15 DEF Tick, vars
<1> QED BY <1>2, <1>3, <1>4, <1>5, <1>6, <1>7, <1>8, <1>9, <1>10, <1>11, <1>12, <1>13,
           <1>14, <1>15 DEF Next, ManageInstance, Legacy

\* The catalog implements InstanceAuthority: no call of either interface
\* revives a retired identity, shortens a lease it renews, changes the holder
\* or skips a generation.
THEOREM CatalogImplementsAuthority == Spec => GrantsFollowAuthority
<1>1. Init => Authority!Init
  BY DEF Init, Authority!Init, Grants, Unmanaged
<1>2. TypeOK /\ [Next]_vars => [Authority!Next]_Grants
  BY StepIsLife DEF Authority!Next, LifeStep, GrantOf, Grants
<1> QED BY <1>1, <1>2, TypeCorrect, PTL DEF Spec, GrantsFollowAuthority, Authority!Spec

-----------------------------------------------------------------------------
(* What each kind of step does to the ledger, the expiry evidence and the   *)
(* receipts.                                                                *)

\* The ledger records of all but the live identities in ids are kept.
Retires(ids, state) ==
  /\ \A id \in ids : ledger[id].state \in Live
  /\ \A id \in Identities :
       /\ id \in ids => ledger'[id].state = state
       /\ id \notin ids => ledger'[id] = ledger[id]

LEMMA RetirementRetires ==
  ASSUME NEW state \in Terminal, NEW ids \in SUBSET Identities,
         \A id \in ids : ledger[id].state \in Live,
         ledger' = LedgerAfter(Retirement(ids, state))
  PROVE  Retires(ids, state)
BY DEF Retires, LedgerAfter, Retirement, Moved

\* The step kinds.  Expiring: lapsed identities become expired, and the
\* evidence is kept or handed out.  Other: nothing becomes expired.
ExpiringStep ==
  \E ids \in SUBSET Identities :
    /\ Retires(ids, "expired")
    /\ UNCHANGED receipts
    /\ \/ pending' = Evidence(ids) /\ reported' = reported
       \/ /\ pending' = {}
          /\ reported' = [id \in Identities |->
               reported[id] + IF id \in Evidence(ids) THEN 1 ELSE 0]

FencingStep ==
  \E ids \in SUBSET Identities, state \in {"removed", "revoked"} :
    Retires(ids, state) /\ UNCHANGED <<receipts, pending, reported>>

\* A step of a managed command that executes and stores its receipt.
CommandStep ==
  \E c \in CommandRecord :
    /\ Applies(c) /\ Remember(c)
    /\ UNCHANGED <<pending, reported>>
    /\ \A id \in Identities : id # c.id => ledger'[id] = ledger[id]
    /\ ledger'[c.id].state # "expired" /\ ledger'[c.id].state # "absent"
    /\ c.op \in TerminalOps <=> ledger'[c.id].state \in {"removed", "revoked"}

\* Every step of the catalog is of one of these kinds.
LEMMA StepKinds ==
  ASSUME TypeOK, [Next]_vars
  PROVE  ExpiringStep \/ FencingStep \/ CommandStep \/ UNCHANGED <<ledger, receipts, pending, reported>>
<1> USE CommandTypes
<1>1. ASSUME NEW c \in Commands, ManageLapse(c) PROVE ExpiringStep
  <2>1. c.id \in Identities /\ ledger[c.id].state \in Live
    BY <1>1 DEF CommandRecord, ManageLapse, Lapsed
  <2>2. Retires({c.id}, "expired")
    BY <1>1, <2>1, RetirementRetires DEF ManageLapse, Expire, Publish, Terminal
  <2> QED BY <1>1, <2>1, <2>2 DEF ExpiringStep, ManageLapse
<1>2. ASSUME NEW c \in Registers, ManageRegister(c) PROVE CommandStep
  <2>1. c \in CommandRecord /\ c.id \in Identities /\ c.op = "register"
    BY DEF Registers, Command, CommandRecord
  <2>2. ledger'[c.id].state = "active" /\ \A id \in Identities : id # c.id => ledger'[id] = ledger[id]
    BY <1>2, <2>1 DEF ManageRegister, TypeOK
  <2> QED BY <1>2, <2>1, <2>2 DEF CommandStep, ManageRegister, TerminalOps
<1>3. ASSUME NEW c \in Renews, ManageRenew(c) PROVE CommandStep
  <2>1. c \in CommandRecord /\ c.id \in Identities /\ c.op = "renew"
    BY <1>3 DEF CommandRecord, ManageRenew
  <2>2. ledger'[c.id].state = "active" /\ \A id \in Identities : id # c.id => ledger'[id] = ledger[id]
    BY <1>3, <2>1 DEF ManageRenew, Mutates, Publish, LedgerAfter, Change, Moved
  <2> QED BY <1>3, <2>1, <2>2 DEF CommandStep, ManageRenew, Mutates, TerminalOps
<1>4. ASSUME NEW c \in Others, ManageDrain(c) PROVE CommandStep
  <2>1. c \in CommandRecord /\ c.id \in Identities /\ c.op = "drain"
    BY <1>4 DEF CommandRecord, ManageDrain
  <2>2. ledger'[c.id].state = "draining"
        /\ \A id \in Identities : id # c.id => ledger'[id] = ledger[id]
    BY <1>4, <2>1 DEF ManageDrain, Mutates, Publish, LedgerAfter, Change, Moved
  <2> QED BY <1>4, <2>1, <2>2 DEF CommandStep, ManageDrain, Mutates, TerminalOps
<1>5. ASSUME NEW c \in Others, ManageRead(c) PROVE CommandStep
  <2>1. c \in CommandRecord /\ c.id \in Identities /\ c.op \in {"drain", "status"}
    BY <1>5 DEF CommandRecord, ManageRead
  <2>2. ledger'[c.id].state \in Live /\ \A id \in Identities : ledger'[id] = ledger[id]
    BY <1>5, <2>1, ExecutedCommand DEF ManageRead
  <2> QED BY <1>5, <2>1, <2>2 DEF CommandStep, ManageRead, TerminalOps, Live
<1>6. ASSUME NEW c \in Others, ManageTerminate(c) PROVE CommandStep
  <2>1. c \in CommandRecord /\ c.id \in Identities /\ c.op \in TerminalOps
        /\ TerminalState(c.op) \in {"removed", "revoked"}
    BY <1>6 DEF CommandRecord, ManageTerminate, TerminalState
  <2>2. ledger'[c.id].state \in {"removed", "revoked"}
        /\ \A id \in Identities : id # c.id => ledger'[id] = ledger[id]
    BY <1>6, <2>1 DEF ManageTerminate, Mutates, Publish, LedgerAfter, Retirement, Moved
  <2> QED BY <1>6, <2>1, <2>2 DEF CommandStep, ManageTerminate, Mutates
<1>7. CASE ExpireManagedInstances \/ \E t \in 0 .. now : ExpireInstances(t)
  <2>1. LapsedIds \subseteq Identities /\ \A id \in LapsedIds : ledger[id].state \in Live
    BY DEF LapsedIds, Lapsed
  <2>2. ledger' = LedgerAfter(Retirement(LapsedIds, "expired"))
    BY <1>7 DEF ExpireManagedInstances, Expire, Publish, ExpireInstances
  <2>3. Retires(LapsedIds, "expired")
    BY <2>1, <2>2, RetirementRetires DEF Terminal
  <2> QED BY <1>7, <2>1, <2>3 DEF ExpiringStep, ExpireManagedInstances, ExpireInstances
<1>8. ASSUME NEW a \in Agents, NEW i \in Instances, ExternalFence(a, i) PROVE FencingStep
  <2>1. Retires({<<a, i>>}, "revoked")
    <3>1. {<<a, i>>} \subseteq Identities /\ \A id \in {<<a, i>>} : ledger[id].state \in Live
      BY <1>8 DEF ExternalFence, Identities
    <3>2. ledger' = LedgerAfter(Retirement({<<a, i>>}, "revoked"))
      BY <1>8 DEF ExternalFence, Publish
    <3> QED BY <3>1, <3>2, RetirementRetires DEF Terminal
  <2> QED BY <1>8, <2>1 DEF FencingStep, ExternalFence, Identities
<1>9. ASSUME NEW a \in Agents, NEW lifecycle \in Lifecycles, SetLifecycle(a, lifecycle)
      PROVE  FencingStep
  <2> DEFINE state == IF lifecycle = "removed" THEN "removed" ELSE "revoked"
  <2>1. FencedBy(a, lifecycle) \subseteq Identities /\ state \in {"removed", "revoked"}
        /\ \A id \in FencedBy(a, lifecycle) : ledger[id].state \in Live
    BY DEF FencedBy, LiveOf
  <2>2. Retires(FencedBy(a, lifecycle), state)
    BY <1>9, <2>1, RetirementRetires DEF SetLifecycle, Terminal
  <2> QED BY <1>9, <2>1, <2>2 DEF FencingStep, SetLifecycle
<1>10. ASSUME NEW a \in Agents, Remove(a) PROVE FencingStep
  <2>1. LiveOf(a) \subseteq Identities /\ \A id \in LiveOf(a) : ledger[id].state \in Live
    BY DEF LiveOf
  <2>2. Retires(LiveOf(a), "removed")
    BY <1>10, <2>1, RetirementRetires DEF Remove, Terminal
  <2> QED BY <1>10, <2>1, <2>2 DEF FencingStep, Remove
<1>11. ASSUME NEW a \in Agents, NEW i \in Instances, NEW o \in Owners, NEW card \in Cards,
              NEW d \in Durations, NEW t \in 0 .. now, RegisterInstance(a, i, o, card, d, t)
       PROVE  UNCHANGED <<ledger, receipts, pending, reported>>
  BY <1>11 DEF RegisterInstance
<1>12. ASSUME NEW a \in Agents, NEW i \in Instances, NEW d \in Durations, NEW t \in 0 .. now,
              RenewLease(a, i, d, t)
       PROVE  UNCHANGED <<ledger, receipts, pending, reported>>
  BY <1>12 DEF RenewLease
<1>13. CASE Tick \/ UNCHANGED vars
  BY <1>13 DEF Tick, vars
<1> QED BY <1>1, <1>2, <1>3, <1>4, <1>5, <1>6, <1>7, <1>8, <1>9, <1>10, <1>11, <1>12, <1>13
        DEF Next, ManageInstance, Legacy

-----------------------------------------------------------------------------
(* Expiry evidence.                                                         *)

\* No expiry goes unreported and none is reported twice, whichever of the
\* commands, lookups and sweeps noticed it.
THEOREM ExpiryReportedOnce == Spec => []ExpiryEvidenceOnce
<1>1. Init => ExpiryEvidenceOnce
  BY DEF Init, ExpiryEvidenceOnce, Unmanaged
<1>2. TypeOK /\ ExpiryEvidenceOnce /\ [Next]_vars => ExpiryEvidenceOnce'
  <2> SUFFICES ASSUME TypeOK, ExpiryEvidenceOnce, [Next]_vars, NEW id \in Identities
               PROVE  reported'[id] + (IF id \in pending' THEN 1 ELSE 0)
                        = IF ledger'[id].state = "expired" THEN 1 ELSE 0
    BY DEF ExpiryEvidenceOnce
  <2>1. /\ reported[id] \in Nat
        /\ reported[id] + (IF id \in pending THEN 1 ELSE 0)
             = IF ledger[id].state = "expired" THEN 1 ELSE 0
    BY DEF ExpiryEvidenceOnce, TypeOK
  <2>2. CASE ExpiringStep
    <3>1. PICK ids \in SUBSET Identities :
            /\ Retires(ids, "expired")
            /\ \/ pending' = Evidence(ids) /\ reported' = reported
               \/ /\ pending' = {}
                  /\ reported' = [x \in Identities |->
                       reported[x] + IF x \in Evidence(ids) THEN 1 ELSE 0]
      BY <2>2 DEF ExpiringStep
    <3>2. CASE id \in ids
      <4>1. ledger[id].state # "expired" /\ ledger'[id].state = "expired"
        BY <3>1, <3>2 DEF Retires, Live
      <4> QED BY <2>1, <3>1, <3>2, <4>1 DEF Evidence
    <3>3. CASE id \notin ids
      <4>1. ledger'[id] = ledger[id]
        BY <3>1, <3>3 DEF Retires
      <4> QED BY <2>1, <3>1, <3>3, <4>1 DEF Evidence
    <3> QED BY <3>2, <3>3
  <2>3. CASE FencingStep
    BY <2>1, <2>3 DEF FencingStep, Retires, Live
  <2>4. CASE CommandStep
    <3>1. PICK c \in CommandRecord :
            /\ Applies(c) /\ UNCHANGED <<pending, reported>>
            /\ \A x \in Identities : x # c.id => ledger'[x] = ledger[x]
            /\ ledger'[c.id].state # "expired"
      BY <2>4 DEF CommandStep
    <3>2. ledger[c.id].state # "expired"
      BY <3>1, ExecutedCommand DEF Live
    <3> QED BY <2>1, <3>1, <3>2
  <2>5. CASE UNCHANGED <<ledger, receipts, pending, reported>>
    BY <2>1, <2>5
  <2> QED BY <2>2, <2>3, <2>4, <2>5, StepKinds
<1> QED BY <1>1, <1>2, TypeCorrect, PTL DEF Spec

-----------------------------------------------------------------------------
(* The bound on the ledger.                                                 *)

\* A stored terminal receipt belongs to an identity that is removed or revoked.
TerminalReceiptsAreDead ==
  \A k \in Stored \ OrdinaryReceipts : ledger[receipts[k].id].state \in {"removed", "revoked"}

\* Identities and ordinary receipts stay within the capacity, and no identity
\* has two terminal receipts; the strengthening is that an identity with a
\* terminal receipt is dead, so no other terminal command can execute on it.
THEOREM ReceiptsBounded == Spec => []ReceiptBudget
<1> DEFINE IInv == ReceiptBudget /\ TerminalReceiptsAreDead
<1>0. Capacity \in Nat
  BY BoundsAssumption
<1>1. Init => IInv
  <2> SUFFICES ASSUME Init PROVE IInv
    OBVIOUS
  <2>1. Enrolled = {} /\ Stored = {} /\ OrdinaryReceipts = {}
    BY DEF Init, Enrolled, Managed, Unmanaged, Stored, OrdinaryReceipts
  <2> QED BY <1>0, <2>1, FS_EmptySet DEF ReceiptBudget, TerminalReceiptsAreDead
<1>2. TypeOK /\ IInv /\ [Next]_vars => IInv'
  <2> SUFFICES ASSUME TypeOK, ReceiptBudget, TerminalReceiptsAreDead, [Next]_vars
               PROVE  ReceiptBudget' /\ TerminalReceiptsAreDead'
    OBVIOUS
  <2>1. ASSUME NEW ids \in SUBSET Identities, NEW state \in Terminal, Retires(ids, state),
               UNCHANGED receipts
        PROVE  ReceiptBudget' /\ TerminalReceiptsAreDead'
    <3>1. Enrolled' = Enrolled
      BY <2>1 DEF Enrolled, Managed, Retires, Live, Terminal
    <3>2. Stored' = Stored /\ OrdinaryReceipts' = OrdinaryReceipts
      BY <2>1 DEF Stored, OrdinaryReceipts
    <3>3. ASSUME NEW k \in Stored \ OrdinaryReceipts
          PROVE  ledger'[receipts'[k].id].state \in {"removed", "revoked"}
      <4>1. receipts[k].id \in Identities
        BY <3>3 DEF Stored, TypeOK, ReceiptRecord
      <4>2. ledger[receipts[k].id].state \in {"removed", "revoked"}
        BY <3>3 DEF TerminalReceiptsAreDead
      <4> QED BY <2>1, <4>1, <4>2 DEF Retires, Live
    <3> QED BY <2>1, <3>1, <3>2, <3>3 DEF ReceiptBudget, TerminalReceiptsAreDead
  <2>2. CASE ExpiringStep
    BY <2>1, <2>2 DEF ExpiringStep, Terminal
  <2>3. CASE FencingStep
    BY <2>1, <2>3 DEF FencingStep, Terminal
  <2>4. CASE CommandStep
    <3>1. PICK c \in CommandRecord :
            /\ Applies(c) /\ Remember(c)
            /\ \A id \in Identities : id # c.id => ledger'[id] = ledger[id]
            /\ ledger'[c.id].state # "expired" /\ ledger'[c.id].state # "absent"
            /\ c.op \in TerminalOps <=> ledger'[c.id].state \in {"removed", "revoked"}
      BY <2>4 DEF CommandStep
    <3> DEFINE key == ReceiptKey(c)
    <3>2. key \in ReceiptKeys /\ receipts[key] = NoReceipt /\ c.id \in Identities
      BY <3>1, ExecutedCommand DEF ReceiptKey, ReceiptKeys, CommandRecord
    <3>3. /\ \A k \in ReceiptKeys : k # key => receipts'[k] = receipts[k]
          /\ receipts'[key] # NoReceipt
          /\ receipts'[key].id = c.id /\ receipts'[key].fingerprint.op = c.op
      <4>1. receipts' = [receipts EXCEPT ![key] =
              [fingerprint |-> Fingerprint(c), id |-> c.id, result |-> ResultOf(ledger'[c.id])]]
        BY <3>1 DEF Remember
      <4>2. /\ \A k \in ReceiptKeys : k # key => receipts'[k] = receipts[k]
            /\ receipts'[key] =
                 [fingerprint |-> Fingerprint(c), id |-> c.id, result |-> ResultOf(ledger'[c.id])]
        BY <3>2, <4>1 DEF TypeOK
      <4>3. Fingerprint(c).op = c.op
        BY DEF Fingerprint
      <4>4. receipts'[key] # NoReceipt
        <5>1. TypeOK'
          BY TypeStep
        <5>2. ledger'[c.id] \in ManagedRecord
          BY <3>2, <5>1 DEF TypeOK
        <5>3. ResultOf(ledger'[c.id]) \in ResultRecord /\ Fingerprint(c) \in FingerprintRecord
          BY <3>1, <5>2 DEF ResultOf, ResultRecord, ManagedRecord, InstanceRecord,
             Fingerprint, FingerprintRecord, CommandRecord
        <5>4. receipts'[key] \in ReceiptRecord
          BY <3>2, <4>2, <5>3 DEF ReceiptRecord
        <5> QED BY <5>4, NoReceiptAssumption
      <4> QED BY <4>2, <4>3, <4>4
    <3>4. Stored' = Stored \cup {key} /\ key \notin Stored
      BY <3>2, <3>3 DEF Stored
    <3>5. OrdinaryReceipts' = IF c.op \in TerminalOps THEN OrdinaryReceipts
                              ELSE OrdinaryReceipts \cup {key}
      BY <3>2, <3>3, <3>4 DEF OrdinaryReceipts, Stored
    <3>6. IsFiniteSet(Stored) /\ IsFiniteSet(OrdinaryReceipts) /\ IsFiniteSet(Enrolled)
          /\ Cardinality(OrdinaryReceipts) <= Cardinality(Stored)
      <4>1. OrdinaryReceipts \subseteq Stored /\ Stored \subseteq ReceiptKeys
            /\ Enrolled \subseteq Identities
        BY DEF OrdinaryReceipts, Stored, Enrolled
      <4> QED BY <4>1, FiniteIdentities, FS_Subset
    <3>7. Cardinality(OrdinaryReceipts') <= Capacity
      <4>1. CASE c.op \in TerminalOps
        BY <3>5, <4>1 DEF ReceiptBudget
      <4>2. CASE c.op \notin TerminalOps
        <5>1. ~(Cardinality(Stored) >= Capacity)
          BY <3>1, <4>2, ExecutedCommand
        <5>2. Cardinality(Stored) \in Nat /\ Cardinality(OrdinaryReceipts) \in Nat
          BY <3>6, FS_CardinalityType
        <5>3. ~(Cardinality(OrdinaryReceipts) >= Capacity)
          BY <1>0, <3>6, <5>1, <5>2
        <5> QED BY <1>0, <3>5, <3>6, <4>2, <5>3, OneMore
      <4> QED BY <4>1, <4>2
    <3>8. Cardinality(Enrolled') <= Capacity
      <4>1. CASE c.op = "register"
        <5>1. ~(Cardinality(Enrolled) >= Capacity)
          BY <3>1, <4>1, ExecutedCommand DEF RegisterCode
        <5>2. Enrolled' = Enrolled \cup {c.id}
          BY <3>1, <3>2 DEF Enrolled, Managed
        <5> QED BY <1>0, <3>6, <5>1, <5>2, OneMore
      <4>2. CASE c.op # "register"
        <5>1. ledger[c.id].state \in Live
          BY <3>1, <4>2, ExecutedCommand
        <5>2. Enrolled' = Enrolled
          BY <3>1, <5>1 DEF Enrolled, Managed, Live
        <5> QED BY <5>2 DEF ReceiptBudget
      <4> QED BY <4>1, <4>2
    <3>9. ASSUME NEW k \in Stored \ OrdinaryReceipts
          PROVE  /\ ledger[receipts[k].id].state \in {"removed", "revoked"}
                 /\ receipts[k].id # c.id
                 /\ receipts[k].id \in Identities
                 /\ receipts'[k] = receipts[k]
      <4>1. ledger[receipts[k].id].state \in {"removed", "revoked"}
        BY <3>9 DEF TerminalReceiptsAreDead
      <4>2. ledger[c.id].state \in Live \cup {"absent"}
        BY <3>1, ExecutedCommand
      <4>3. receipts[k].id \in Identities /\ k \in ReceiptKeys
        BY <3>9 DEF Stored, TypeOK, ReceiptRecord
      <4> QED BY <3>3, <3>4, <3>9, <4>1, <4>2, <4>3 DEF Live
    <3>10. (Stored \ OrdinaryReceipts)' = IF c.op \in TerminalOps
                                          THEN (Stored \ OrdinaryReceipts) \cup {key}
                                          ELSE Stored \ OrdinaryReceipts
      <4>1. key \notin OrdinaryReceipts
        BY <3>4 DEF OrdinaryReceipts
      <4> QED BY <3>4, <3>5, <4>1
    <3>11. TerminalReceiptsAreDead'
      <4> SUFFICES ASSUME NEW k \in (Stored \ OrdinaryReceipts)'
                   PROVE  ledger'[receipts'[k].id].state \in {"removed", "revoked"}
        BY DEF TerminalReceiptsAreDead
      <4>1. CASE k = key
        <5>1. c.op \in TerminalOps
          BY <3>4, <3>10, <4>1
        <5> QED BY <3>1, <3>3, <4>1, <5>1
      <4>2. CASE k # key
        BY <3>1, <3>9, <3>10, <4>2
      <4> QED BY <4>1, <4>2
    <3>12. \A j, k \in (Stored \ OrdinaryReceipts)' :
             receipts'[j].id = receipts'[k].id => j = k
      <4> SUFFICES ASSUME NEW j \in (Stored \ OrdinaryReceipts)',
                          NEW k \in (Stored \ OrdinaryReceipts)',
                          receipts'[j].id = receipts'[k].id
                   PROVE  j = k
        OBVIOUS
      <4> QED BY <3>3, <3>9, <3>10 DEF ReceiptBudget
    <3> QED BY <3>7, <3>8, <3>11, <3>12 DEF ReceiptBudget
  <2>5. CASE UNCHANGED <<ledger, receipts, pending, reported>>
    BY <2>5 DEF ReceiptBudget, TerminalReceiptsAreDead, Enrolled, Managed, Stored,
       OrdinaryReceipts
  <2> QED BY <2>2, <2>3, <2>4, <2>5, StepKinds
<1>3. IInv => ReceiptBudget
  OBVIOUS
<1> QED BY <1>1, <1>2, <1>3, TypeCorrect, PTL DEF Spec

-----------------------------------------------------------------------------
(* Retries and terminal commands.                                           *)

\* A stored result is never of a later generation than its identity, and of
\* the same generation only while it describes it.
ReceiptsCurrent ==
  \A k \in Stored :
    LET id == receipts[k].id  result == receipts[k].result IN
    /\ ledger[id].state # "absent"
    /\ result.generation <= ledger[id].generation
    /\ result.generation = ledger[id].generation => result = ResultOf(ledger[id])

\* A granted identity keeps its result or moves to the next generation.
LEMMA ResultMoves ==
  ASSUME TypeOK, [Next]_vars, NEW id \in Identities, ledger[id].state # "absent"
  PROVE  /\ ledger'[id].state # "absent"
         /\ \/ ResultOf(ledger'[id]) = ResultOf(ledger[id])
               /\ ledger'[id].generation = ledger[id].generation
            \/ ledger'[id].generation = ledger[id].generation + 1
<1>1. LifeStep(GrantOf(ledger[id]), GrantOf(ledger'[id]))
  BY StepIsLife
<1> QED BY <1>1 DEF LifeStep, GrantOf, ResultOf, Authority!Grant, Authority!Extend,
      Authority!Drain, Authority!Retire, Authority!Fenced, Authority!Live, Authority!Terminal

\* A retried command is answered with its stored result only while that still
\* describes the identity: the strengthening compares the generation of every
\* receipt with the ledger, whatever ended or moved the identity since.
THEOREM ReplaysAreTrue == Spec => []ReplayTellsTheTruth
<1>1. Init => ReceiptsCurrent
  BY DEF Init, ReceiptsCurrent, Stored
<1>2. TypeOK /\ ReceiptsCurrent /\ [Next]_vars => ReceiptsCurrent'
  <2> SUFFICES ASSUME TypeOK, ReceiptsCurrent, [Next]_vars, NEW k \in Stored'
               PROVE  /\ ledger'[receipts'[k].id].state # "absent"
                      /\ receipts'[k].result.generation <= ledger'[receipts'[k].id].generation
                      /\ receipts'[k].result.generation = ledger'[receipts'[k].id].generation
                           => receipts'[k].result = ResultOf(ledger'[receipts'[k].id])
    BY DEF ReceiptsCurrent
  <2> DEFINE id == receipts[k].id
             result == receipts[k].result
  <2>1. CASE k \in Stored /\ receipts'[k] = receipts[k]
    <3>1. /\ id \in Identities /\ ledger[id].generation \in Nat /\ result.generation \in Nat
          /\ ledger[id].state # "absent" /\ result.generation <= ledger[id].generation
          /\ result.generation = ledger[id].generation => result = ResultOf(ledger[id])
      BY <2>1 DEF TypeOK, Stored, ReceiptRecord, ResultRecord, ManagedRecord, ReceiptsCurrent
    <3>2. ledger'[id].state # "absent"
      BY <3>1, ResultMoves
    <3>3. CASE ResultOf(ledger'[id]) = ResultOf(ledger[id])
               /\ ledger'[id].generation = ledger[id].generation
      BY <2>1, <3>1, <3>2, <3>3
    <3>4. CASE ledger'[id].generation = ledger[id].generation + 1
      BY <2>1, <3>1, <3>2, <3>4
    <3> QED BY <3>1, <3>3, <3>4, ResultMoves
  <2>2. CASE UNCHANGED receipts
    BY <2>1, <2>2 DEF Stored
  <2>3. CASE CommandStep
    <3>1. PICK c \in CommandRecord :
            /\ Remember(c) /\ ledger'[c.id].state # "absent"
      BY <2>3 DEF CommandStep
    <3>2. c.id \in Identities /\ TypeOK'
      BY TypeStep DEF CommandRecord
    <3>3. CASE k = ReceiptKey(c)
      <4>1. receipts'[k].id = c.id /\ receipts'[k].result = ResultOf(ledger'[c.id])
        BY <3>1, <3>3 DEF Remember, Stored, TypeOK
      <4>2. receipts'[k].result.generation = ledger'[c.id].generation
            /\ ledger'[c.id].generation \in Nat
        BY <3>2, <4>1 DEF ResultOf, TypeOK, ManagedRecord
      <4> QED BY <3>1, <4>1, <4>2
    <3>4. CASE k # ReceiptKey(c)
      <4>1. receipts'[k] = receipts[k]
        BY <3>1, <3>4 DEF Remember, Stored, TypeOK
      <4> QED BY <2>1, <4>1 DEF Stored
    <3> QED BY <3>3, <3>4
  <2> QED BY <2>2, <2>3, StepKinds DEF ExpiringStep, FencingStep
<1>3. TypeOK /\ ReceiptsCurrent => ReplayTellsTheTruth
  <2> SUFFICES ASSUME TypeOK, ReceiptsCurrent, NEW c \in Commands, HasReceipt(c),
                      LookupCode(c) = "ok"
               PROVE  receipts[ReceiptKey(c)].result = ResultOf(ledger[c.id])
    BY DEF ReplayTellsTheTruth
  <2>1. ReceiptKey(c) \in Stored
    BY CommandTypes DEF HasReceipt, Stored, ReceiptKey, ReceiptKeys, CommandRecord
  <2>2. AuthError(c) # "ok" /\ StateError(c.id) # "ok"
    BY DEF AuthError, StateError
  <2>3. MatchesReceipt(c)
    BY <2>2 DEF LookupCode
  <2>4. receipts[ReceiptKey(c)].result.generation = ledger[c.id].generation
    BY <2>2 DEF LookupCode, AnswersTerminal
  <2> QED BY <2>1, <2>3, <2>4 DEF ReceiptsCurrent, MatchesReceipt
<1> QED BY <1>1, <1>2, <1>3, TypeCorrect, PTL DEF Spec

\* The owner of a live lease can always give it up: neither the full receipt
\* table nor any other check refuses its deregister at the current generation.
THEOREM TerminalsAdmitted == Spec => []TerminalNeverStarved
<1>1. TypeOK => TerminalNeverStarved
  <2> SUFFICES ASSUME TypeOK, NEW id \in Identities, ledger[id].state \in Live, ~Lapsed(id),
                      NEW key \in Keys
               PROVE  LET c == [op |-> "deregister", id |-> id, owner |-> ledger[id].owner,
                                principal |-> ledger[id].principal, key |-> key,
                                expected |-> ledger[id].generation, lease |-> 0,
                                handle |-> TRUE, card |-> NoCard]
                      IN  ~HasReceipt(c) => ManageCode(c) = "ok"
    BY DEF TerminalNeverStarved
  <2> DEFINE c == [op |-> "deregister", id |-> id, owner |-> ledger[id].owner,
                   principal |-> ledger[id].principal, key |-> key,
                   expected |-> ledger[id].generation, lease |-> 0,
                   handle |-> TRUE, card |-> NoCard]
  <2>1. c.id = id /\ c.op = "deregister" /\ c.expected = ledger[id].generation
    OBVIOUS
  <2>2. AuthError(c) = "none"
    BY DEF AuthError
  <2>3. StateError(id) = "none" /\ Managed(id)
    BY DEF StateError, Managed, Live
  <2>4. CheckManaged(c) = "none"
    BY <2>1, <2>2, <2>3 DEF CheckManaged
  <2>5. ~ReceiptsFull(c)
    BY <2>1 DEF ReceiptsFull, TerminalOps
  <2>6. ExecuteCode(c) = "ok"
    <3> HIDE DEF c
    <3> QED BY <2>1, <2>3, <2>4, <2>5 DEF ExecuteCode
  <2> QED BY <2>6 DEF ManageCode
<1> QED BY <1>1, TypeCorrect, PTL
============================================================================
