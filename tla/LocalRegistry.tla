---------------------------- MODULE LocalRegistry ----------------------------
(***************************************************************************)
(* AgentRegistry: the agents one process registers, under one lock          *)
(* (core/registry).  Each operation is atomic.  The revision counter, read  *)
(* only as provenance, and card validation are left out.                    *)
(***************************************************************************)
EXTENDS Naturals

CONSTANTS Objects,       \* agent instances
          Names,         \* agent identifiers
          NameOf,        \* the identifier in the metadata of each instance
          Capabilities,
          CapsOf,        \* the capabilities of each instance
          NoAgent,
          Lifecycles,    \* the states a registration is put in
          MaxGeneration  \* bound: registrations of a behaviour

ASSUME RegistryAssumption ==
  /\ NameOf \in [Objects -> Names] /\ CapsOf \in [Objects -> SUBSET Capabilities]
  /\ NoAgent \notin Objects /\ MaxGeneration \in Nat
  /\ "active" \in Lifecycles /\ Lifecycles \subseteq {"active", "draining", "disabled"}

\* Names without a registration keep epoch 0 and the lifecycle "active".
VARIABLES
  agent,      \* the instance registered under a name
  epoch,      \* the generation of that registration
  lifecycle,
  healthy,    \* names whose registration is healthy
  removed,    \* tombstones
  generation  \* the last generation given out

registryVars == <<agent, epoch, lifecycle, healthy, removed, generation>>

Registered(n) == agent[n] # NoAgent
Servable(n) == Registered(n) /\ lifecycle[n] = "active" /\ n \in healthy

RegistryTypeOK ==
  /\ agent \in [Names -> Objects \cup {NoAgent}]
  /\ epoch \in [Names -> Nat] /\ generation \in Nat
  /\ lifecycle \in [Names -> Lifecycles]
  /\ healthy \subseteq Names /\ removed \subseteq Names

RegistryInit ==
  /\ agent = [n \in Names |-> NoAgent]
  /\ epoch = [n \in Names |-> 0] /\ generation = 0
  /\ lifecycle = [n \in Names |-> "active"]
  /\ healthy = {} /\ removed = {}

-----------------------------------------------------------------------------
\* The names whose agent, another one than o, provides a capability of o.
Conflicting(o) ==
  {n \in Names : Registered(n) /\ agent[n] # o /\ CapsOf[agent[n]] \cap CapsOf[o] # {}}

\* Mutant: a replacement inherits the generation of what it replaces.
InheritedGeneration(n) == IF Registered(n) THEN epoch[n] ELSE generation + 1
NextGeneration(n) == generation + 1

\* register: with replace, an exclusive registration displaces the agents it
\* conflicts with; they leave no tombstone.
Register(o, replace, exclusive) ==
  LET name == NameOf[o]
      displaced == IF exclusive THEN Conflicting(o) \ {name} ELSE {}
  IN
  /\ generation < MaxGeneration
  /\ Registered(name) => replace
  /\ exclusive /\ Conflicting(o) # {} => replace
  /\ generation' = NextGeneration(name)
  /\ agent' = [n \in Names |-> IF n = name THEN o
                               ELSE IF n \in displaced THEN NoAgent ELSE agent[n]]
  /\ epoch' = [n \in Names |-> IF n = name THEN NextGeneration(name)
                               ELSE IF n \in displaced THEN 0 ELSE epoch[n]]
  /\ lifecycle' = [n \in Names |-> IF n \in displaced \cup {name} THEN "active" ELSE lifecycle[n]]
  /\ healthy' = (healthy \ displaced) \cup {name}
  /\ removed' = removed \ {name}

\* set_lifecycle and set_health keep the generation.
SetLifecycle(n, state) ==
  /\ Registered(n)
  /\ lifecycle' = [lifecycle EXCEPT ![n] = state]
  /\ UNCHANGED <<agent, epoch, healthy, removed, generation>>

SetHealth(n, up) ==
  /\ Registered(n)
  /\ healthy' = IF up THEN healthy \cup {n} ELSE healthy \ {n}
  /\ UNCHANGED <<agent, epoch, lifecycle, removed, generation>>

\* remove, clear and set_lifecycle(REMOVED): what was accepted runs on.
Withdraw(gone) ==
  /\ gone # {}
  /\ agent' = [n \in Names |-> IF n \in gone THEN NoAgent ELSE agent[n]]
  /\ epoch' = [n \in Names |-> IF n \in gone THEN 0 ELSE epoch[n]]
  /\ lifecycle' = [n \in Names |-> IF n \in gone THEN "active" ELSE lifecycle[n]]
  /\ healthy' = healthy \ gone
  /\ removed' = removed \cup gone
  /\ UNCHANGED generation
Remove(n) == Registered(n) /\ Withdraw({n})
Clear == Withdraw({n \in Names : Registered(n)})

RegistryNext ==
  \/ \E o \in Objects, replace, exclusive \in BOOLEAN : Register(o, replace, exclusive)
  \/ \E n \in Names : \/ \E state \in Lifecycles : SetLifecycle(n, state)
                      \/ \E up \in BOOLEAN : SetHealth(n, up)
                      \/ Remove(n)
  \/ Clear
=============================================================================
