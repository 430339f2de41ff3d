-------------------------- MODULE InstanceAuthority --------------------------
(***************************************************************************)
(* What the catalog promises about managed identities: authority is granted *)
(* once, only ever to the principal that registered it, and ends for good.  *)
(* Each change is fenced by a new generation.  One operation may change     *)
(* several identities (fencing an agent, a sweep), each by one step of its  *)
(* life.                                                                    *)
(***************************************************************************)
EXTENDS Integers

CONSTANT Identities

\* grants[id] has a phase, the fencing generation, the time its lease runs
\* out, and the principal holding it.
VARIABLE grants

Live == {"active", "draining"}
Terminal == {"removed", "revoked", "expired"}

Init == \A id \in Identities : grants[id].phase = "absent" /\ grants[id].generation = 0

\* The only way in: a retired identity is never granted again.
Grant(old, new) == old.phase = "absent" /\ new.phase = "active" /\ new.generation = 1

\* Everything later keeps the holder and moves to the next generation.
Fenced(old, new) == new.generation = old.generation + 1 /\ new.holder = old.holder

\* A heartbeat never shortens the lease, and is over once draining began.
Extend(old, new) ==
  old.phase = "active" /\ new.phase = "active" /\ new.lease >= old.lease /\ Fenced(old, new)
Drain(old, new) ==
  old.phase = "active" /\ new.phase = "draining" /\ new.lease = old.lease /\ Fenced(old, new)
Retire(old, new) ==
  /\ old.phase \in Live /\ new.phase \in Terminal
  /\ new.lease = old.lease /\ Fenced(old, new)

Next ==
  \A id \in Identities :
    LET old == grants[id]  new == grants'[id] IN
    new = old \/ Grant(old, new) \/ Extend(old, new) \/ Drain(old, new) \/ Retire(old, new)

Spec == Init /\ [][Next]_grants
============================================================================
