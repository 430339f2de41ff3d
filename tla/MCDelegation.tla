---------------------------- MODULE MCDelegation ----------------------------
(* Loops that the roots run side by side.  In one scene the registry stands  *)
(* still once an agent is there, only the roots have loops, and the one that *)
(* must delegate takes every turn it may.  In the other another agent may    *)
(* replace that one at any time, and the calls have loops too, all of them   *)
(* short.                                                                   *)
EXTENDS Delegation, TLC
CONSTANTS old, new, A, search, fetch, x, y, z,
          FewTurns, FewTools, FewSlots  \* bounds of the scene in which the registry moves

MCNameOf == [o \in Objects |-> A]
MCCapsOf == [o \in Objects |-> Capabilities]
MCSchemaOf == [o \in Objects |-> "schema"]
MCRootFrame == <<"root", "root">>
MCSymmetry == Permutations(Objects) \cup Permutations(Capabilities) \cup Permutations(CallIds)

VARIABLE scene

\* The bounds of a short loop, whose model calls consume one token each.
Short(s) == turns'[s] <= FewTurns /\ spent'[s] <= turns'[s] + ToolTokens * Len(results'[s])

\* Before any loop: the one time the registry of the scene "still" changes.
Before == generation = 0 /\ \A s \in Slots : phase[s] = IF s \in Roots THEN "working" ELSE "free"
Still ==
  /\ \/ \E s \in Roots : Step(s)
     \/ \E s \in Slots \ Roots : Ends(s) \/ Interrupted(s)
     \/ Cancel \/ DeadlinePasses
     \/ Before /\ RegistryChanges
  /\ \A s \in Roots \ Required : Short(s)

\* The IDs in use: a loop compares its own only, so loops of one call share one.
Named == UNION {Seen(s) : s \in Slots}
         \cup {picked[s].id : s \in {t \in Slots : phase[t] \in {"accepted", "waiting"}}}
\* What loops do with nothing left to call is in the other scene.
Decides(s) == phase'[s] # phase[s] /\ phase'[s] \in {"model", "accepted"}
Moving ==
  /\ Next
  /\ Cardinality(Named') <= 1
  /\ \A s \in Slots : /\ Short(s) /\ tools'[s] <= FewTools
                      /\ s > FewSlots => phase'[s] = "free"
                      /\ Decides(s) => phase[FewSlots] = "free"
                      /\ phase'[s] = "model" => box'[s] # {}

MCNext ==
  /\ (scene = "still" /\ Still) \/ (scene = "moving" /\ Moving)
  /\ ~(cancelled' /\ late')
  /\ UNCHANGED scene

MCInit == Init /\ scene \in {"still", "moving"}
MCSpec == MCInit /\ [][MCNext]_<<scene, vars>>
=============================================================================
