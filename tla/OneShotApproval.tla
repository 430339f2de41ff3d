--------------------------- MODULE OneShotApproval ---------------------------
(***************************************************************************)
(* What an approval promises: it is asked for once, is granted only in time *)
(* and by every role it requires, ends in one way for good, and stands for  *)
(* at most one execution of the capability it protects.                     *)
(***************************************************************************)
CONSTANTS Approvals, Roles, RequiredRoles, Executions

VARIABLES
  standing,   \* none, asked, granted, spent, or void: denied, expired, canceled
  votes,      \* the roles that approved
  late,       \* approvals whose time has passed
  executions  \* the executions each approval was spent on

vars == <<standing, votes, late, executions>>

Init ==
  /\ standing = [a \in Approvals |-> "none"]
  /\ votes = [a \in Approvals |-> {}]
  /\ late = {}
  /\ executions = [a \in Approvals |-> {}]

Becomes(a, s) == standing' = [standing EXCEPT ![a] = s]

Ask(a) == standing[a] = "none" /\ Becomes(a, "asked") /\ UNCHANGED <<votes, late, executions>>

Lapse(a) == late' = late \cup {a} /\ UNCHANGED <<standing, votes, executions>>

\* The vote of the last role grants the approval, and may spend it as well.
Vote(a, r) ==
  /\ standing[a] = "asked" /\ a \notin late /\ r \in RequiredRoles[a]
  /\ votes' = [votes EXCEPT ![a] = @ \cup {r}]
  /\ IF RequiredRoles[a] \subseteq votes'[a]
     THEN Becomes(a, "granted") \/ Becomes(a, "spent")
     ELSE UNCHANGED standing
  /\ UNCHANGED <<late, executions>>

Void(a) == standing[a] = "asked" /\ Becomes(a, "void") /\ UNCHANGED <<votes, late, executions>>

Spend(a) ==
  standing[a] = "granted" /\ Becomes(a, "spent") /\ UNCHANGED <<votes, late, executions>>

Execute(a, x) ==
  /\ standing[a] = "spent" /\ executions[a] = {}
  /\ executions' = [executions EXCEPT ![a] = {x}]
  /\ UNCHANGED <<standing, votes, late>>

Next ==
  \E a \in Approvals :
    \/ Ask(a) \/ Lapse(a) \/ Void(a) \/ Spend(a)
    \/ \E r \in Roles : Vote(a, r)
    \/ \E x \in Executions : Execute(a, x)

Spec == Init /\ [][Next]_vars
============================================================================
