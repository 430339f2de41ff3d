---------------------------- MODULE MCInvocation ----------------------------
(* A capability that delegates to a synchronous one, which two more           *)
(* invocations name, one of them in another run.                              *)
EXTENDS Invocation

CONSTANTS outer, inner, other, third, slow, fast, mine, theirs

Chained == [c \in Calls |-> IF c = inner THEN outer ELSE NoCall]
Named == [c \in Calls |-> IF c = outer THEN fast ELSE slow]
Runned == [c \in Calls |-> IF c = third THEN theirs ELSE mine]
============================================================================
