----------------------------- MODULE MCA2AHost -----------------------------
(* Small instances of the A2A host.                                         *)
EXTENDS A2AHost, TLC

Interchangeable == Permutations(Requests)
============================================================================
