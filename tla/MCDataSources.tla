---------------------------- MODULE MCDataSources ----------------------------
(* Values for model checking DataSources.                                  *)
EXTENDS DataSources, TLC

CONSTANTS body1, body2

\* Two items together, and a newer body of the first one alone.
MCBatches == {(1 :> body1 @@ 2 :> body1), (1 :> body2)}

MCSymmetry == Permutations(Operators) \cup Permutations(Readers) \cup Permutations(Configs)
============================================================================
