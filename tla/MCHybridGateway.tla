--------------------------- MODULE MCHybridGateway ---------------------------
(* Values for model checking HybridGateway.                                *)
EXTENDS HybridGateway, TLC

CONSTANTS cardA, cardB

\* Either card may be admitted, and may replace the other.
AllUpgrades == {NoCard, cardA, cardB} \X {cardA, cardB}
OneCard == {NoCard, cardA} \X {cardA}

MCSymmetry == Permutations(Instances) \cup Permutations(Calls)
============================================================================
