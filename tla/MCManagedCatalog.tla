-------------------------- MODULE MCManagedCatalog --------------------------
(* Values for model checking ManagedCatalog.                               *)
EXTENDS ManagedCatalog, TLC

CONSTANTS cardA, cardB

\* Both cards may be admitted first and may replace each other.
AllUpgrades == {NoCard, cardA, cardB} \X {cardA, cardB}
OneCard == {NoCard, cardA} \X {cardA}

MCSymmetry == Permutations(Instances) \cup Permutations(Keys)
============================================================================
