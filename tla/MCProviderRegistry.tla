------------------------ MODULE MCProviderRegistry ------------------------
(* Small instances of the provider registry.                                *)
EXTENDS ProviderRegistry, TLC

Identities == Permutations(Refs) \cup Permutations(Clients) \cup Permutations(Users)
              \cup Permutations(Constructors)
============================================================================
