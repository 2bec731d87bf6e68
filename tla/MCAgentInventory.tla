--------------------------- MODULE MCAgentInventory ---------------------------
(***************************************************************************)
(* Small instances of AgentInventory.                                      *)
(***************************************************************************)
EXTENDS AgentInventory, TLC

Symmetry == Permutations(Uids) \cup Permutations(Requests)

=============================================================================
