-------------------------- MODULE MCPanelLifecycle --------------------------
(* Small instances of PanelLifecycle for TLC.                              *)
EXTENDS PanelInvariant, TLC

CONSTANTS r1, r2

AllHA == [r \in Runs |-> "ha"]

Symmetry == Permutations(Workers) \cup Permutations(Handlers)
SymmetryWithRuns == Symmetry \cup Permutations(Runs)
=============================================================================
