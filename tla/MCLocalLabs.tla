---------------------------- MODULE MCLocalLabs ----------------------------
(* Small instances of LocalLabs for TLC.                                   *)
EXTENDS LocalLabs, TLC

\* The labs meet in nothing but the ports: behaviours that use one lab (and
\* the k3d installation) are enough for what does not speak of ports.
OneLab == (\A c \in Clusters : portOf'[c] = 0) \/ (\A s \in Steves : portOf'[s] = 0)

Symmetry == Permutations(Tasks) \cup Permutations(Clusters)
=============================================================================
