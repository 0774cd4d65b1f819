-------------------------- MODULE MCRunRecordFiles --------------------------
(* Instances of RunRecordFiles for TLC. *)
EXTENDS RunRecordFiles, TLC

\* Neither the specification nor its invariants tell runs or tasks apart where all
\* runs are updated.
Symmetry == Permutations(Runs) \cup Permutations(Tasks)
=============================================================================
