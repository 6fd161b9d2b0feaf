----------------------------- MODULE MCRunLease -----------------------------
(***************************************************************************)
(* Instances of RunLease for TLC.                                          *)
(***************************************************************************)
EXTENDS RunLease, TLC

\* Prunes are interchangeable, and so are runs.
PrunerSymmetry == Permutations(Pruners)
RunSymmetry == Permutations(Runs)
=============================================================================
