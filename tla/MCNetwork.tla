----------------------------- MODULE MCNetwork ------------------------------
(***************************************************************************)
(* Network for TLC.                                                        *)
(***************************************************************************)
EXTENDS Network, TLC

Symmetry == Permutations(Nets) \cup Permutations(SubnetIds)
=============================================================================
