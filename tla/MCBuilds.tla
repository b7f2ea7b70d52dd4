------------------------------ MODULE MCBuilds ------------------------------
(***************************************************************************)
(* An instance of Builds for TLC: the builds are alike.                    *)
(***************************************************************************)
EXTENDS Builds, TLC

Symmetry == Permutations(Builders)
=============================================================================
