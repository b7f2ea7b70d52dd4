---------------------------- MODULE MCImageSelect ---------------------------
(***************************************************************************)
(* ImageSelect for TLC: two spellings of one parameter, and a key that     *)
(* stands for none.                                                        *)
(***************************************************************************)
EXTENDS ImageSelect, TLC

FilterKeys == {"name", "image_name", "tag"}

FilterParameter == [k \in {"name", "image_name"} |-> "ImageNames"]

Symmetry == Permutations(Images)
=============================================================================
