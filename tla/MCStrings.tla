----------------------------- MODULE MCStrings ------------------------------
(* Strings with the symmetries of its instances. *)
EXTENDS Strings, TLC

Symmetry == Permutations(Objects) \union Permutations(Bytes)
=============================================================================
