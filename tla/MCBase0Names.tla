---------------------------- MODULE MCBase0Names ----------------------------
(* base0fs's names on a small tree.                                         *)
EXTENDS Base0Names, TLC

Symmetry == Permutations(Tasks) \cup Permutations(Uppers) \cup Permutations(Lowers)
=============================================================================
