------------------------ MODULE MCLofsPersistentFile ------------------------
(* Small instances of LofsPersistentFile for TLC. *)
EXTENDS LofsPersistentFile, TLC

\* Neither the slots nor the handles are named by any definition.
SlotSymmetry == Permutations(Files) \cup Permutations(Handles)
=============================================================================
