---------------------------- MODULE MCLofsKthread ----------------------------
(* Small instances of LofsKthread for TLC. *)
EXTENDS LofsKthreadInv, TLC

\* Clients are interchangeable: no definition names one of them.
ClientSymmetry == Permutations(Clients)
=============================================================================
