--------------------------- MODULE MCLofsLifecycle ---------------------------
(* Two mounts and two clients of one module, every build, for TLC. *)
EXTENDS LofsLifecycle, TLC

\* No definition names a mount or a client.
LifecycleSymmetry == Permutations(MountIds) \cup Permutations(Clients)
=============================================================================
