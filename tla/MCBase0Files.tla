---------------------------- MODULE MCBase0Files ----------------------------
(***************************************************************************)
(* base0fs's open files and record locks on small instances.  The two share  *)
(* no state, so a behaviour runs one of them.                                *)
(***************************************************************************)
EXTENDS Base0File, Base0Locks, TLC

VARIABLE part
mcVars == <<part, fileVars, lockingVars>>

\* The part that does not run has one initial state.
MCInit ==
    /\ part \in {"file", "locks"}
    /\ FileInit /\ LocksInit
    /\ part # "file" => isDir /\ lsize = 0 /\ \A f \in Files : append[f]

MCNext ==
    /\ UNCHANGED part
    /\ \/ part = "file" /\ FileNext /\ UNCHANGED lockingVars
       \/ part = "locks" /\ LocksNext /\ UNCHANGED fileVars

MCSpec == MCInit /\ [][MCNext]_mcVars /\ LocksFairness
=============================================================================
