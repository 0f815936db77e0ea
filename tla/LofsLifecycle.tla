---------------------------- MODULE LofsLifecycle ----------------------------
(***************************************************************************)
(* LofsModule and the lookup thread of LofsKthread in one module: tasks walk *)
(* mounts and ask the thread, and the module is unloaded when no mount pins  *)
(* it.  The pin is the real one here, not a guard on the shutdown.           *)
(***************************************************************************)
EXTENDS LofsModule, Sequences

CONSTANTS Clients, Worker, Rmmod, NoOne
ASSUME LifecycleThreads ==
    {Worker, Rmmod, NoOne} \cap Clients = {} /\ Worker # Rmmod /\ NoOne \notin {Worker, Rmmod}

VARIABLES
    ctlZombie, ctlMux, reqList, reqLive, reqFlags, reqMux, path, cpc, rc,
    wpc, wreq, wrc, shouldStop, rpc, rreq
kthreadVars == <<ctlZombie, ctlMux, reqList, reqLive, reqFlags, reqMux, path, cpc, rc,
                 wpc, wreq, wrc, shouldStop, rpc, rreq>>
vars == <<moduleVars, kthreadVars>>

Kthread == INSTANCE LofsKthread WITH ForcedUnload <- TRUE

TypeOK == ModuleTypeOK /\ Kthread!TypeOK

Init == ModuleInit /\ Kthread!Init

\* lofs_init_kthread has run and lofs_exit has not stopped the thread.
ThreadRuns == mod \in {"live", "exit"}
Inside(c) == cpc[c] # "idle"

\* A lookup happens within a mount, which cannot be unmounted meanwhile.  (One
\* before lofs_init_kthread would use a mutex and a list that are not there.)
Lookup(c) ==
    /\ ThreadRuns
    /\ \/ Kthread!ClientCall(c) /\ (\E m \in MountIds : mpc[m] = "mounted")
       \/ Kthread!ClientStep(c)
    /\ UNCHANGED moduleVars

UmountIdle(m) ==
    /\ Umount(m)
    /\ (\E c \in Clients : Inside(c)) => \E n \in MountIds \ {m} : mpc[n] = "mounted"
    /\ UNCHANGED kthreadVars

\* lofs_exit begins with lofs_destroy_kthread and goes on when that returns.
Exit == ExitBegin /\ Kthread!RmmodBegin
StopThread == mod = "exit" /\ Kthread!RmmodStep /\ UNCHANGED moduleVars
ThreadStopped == DestroyKthread /\ rpc = "done" /\ UNCHANGED kthreadVars

ThreadStep == ThreadRuns /\ Kthread!WorkerStep /\ UNCHANGED moduleVars

\* The module is gone, or the kernel has stopped.
Stopped ==
    /\ \/ mod = "absent"
       \/ rpc = "oops"
       \/ \E m \in MountIds : mpc[m] = "oops"
    /\ UNCHANGED vars

Next ==
    \/ (LoadStep \/ UnloadStep) /\ UNCHANGED kthreadVars
    \/ \E m \in MountIds : MountStep(m) /\ UNCHANGED kthreadVars
    \/ \E m \in MountIds : UmountIdle(m)
    \/ \E c \in Clients : Lookup(c)
    \/ ThreadStep \/ Exit \/ StopThread \/ ThreadStopped \/ Stopped

Spec == Init /\ [][Next]_vars

-----------------------------------------------------------------------------
\* The thread is shut down as if lofs_destroy_kthread waited for the lookups to
\* end: the mounts that pin the module see to it.  This is what LofsKthread
\* assumes where ForcedUnload is FALSE, and all that holds there holds here: the
\* shutdown meets no request that its client frees meanwhile, and kthread_stop
\* no thread that has returned by itself.
PinnedThread == INSTANCE LofsKthread WITH ForcedUnload <- FALSE
MountsPinTheThread == PinnedThread!Spec
=============================================================================
