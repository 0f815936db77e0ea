----------------------------- MODULE LofsKthread -----------------------------
(***************************************************************************)
(* lofs/kthread.c: the kernel thread that looks up managed (automounted)    *)
(* dentries on behalf of the tasks that walk a lofs mount, and the shutdown  *)
(* that stops it.                                                            *)
(*                                                                           *)
(* Three kinds of threads take steps: the Clients (lofs_lookup_managed), the *)
(* Worker (lofs_threadfn) and the Rmmod task (lofs_destroy_kthread).  A      *)
(* client has at most one request, which lives on its own; the request is    *)
(* therefore named by its client.  Steps are cut where another thread can    *)
(* see the difference: lock and unlock, each store to req->flags (which      *)
(* wait_event reads with no lock), each wake_up, each read through a pointer *)
(* to a request that may be gone.                                            *)
(***************************************************************************)
EXTENDS Integers, Sequences

CONSTANTS
    Clients,        \* tasks that call lofs_lookup_managed
    Worker,         \* the lofs-kthread task
    Rmmod,          \* the task that runs lofs_exit
    NoOne,          \* no thread / no request
    ForcedUnload    \* TRUE: lofs_exit may start while lookups are in flight
                    \* (rmmod -f); FALSE: a mount pins the module

ASSUME ThreadsAreDistinct ==
    /\ Worker \notin Clients
    /\ Rmmod \notin Clients
    /\ NoOne \notin Clients
    /\ Worker # Rmmod
    /\ NoOne \notin {Worker, Rmmod}

ASSUME ForcedUnloadIsBoolean == ForcedUnload \in BOOLEAN

VARIABLES
    ctlZombie,      \* lofs_kthread_ctl.flags & LOFS_KTHREAD_ZOMBIE
    ctlMux,         \* holder of lofs_kthread_ctl.mux
    reqList,        \* lofs_kthread_ctl.req_list
    reqLive,        \* reqLive[c]: c's lofs_lookup_req is allocated
    reqFlags,       \* reqFlags[c]: its flags
    reqMux,         \* reqMux[c]: holder of its mux
    path,           \* path[c]: *req->p, "old" or "new" once kern_path filled it
    cpc,            \* where each client is in lofs_lookup_managed
    rc,             \* rc[c]: the client's return code, "none" before
    wpc,            \* where the worker is in lofs_threadfn
    wreq,           \* the worker's req
    wrc,            \* the worker's rc: did kern_path fail?
    shouldStop,     \* kthread_should_stop()
    rpc,            \* where Rmmod is in lofs_destroy_kthread
    rreq            \* Rmmod's loop cursor

ctlVars == <<ctlZombie, ctlMux, reqList, shouldStop>>
reqVars == <<reqLive, reqFlags, reqMux, path>>
clientVars == <<cpc, rc>>
workerVars == <<wpc, wreq, wrc>>
rmmodVars == <<rpc, rreq>>
vars == <<ctlVars, reqVars, clientVars, workerVars, rmmodVars>>

Threads == Clients \cup {Worker, Rmmod}
Flags == {"PROCESSED", "ZOMBIE", "ERROR"}
Codes == {"ok", "enoent", "eio", "enomem"}
ClientPcs == {"idle", "alloc", "lockctl", "submit", "wake", "wait", "sleep",
              "lockreq", "read", "free", "returned"}
WorkerPcs == {"wait", "sleep", "lockctl", "check", "loop", "lockreq", "lookup",
              "processed", "error", "wake", "unlock", "exited"}
RmmodPcs == {"loaded", "lockctl", "mark", "lockreq", "flag", "wake", "unlock",
             "next", "unlockctl", "stop", "join", "done", "oops"}

TypeOK ==
    /\ ctlZombie \in BOOLEAN
    /\ ctlMux \in Threads \cup {NoOne}
    /\ reqList \in Seq(Clients)
    /\ reqLive \in [Clients -> BOOLEAN]
    /\ reqFlags \in [Clients -> SUBSET Flags]
    /\ reqMux \in [Clients -> Threads \cup {NoOne}]
    /\ path \in [Clients -> {"old", "new"}]
    /\ cpc \in [Clients -> ClientPcs]
    /\ rc \in [Clients -> Codes \cup {"none"}]
    /\ wpc \in WorkerPcs
    /\ wreq \in Clients \cup {NoOne}
    /\ wrc \in BOOLEAN
    /\ shouldStop \in BOOLEAN
    /\ rpc \in RmmodPcs
    /\ rreq \in Clients \cup {NoOne}

\* lofs_init_kthread, and kthread_run's new thread at its first wait.
Init ==
    /\ ctlZombie = FALSE
    /\ ctlMux = NoOne
    /\ reqList = <<>>
    /\ reqLive = [c \in Clients |-> FALSE]
    /\ reqFlags = [c \in Clients |-> {}]
    /\ reqMux = [c \in Clients |-> NoOne]
    /\ path = [c \in Clients |-> "old"]
    /\ cpc = [c \in Clients |-> "idle"]
    /\ rc = [c \in Clients |-> "none"]
    /\ wpc = "wait"
    /\ wreq = NoOne
    /\ wrc = FALSE
    /\ shouldStop = FALSE
    /\ rpc = "loaded"
    /\ rreq = NoOne

-----------------------------------------------------------------------------
(* The kernel's mutexes and wait queues, as this file uses them.            *)

LockCtl(t) == ctlMux = NoOne /\ ctlMux' = t
UnlockCtl == ctlMux' = NoOne
LockReq(t, c) == reqMux[c] = NoOne /\ reqMux' = [reqMux EXCEPT ![c] = t]
UnlockReq(c) == reqMux' = [reqMux EXCEPT ![c] = NoOne]

\* wake_up: a sleeping waiter goes back to test its condition.
WakeWorker == wpc' = IF wpc = "sleep" THEN "wait" ELSE wpc
WakeClient(c) ==
    cpc' = IF cpc[c] = "sleep" THEN [cpc EXCEPT ![c] = "wait"] ELSE cpc

SetFlag(c, f) == reqFlags' = [reqFlags EXCEPT ![c] = @ \cup {f}]

ClientAt(c, here, there) ==
    /\ cpc[c] = here
    /\ cpc' = [cpc EXCEPT ![c] = there]
WorkerAt(here, there) == wpc = here /\ wpc' = there
RmmodAt(here, there) == rpc = here /\ rpc' = there

-----------------------------------------------------------------------------
(* lofs_lookup_managed                                                      *)

\* A task reaches a managed dentry through a lofs mount; while there is a
\* mount, lofs_exit runs only if the unload is forced.
ClientCall(c) ==
    /\ rpc = "loaded" \/ ForcedUnload
    /\ ClientAt(c, "idle", "alloc")
    /\ UNCHANGED <<ctlVars, reqVars, rc, workerVars, rmmodVars>>

ClientAlloc(c) ==
    /\ ClientAt(c, "alloc", "lockctl")
    /\ reqLive' = [reqLive EXCEPT ![c] = TRUE]
    /\ reqFlags' = [reqFlags EXCEPT ![c] = {}]
    /\ reqMux' = [reqMux EXCEPT ![c] = NoOne]
    /\ UNCHANGED <<ctlVars, path, rc, workerVars, rmmodVars>>

ClientAllocFails(c) ==
    /\ ClientAt(c, "alloc", "returned")
    /\ rc' = [rc EXCEPT ![c] = "enomem"]
    /\ UNCHANGED <<ctlVars, reqVars, workerVars, rmmodVars>>

ClientLockCtl(c) ==
    /\ ClientAt(c, "lockctl", "submit")
    /\ LockCtl(c)
    /\ UNCHANGED <<ctlZombie, reqList, shouldStop, reqVars, rc, workerVars, rmmodVars>>

\* Mutant: the request is linked without looking at the zombie flag.
ClientSubmitAlways(c) ==
    /\ ClientAt(c, "submit", "wake")
    /\ reqList' = Append(reqList, c)
    /\ UnlockCtl
    /\ UNCHANGED <<ctlZombie, shouldStop, reqVars, rc, workerVars, rmmodVars>>

ClientSubmit(c) ==
    /\ ~ctlZombie
    /\ ClientAt(c, "submit", "wake")
    /\ reqList' = Append(reqList, c)
    /\ UnlockCtl
    /\ UNCHANGED <<ctlZombie, shouldStop, reqVars, rc, workerVars, rmmodVars>>

ClientTurnedAway(c) ==
    /\ ctlZombie
    /\ ClientAt(c, "submit", "free")
    /\ rc' = [rc EXCEPT ![c] = "eio"]
    /\ UnlockCtl
    /\ UNCHANGED <<ctlZombie, reqList, shouldStop, reqVars, workerVars, rmmodVars>>

\* Mutant: the request is linked and nobody wakes the worker.
ClientDoesNotWake(c) ==
    /\ ClientAt(c, "wake", "wait")
    /\ UNCHANGED <<ctlVars, reqVars, rc, workerVars, rmmodVars>>

ClientWake(c) ==
    /\ ClientAt(c, "wake", "wait")
    /\ WakeWorker
    /\ UNCHANGED <<ctlVars, reqVars, rc, wreq, wrc, rmmodVars>>

\* wait_event: test the condition with no lock held, sleep if it is false.
ClientWait(c) ==
    /\ \/ reqFlags[c] # {} /\ ClientAt(c, "wait", "lockreq")
       \/ reqFlags[c] = {} /\ ClientAt(c, "wait", "sleep")
    /\ UNCHANGED <<ctlVars, reqVars, rc, workerVars, rmmodVars>>

\* Mutant: the client reads the flags without req->mux.
ClientReadsUnlocked(c) ==
    /\ ClientAt(c, "lockreq", "read")
    /\ UNCHANGED <<ctlVars, reqVars, rc, workerVars, rmmodVars>>

ClientLockReq(c) ==
    /\ ClientAt(c, "lockreq", "read")
    /\ LockReq(c, c)
    /\ UNCHANGED <<ctlVars, reqLive, reqFlags, path, rc, workerVars, rmmodVars>>

\* Mutant: LOFS_REQ_ERROR is not looked at.
CodeWithoutError(flags) == IF "ZOMBIE" \in flags THEN "eio" ELSE "ok"

\* The code the flags stand for.
CodeOf(flags) ==
    IF "ZOMBIE" \in flags THEN "eio"
    ELSE IF "ERROR" \in flags THEN "enoent" ELSE "ok"

ClientRead(c) ==
    /\ ClientAt(c, "read", "free")
    /\ rc' = [rc EXCEPT ![c] = CodeOf(reqFlags[c])]
    /\ UnlockReq(c)
    /\ UNCHANGED <<ctlVars, reqLive, reqFlags, path, workerVars, rmmodVars>>

ClientFree(c) ==
    /\ ClientAt(c, "free", "returned")
    /\ reqLive' = [reqLive EXCEPT ![c] = FALSE]
    /\ UNCHANGED <<ctlVars, reqFlags, reqMux, path, rc, workerVars, rmmodVars>>

\* The caller, lofs_follow_down, takes the result and goes on.
ClientReturn(c) ==
    /\ ClientAt(c, "returned", "idle")
    /\ rc' = [rc EXCEPT ![c] = "none"]
    /\ path' = [path EXCEPT ![c] = "old"]
    /\ UNCHANGED <<ctlVars, reqLive, reqFlags, reqMux, workerVars, rmmodVars>>

ClientStep(c) ==
    \/ ClientAlloc(c) \/ ClientAllocFails(c)
    \/ ClientLockCtl(c) \/ ClientSubmit(c) \/ ClientTurnedAway(c)
    \/ ClientWake(c) \/ ClientWait(c) \/ ClientLockReq(c)
    \/ ClientRead(c) \/ ClientFree(c) \/ ClientReturn(c)

-----------------------------------------------------------------------------
(* lofs_threadfn                                                            *)

\* Mutant: kthread_should_stop is missing from the wait condition.
WorkerConditionNoStop == reqList # <<>>

WorkerCondition == reqList # <<>> \/ shouldStop

WorkerWait ==
    /\ \/ WorkerCondition /\ WorkerAt("wait", "lockctl")
       \/ ~WorkerCondition /\ WorkerAt("wait", "sleep")
    /\ UNCHANGED <<ctlVars, reqVars, clientVars, wreq, wrc, rmmodVars>>

WorkerLockCtl ==
    /\ WorkerAt("lockctl", "check")
    /\ LockCtl(Worker)
    /\ UNCHANGED <<ctlZombie, reqList, shouldStop, reqVars, clientVars, wreq, wrc, rmmodVars>>

WorkerCheck ==
    /\ ~ctlZombie
    /\ WorkerAt("check", "loop")
    /\ UNCHANGED <<ctlVars, reqVars, clientVars, wreq, wrc, rmmodVars>>

WorkerExit ==
    /\ ctlZombie
    /\ WorkerAt("check", "exited")
    /\ UnlockCtl
    /\ UNCHANGED <<ctlZombie, reqList, shouldStop, reqVars, clientVars, wreq, wrc, rmmodVars>>

WorkerFirst ==
    /\ reqList # <<>>
    /\ WorkerAt("loop", "lockreq")
    /\ wreq' = Head(reqList)
    /\ UNCHANGED <<ctlVars, reqVars, clientVars, wrc, rmmodVars>>

WorkerDrained ==
    /\ reqList = <<>>
    /\ WorkerAt("loop", "wait")
    /\ UnlockCtl
    /\ UNCHANGED <<ctlZombie, reqList, shouldStop, reqVars, clientVars, wreq, wrc, rmmodVars>>

\* mutex_lock(&req->mux), list_del, and the test of LOFS_REQ_ZOMBIE.
WorkerTake ==
    /\ WorkerAt("lockreq", IF "ZOMBIE" \in reqFlags[wreq] THEN "wake" ELSE "lookup")
    /\ LockReq(Worker, wreq)
    /\ reqList' = Tail(reqList)
    /\ UNCHANGED <<ctlZombie, ctlMux, shouldStop, reqLive, reqFlags, path, clientVars,
                   wreq, wrc, rmmodVars>>

\* kern_path: fills *req->p with a referenced path, or fails and leaves it.
WorkerLookup ==
    /\ WorkerAt("lookup", "processed")
    /\ \/ wrc' = FALSE /\ path' = [path EXCEPT ![wreq] = "new"]
       \/ wrc' = TRUE /\ path' = path
    /\ UNCHANGED <<ctlVars, reqLive, reqFlags, reqMux, clientVars, wreq, rmmodVars>>

WorkerProcessed ==
    /\ \/ wrc /\ WorkerAt("processed", "error")
       \/ ~wrc /\ WorkerAt("processed", "wake")
    /\ SetFlag(wreq, "PROCESSED")
    /\ UNCHANGED <<ctlVars, reqLive, reqMux, path, clientVars, wreq, wrc, rmmodVars>>

WorkerError ==
    /\ WorkerAt("error", "wake")
    /\ SetFlag(wreq, "ERROR")
    /\ UNCHANGED <<ctlVars, reqLive, reqMux, path, clientVars, wreq, wrc, rmmodVars>>

WorkerWake ==
    /\ WorkerAt("wake", "unlock")
    /\ WakeClient(wreq)
    /\ UNCHANGED <<ctlVars, reqVars, rc, wreq, wrc, rmmodVars>>

WorkerUnlock ==
    /\ WorkerAt("unlock", "loop")
    /\ UnlockReq(wreq)
    /\ UNCHANGED <<ctlVars, reqLive, reqFlags, path, clientVars, wreq, wrc, rmmodVars>>

WorkerStep ==
    \/ WorkerWait \/ WorkerLockCtl \/ WorkerCheck \/ WorkerExit
    \/ WorkerFirst \/ WorkerDrained \/ WorkerTake \/ WorkerLookup
    \/ WorkerProcessed \/ WorkerError \/ WorkerWake \/ WorkerUnlock

-----------------------------------------------------------------------------
(* lofs_destroy_kthread                                                     *)

RmmodBegin ==
    /\ ForcedUnload \/ \A c \in Clients : cpc[c] = "idle"
    /\ RmmodAt("loaded", "lockctl")
    /\ UNCHANGED <<ctlVars, reqVars, clientVars, workerVars, rreq>>

\* Mutant: the shutdown goes through the list without lofs_kthread_ctl.mux.
RmmodWalksUnlocked ==
    /\ RmmodAt("lockctl", "mark")
    /\ UNCHANGED <<ctlVars, reqVars, clientVars, workerVars, rreq>>

RmmodLockCtl ==
    /\ RmmodAt("lockctl", "mark")
    /\ LockCtl(Rmmod)
    /\ UNCHANGED <<ctlZombie, reqList, shouldStop, reqVars, clientVars, workerVars, rreq>>

\* Set LOFS_KTHREAD_ZOMBIE and point the loop at the first request, if any.
RmmodMark ==
    /\ ctlZombie' = TRUE
    /\ \/ /\ reqList = <<>>
          /\ RmmodAt("mark", "unlockctl")
          /\ rreq' = NoOne
       \/ /\ reqList # <<>>
          /\ RmmodAt("mark", "lockreq")
          /\ rreq' = Head(reqList)
    /\ UNCHANGED <<ctlMux, reqList, shouldStop, reqVars, clientVars, workerVars>>

RmmodLockReq ==
    /\ RmmodAt("lockreq", "flag")
    /\ LockReq(Rmmod, rreq)
    /\ UNCHANGED <<ctlVars, reqLive, reqFlags, path, clientVars, workerVars, rreq>>

RmmodFlag ==
    /\ RmmodAt("flag", "wake")
    /\ SetFlag(rreq, "ZOMBIE")
    /\ UNCHANGED <<ctlVars, reqLive, reqMux, path, clientVars, workerVars, rreq>>

RmmodWake ==
    /\ RmmodAt("wake", "unlock")
    /\ WakeClient(rreq)
    /\ UNCHANGED <<ctlVars, reqVars, rc, workerVars, rreq>>

RmmodUnlock ==
    /\ RmmodAt("unlock", "next")
    /\ UnlockReq(rreq)
    /\ UNCHANGED <<ctlVars, reqLive, reqFlags, path, clientVars, workerVars, rreq>>

\* list_for_each_entry reads req->kthread_ctl_list.next after the request was
\* unlocked.
RmmodNext ==
    /\ rpc = "next"
    /\ \E i \in DOMAIN reqList :
          /\ reqList[i] = rreq
          /\ \/ /\ i = Len(reqList)
                /\ rpc' = "unlockctl"
                /\ rreq' = NoOne
             \/ /\ i < Len(reqList)
                /\ rpc' = "lockreq"
                /\ rreq' = reqList[i + 1]
    /\ UNCHANGED <<ctlVars, reqVars, clientVars, workerVars>>

RmmodUnlockCtl ==
    /\ RmmodAt("unlockctl", "stop")
    /\ UnlockCtl
    /\ UNCHANGED <<ctlZombie, reqList, shouldStop, reqVars, clientVars, workerVars, rreq>>

\* kthread_stop: ask the thread to stop and wake it ...
RmmodStop ==
    /\ RmmodAt("stop", "join")
    /\ shouldStop' = TRUE
    /\ WakeWorker
    /\ UNCHANGED <<ctlZombie, ctlMux, reqList, reqVars, clientVars, wreq, wrc, rreq>>

\* ... and wait until it has returned; the wake_up that follows finds nobody.
RmmodJoin ==
    /\ wpc = "exited"
    /\ RmmodAt("join", "done")
    /\ UNCHANGED <<ctlVars, reqVars, clientVars, workerVars, rreq>>

\* Reading freed memory: the node may still hold what it held (RmmodNext), or
\* the kernel stops right there, with lofs_kthread_ctl.mux held.  So may
\* kthread_stop on a thread that has returned.
RmmodOops ==
    /\ \/ /\ rpc = "next"
          /\ ~reqLive[rreq] \/ "ZOMBIE" \notin reqFlags[rreq]
       \/ rpc = "stop" /\ wpc = "exited"
    /\ rpc' = "oops"
    /\ UNCHANGED <<ctlVars, reqVars, clientVars, workerVars, rreq>>

RmmodStep ==
    \/ RmmodLockCtl \/ RmmodMark \/ RmmodLockReq \/ RmmodFlag \/ RmmodWake
    \/ RmmodUnlock \/ RmmodNext \/ RmmodUnlockCtl \/ RmmodStop \/ RmmodJoin
    \/ RmmodOops

\* The module is gone (or the kernel is): nothing has to happen any more.
Stopped == rpc \in {"done", "oops"} /\ UNCHANGED vars

-----------------------------------------------------------------------------
Next ==
    \/ \E c \in Clients : ClientCall(c) \/ ClientStep(c)
    \/ WorkerStep
    \/ RmmodBegin
    \/ RmmodStep
    \/ Stopped

Spec == Init /\ [][Next]_vars

\* Every thread that can run does run, and a mutex wakes its waiters in turn,
\* so nobody is passed over for ever at lofs_kthread_ctl.mux.  Nothing makes a
\* task call lofs or makes anyone unload it.
Fairness ==
    /\ \A c \in Clients : WF_vars(ClientStep(c)) /\ SF_vars(ClientLockCtl(c))
    /\ WF_vars(WorkerStep) /\ SF_vars(WorkerLockCtl)
    /\ WF_vars(RmmodStep) /\ SF_vars(RmmodLockCtl)

FairSpec == Spec /\ Fairness

-----------------------------------------------------------------------------
(* Properties                                                               *)

\* A lookup succeeds exactly when kern_path replaced the caller's path.
\* lofs_follow_down drops its references to the old path when the code is
\* zero and keeps them when it is not, so a wrong answer (the client reading
\* PROCESSED before ERROR is stored, say) frees or leaks a dentry.
ResultMatchesPath ==
    \A c \in Clients : cpc[c] = "returned" => (rc[c] = "ok" <=> path[c] = "new")

\* A request gets one answer: it is not both looked up and dropped, although
\* the worker and lofs_destroy_kthread both go through the list.
AnsweredOnce ==
    \A c \in Clients : ~({"PROCESSED", "ZOMBIE"} \subseteq reqFlags[c])

\* The worker works on a request only while it is allocated, and as long as
\* anyone may link or unlink requests the list holds no freed one: the client
\* frees its request as soon as it can lock it and see flags.
WorkerUses(c) ==
    wreq = c /\ wpc \in {"lockreq", "lookup", "processed", "error", "wake", "unlock"}
WorkerUsesLiveRequests ==
    \A c \in Clients :
        WorkerUses(c) \/ (~ctlZombie /\ \E i \in DOMAIN reqList : reqList[i] = c)
            => reqLive[c]

\* lofs_destroy_kthread goes through the list over allocated requests only.
\* lofs_kernel.h says of the request's mutex that it "Protects access to the
\* struct"; the step to the next request is taken after it is released.
RmmodUses(c) == rreq = c /\ rpc \in {"lockreq", "flag", "wake", "unlock", "next"}
RmmodUsesLiveRequests == \A c \in Clients : RmmodUses(c) => reqLive[c]

\* kthread_stop is called on a thread that has not returned: nobody else holds
\* a reference to its task, and it returns as soon as it sees the zombie flag.
StopFindsThread == rpc = "stop" => wpc # "exited"

\* When the worker has returned nobody waits for an answer it would have
\* given: a request is either refused at the door or seen by the shutdown.
NoRequestForgotten ==
    wpc = "exited" =>
        \A c \in Clients :
            cpc[c] \in {"wake", "wait", "sleep", "lockreq", "read"} => reqFlags[c] # {}

\* Every lookup returns, whatever the worker and the shutdown do meanwhile,
\* unless the kernel has stopped.
LookupReturns ==
    \A c \in Clients : (cpc[c] = "alloc") ~> (cpc[c] = "returned" \/ rpc = "oops")

\* An unload that has begun ends.
ShutdownCompletes == (rpc = "lockctl") ~> (rpc \in {"done", "oops"})

-----------------------------------------------------------------------------
(* The thread, its lists and locks implement the service of LookupService.  *)

PhaseOf(c) ==
    CASE cpc[c] = "idle" -> "idle"
      [] cpc[c] \in {"alloc", "lockctl", "submit"} -> "asked"
      [] cpc[c] \in {"free", "returned"} -> "answered"
      [] OTHER -> IF reqFlags[c] = {} THEN "accepted" ELSE "answered"

\* Once a request has flags its answer is settled, even between the stores of
\* PROCESSED and ERROR; what a client returns must be that answer.
AnswerOf(c) ==
    CASE PhaseOf(c) # "answered" -> "none"
      [] cpc[c] \in {"free", "returned"} -> rc[c]
      [] OTHER -> IF "ZOMBIE" \in reqFlags[c] THEN "eio"
                  ELSE IF path[c] = "new" THEN "ok" ELSE "enoent"

Service == INSTANCE LookupService WITH
    closing <- ctlZombie,
    phase <- [c \in Clients |-> PhaseOf(c)],
    answer <- [c \in Clients |-> AnswerOf(c)]

\* Every step of the code is a step of the service, or changes nothing a
\* caller can see: no lookup is carried out after the shutdown began, none is
\* dropped before it, and none is answered twice.
ImplementsService == Service!Spec
=============================================================================
