--------------------------- MODULE LofsKthreadInv ---------------------------
(***************************************************************************)
(* The inductive invariant behind the safety properties of LofsKthread: who *)
(* holds which mutex, what is on the list, what the flags and the caller's   *)
(* path say at each point of the three threads.  TLC checks it on a small    *)
(* instance; LofsKthreadProofs proves it.                                    *)
(***************************************************************************)
EXTENDS LofsKthread

Waiting == {"wake", "wait", "sleep"}
Submitted(c) == cpc[c] \in Waiting \cup {"lockreq", "read"}

WorkerInCtl == {"check", "loop", "lockreq", "lookup", "processed", "error", "wake", "unlock"}
WorkerInReq == {"lookup", "processed", "error", "wake", "unlock"}
RmmodInLoop == {"lockreq", "flag", "wake", "unlock", "next"}
RmmodInCtl == {"mark", "unlockctl"} \cup RmmodInLoop
RmmodInReq == {"flag", "wake", "unlock"}

\* The holder of each mutex is the thread that is between its lock and unlock.
CtlMuxInv ==
    /\ \A c \in Clients : ctlMux = c <=> cpc[c] = "submit"
    /\ ctlMux = Worker <=> wpc \in WorkerInCtl
    /\ rpc \in RmmodInCtl => ctlMux = Rmmod
    /\ ctlMux = Rmmod => rpc \in RmmodInCtl \cup {"oops"}

ReqMuxInv ==
    \A c \in Clients :
        /\ reqMux[c] \in {NoOne, c, Worker, Rmmod}
        /\ reqMux[c] = c <=> cpc[c] = "read"
        /\ reqMux[c] = Worker <=> wreq = c /\ wpc \in WorkerInReq
        /\ reqMux[c] = Rmmod <=> rreq = c /\ rpc \in RmmodInReq

\* Requests still to be looked at by someone: all of the list before the
\* shutdown, and what is ahead of Rmmod's cursor during its loop.
Pending(j) ==
    \/ ~ctlZombie
    \/ /\ rpc \in RmmodInLoop
       /\ \E i \in DOMAIN reqList :
             /\ reqList[i] = rreq
             /\ j > i \/ (j = i /\ rpc \in {"lockreq", "flag"})

ListInv ==
    /\ \A i, j \in DOMAIN reqList : reqList[i] = reqList[j] => i = j
    /\ \A j \in DOMAIN reqList :
          Pending(j) => cpc[reqList[j]] \in Waiting /\ reqFlags[reqList[j]] = {}

\* A request that nobody will look at any more has its answer.
CoverInv ==
    \A c \in Clients :
        Submitted(c) =>
            \/ reqFlags[c] # {}
            \/ wreq = c /\ wpc \in WorkerInReq
            \/ \E j \in DOMAIN reqList : reqList[j] = c /\ Pending(j)
            \/ rpc = "oops" /\ ctlMux = Rmmod

RequestInv ==
    \A c \in Clients :
        /\ reqLive[c] <=> Submitted(c) \/ cpc[c] \in {"lockctl", "submit", "free"}
        /\ cpc[c] \in {"lockctl", "submit"} => reqFlags[c] = {}
        /\ cpc[c] \in {"lockreq", "read"} => reqFlags[c] # {}
        /\ "ERROR" \in reqFlags[c] => "PROCESSED" \in reqFlags[c]
        /\ "ZOMBIE" \in reqFlags[c] => reqFlags[c] = {"ZOMBIE"}

\* kern_path has filled the caller's path, and the reply will say so.
PathInv ==
    \A c \in Clients :
        path[c] = "new" <=>
            \/ cpc[c] \in {"free", "returned"} /\ rc[c] = "ok"
            \/ /\ Submitted(c)
               /\ \/ /\ "PROCESSED" \in reqFlags[c]
                     /\ "ERROR" \notin reqFlags[c]
                     /\ ~(wreq = c /\ wpc = "error")
                  \/ wreq = c /\ wpc = "processed" /\ ~wrc

WorkerInv ==
    /\ wpc \in WorkerInCtl \ {"check"} => ~ctlZombie
    /\ wpc = "lockreq" => reqList # <<>> /\ wreq = Head(reqList)
    /\ wpc \in WorkerInReq =>
          /\ wreq \in Clients
          /\ Submitted(wreq)
          /\ \A j \in DOMAIN reqList : reqList[j] # wreq
    /\ wpc \in {"lookup", "processed"} => reqFlags[wreq] = {}
    /\ wpc = "error" => wrc /\ reqFlags[wreq] = {"PROCESSED"}
    /\ wpc \in {"wake", "unlock"} => reqFlags[wreq] # {}
    /\ wpc = "exited" => rpc \in {"stop", "join", "done", "oops"} /\ ctlMux # Rmmod

RmmodInv ==
    /\ ctlZombie <=> rpc \notin {"loaded", "lockctl", "mark"}
    /\ rpc \in RmmodInLoop => \E i \in DOMAIN reqList : reqList[i] = rreq
    /\ rpc \in {"wake", "unlock"} => Submitted(rreq) /\ reqFlags[rreq] = {"ZOMBIE"}

IInv ==
    /\ TypeOK
    /\ CtlMuxInv
    /\ ReqMuxInv
    /\ ListInv
    /\ CoverInv
    /\ RequestInv
    /\ PathInv
    /\ WorkerInv
    /\ RmmodInv

\* While mounts pin the module, the unload meets no client and no request,
\* and the worker leaves its wait only for a request or for kthread_stop.
PinnedInv ==
    ~ForcedUnload =>
        /\ rpc # "loaded" => reqList = <<>> /\ \A c \in Clients : cpc[c] = "idle"
        /\ rpc \notin RmmodInLoop
        /\ wpc \in {"lockctl", "check"} => reqList # <<>> \/ shouldStop
        /\ shouldStop \/ wpc = "exited" => rpc \in {"join", "done"}
=============================================================================
