-------------------------- MODULE LofsKthreadProofs --------------------------
(***************************************************************************)
(* Theorems about LofsKthread, for any set of clients and both values of    *)
(* ForcedUnload.  IInv (LofsKthreadInv) is inductive: one lemma per thread   *)
(* shows that its steps keep it, one case per action.  In a case the parts   *)
(* that follow from themselves and the types come first, in one step; the    *)
(* parts that need other parts follow, each citing those it needs.           *)
(***************************************************************************)
EXTENDS LofsKthreadInv, TLAPS

\* lofs_lookup_managed keeps the invariant.
LEMMA ClientKeepsInv ==
  ASSUME IInv, NEW c \in Clients, ClientCall(c) \/ ClientStep(c)
  PROVE  IInv'
<1> USE ThreadsAreDistinct DEF IInv, LockCtl, UnlockCtl, LockReq, UnlockReq,
   ClientAt, WorkerAt, RmmodAt, ctlVars, reqVars, clientVars, workerVars,
   rmmodVars
<1> USE DEF Threads, Flags, Codes, ClientPcs, WorkerPcs, RmmodPcs,
   WorkerInCtl, RmmodInCtl, RmmodInLoop, WorkerInReq, RmmodInReq, Waiting
<1>1. CASE ClientCall(c)
  BY <1>1 DEF ClientCall, TypeOK, CtlMuxInv, ReqMuxInv, ListInv, CoverInv,
     RequestInv, PathInv, WorkerInv, RmmodInv, Pending, Submitted
<1>2. CASE ClientAlloc(c)
  <2>1. TypeOK' /\ CtlMuxInv' /\ ListInv' /\ CoverInv' /\ RequestInv' /\
     PathInv' /\ WorkerInv' /\ RmmodInv'
    BY <1>2 DEF ClientAlloc, TypeOK, CtlMuxInv, ListInv, CoverInv, RequestInv,
       PathInv, WorkerInv, RmmodInv, Pending, Submitted
  <2>2. ReqMuxInv'
    BY <1>2 DEF ClientAlloc, ReqMuxInv, ListInv, WorkerInv, RmmodInv, Pending,
       Submitted
  <2> QED
    BY <2>1, <2>2
<1>3. CASE ClientAllocFails(c)
  <2>1. TypeOK' /\ CtlMuxInv' /\ ReqMuxInv' /\ ListInv'
    BY <1>3 DEF ClientAllocFails, TypeOK, CtlMuxInv, ReqMuxInv, ListInv,
       Pending
  <2>2. CoverInv' /\ RequestInv' /\ PathInv' /\ WorkerInv' /\ RmmodInv'
    BY <1>3 DEF ClientAllocFails, CoverInv, RequestInv, PathInv, WorkerInv,
       RmmodInv, TypeOK, Pending, Submitted
  <2> QED
    BY <2>1, <2>2
<1>4. CASE ClientLockCtl(c)
  BY <1>4 DEF ClientLockCtl, TypeOK, CtlMuxInv, ReqMuxInv, ListInv, CoverInv,
     RequestInv, PathInv, WorkerInv, RmmodInv, Pending, Submitted
<1>5. CASE ClientSubmit(c)
  <2>1. TypeOK' /\ CtlMuxInv' /\ ReqMuxInv'
    BY <1>5 DEF ClientSubmit, TypeOK, CtlMuxInv, ReqMuxInv
  <2>2. RequestInv' /\ WorkerInv' /\ RmmodInv'
    BY <1>5 DEF ClientSubmit, RequestInv, WorkerInv, RmmodInv, TypeOK,
       Submitted
  <2>a. \A j \in DOMAIN reqList : reqList[j] # c
    BY <1>5 DEF ClientSubmit, TypeOK, ListInv, Pending
  <2>b. /\ DOMAIN reqList' = DOMAIN reqList \cup {Len(reqList) + 1}
        /\ Len(reqList) + 1 \notin DOMAIN reqList
        /\ reqList'[Len(reqList) + 1] = c
        /\ \A j \in DOMAIN reqList : reqList'[j] = reqList[j]
    BY <1>5 DEF ClientSubmit, TypeOK
  <2>c. reqFlags[c] = {} /\ reqFlags' = reqFlags /\ ~ctlZombie /\ ~ctlZombie'
    BY <1>5 DEF ClientSubmit, RequestInv
  <2>d. cpc'[c] = "wake" /\ \A j \in DOMAIN reqList : cpc'[reqList[j]] = cpc[reqList[j]]
    BY <1>5, <2>a DEF ClientSubmit, TypeOK
  <2>3. ListInv'
    <3>1. \A i, j \in DOMAIN reqList' : reqList'[i] = reqList'[j] => i = j
      BY <2>a, <2>b DEF ListInv
    <3>2. \A j \in DOMAIN reqList' :
             cpc'[reqList'[j]] \in Waiting /\ reqFlags'[reqList'[j]] = {}
      BY <2>b, <2>c, <2>d DEF ListInv, Pending
    <3> QED
      BY <3>1, <3>2 DEF ListInv
  <2>4. CoverInv'
    <3> SUFFICES ASSUME NEW d \in Clients, Submitted(d)'
                 PROVE  \/ reqFlags'[d] # {}
                        \/ wreq' = d /\ wpc' \in WorkerInReq
                        \/ \E j \in DOMAIN reqList' : reqList'[j] = d
      BY <2>c DEF CoverInv, Pending
    <3>1. CASE d = c
      BY <3>1, <2>b
    <3>2. CASE d # c
      <4>1. Submitted(d) /\ wreq' = wreq /\ wpc' = wpc /\ ctlMux # Rmmod
        BY <1>5, <3>2 DEF ClientSubmit, TypeOK, Submitted, CtlMuxInv
      <4> QED
        BY <4>1, <2>b, <2>c DEF CoverInv
    <3> QED
      BY <3>1, <3>2
  <2>5. PathInv'
    BY <1>5 DEF ClientSubmit, RequestInv, PathInv, WorkerInv, Submitted
  <2> QED
    BY <2>1, <2>2, <2>3, <2>4, <2>5
<1>6. CASE ClientTurnedAway(c)
  <2>1. TypeOK' /\ CtlMuxInv' /\ ReqMuxInv' /\ ListInv' /\ RequestInv' /\
     PathInv' /\ WorkerInv' /\ RmmodInv'
    BY <1>6 DEF ClientTurnedAway, TypeOK, CtlMuxInv, ReqMuxInv, ListInv,
       RequestInv, PathInv, WorkerInv, RmmodInv, Pending, Submitted
  <2>2. CoverInv'
    BY <1>6 DEF ClientTurnedAway, CtlMuxInv, CoverInv, Pending, Submitted
  <2> QED
    BY <2>1, <2>2
<1>7. CASE ClientWake(c)
  BY <1>7 DEF ClientWake, WakeWorker, TypeOK, CtlMuxInv, ReqMuxInv, ListInv,
     CoverInv, RequestInv, PathInv, WorkerInv, RmmodInv, Pending, Submitted
<1>8. CASE ClientWait(c)
  BY <1>8 DEF ClientWait, TypeOK, CtlMuxInv, ReqMuxInv, ListInv, CoverInv,
     RequestInv, PathInv, WorkerInv, RmmodInv, Pending, Submitted
<1>9. CASE ClientLockReq(c)
  BY <1>9 DEF ClientLockReq, TypeOK, CtlMuxInv, ReqMuxInv, ListInv, CoverInv,
     RequestInv, PathInv, WorkerInv, RmmodInv, Pending, Submitted
<1>10. CASE ClientRead(c)
  <2>1. TypeOK' /\ CtlMuxInv' /\ ReqMuxInv' /\ ListInv' /\ CoverInv' /\
     RequestInv'
    BY <1>10 DEF ClientRead, CodeOf, TypeOK, CtlMuxInv, ReqMuxInv, ListInv,
       CoverInv, RequestInv, Pending, Submitted
  <2>2. PathInv'
    BY <1>10 DEF ClientRead, CodeOf, TypeOK, ReqMuxInv, RequestInv, PathInv,
       Submitted
  <2>3. WorkerInv'
    BY <1>10 DEF ClientRead, CodeOf, ReqMuxInv, WorkerInv, Submitted
  <2>4. RmmodInv'
    BY <1>10 DEF ClientRead, CodeOf, ReqMuxInv, RmmodInv, Submitted
  <2> QED
    BY <2>1, <2>2, <2>3, <2>4
<1>11. CASE ClientFree(c)
  BY <1>11 DEF ClientFree, TypeOK, CtlMuxInv, ReqMuxInv, ListInv, CoverInv,
     RequestInv, PathInv, WorkerInv, RmmodInv, Pending, Submitted
<1>12. CASE ClientReturn(c)
  BY <1>12 DEF ClientReturn, TypeOK, CtlMuxInv, ReqMuxInv, ListInv, CoverInv,
     RequestInv, PathInv, WorkerInv, RmmodInv, Pending, Submitted
<1> QED
  BY <1>1, <1>2, <1>3, <1>4, <1>5, <1>6, <1>7, <1>8, <1>9, <1>10, <1>11, <1>12
     DEF ClientStep

\* lofs_threadfn keeps the invariant.
LEMMA WorkerKeepsInv ==
  ASSUME IInv, WorkerStep
  PROVE  IInv'
<1> USE ThreadsAreDistinct DEF IInv, LockCtl, UnlockCtl, LockReq, UnlockReq,
   ClientAt, WorkerAt, RmmodAt, ctlVars, reqVars, clientVars, workerVars,
   rmmodVars
<1> USE DEF Threads, Flags, Codes, ClientPcs, WorkerPcs, RmmodPcs,
   WorkerInCtl, RmmodInCtl, RmmodInLoop, WorkerInReq, RmmodInReq, Waiting
<1>1. CASE WorkerWait
  BY <1>1 DEF WorkerWait, WorkerCondition, TypeOK, CtlMuxInv, ReqMuxInv,
     ListInv, CoverInv, RequestInv, PathInv, WorkerInv, RmmodInv, Pending,
     Submitted
<1>2. CASE WorkerLockCtl
  BY <1>2 DEF WorkerLockCtl, TypeOK, CtlMuxInv, ReqMuxInv, ListInv, CoverInv,
     RequestInv, PathInv, WorkerInv, RmmodInv, Pending, Submitted
<1>3. CASE WorkerCheck
  BY <1>3 DEF WorkerCheck, TypeOK, CtlMuxInv, ReqMuxInv, ListInv, CoverInv,
     RequestInv, PathInv, WorkerInv, RmmodInv, Pending, Submitted
<1>4. CASE WorkerExit
  <2>1. TypeOK' /\ CtlMuxInv' /\ ReqMuxInv' /\ ListInv' /\ RequestInv' /\
     PathInv' /\ RmmodInv'
    BY <1>4 DEF WorkerExit, TypeOK, CtlMuxInv, ReqMuxInv, ListInv, RequestInv,
       PathInv, RmmodInv, Pending, Submitted
  <2>2. CoverInv'
    BY <1>4 DEF WorkerExit, CtlMuxInv, CoverInv, Pending, Submitted
  <2>3. WorkerInv'
    BY <1>4 DEF WorkerExit, TypeOK, CtlMuxInv, WorkerInv, RmmodInv, Submitted
  <2> QED
    BY <2>1, <2>2, <2>3
<1>5. CASE WorkerFirst
  BY <1>5 DEF WorkerFirst, TypeOK, CtlMuxInv, ReqMuxInv, ListInv, CoverInv,
     RequestInv, PathInv, WorkerInv, RmmodInv, Pending, Submitted
<1>6. CASE WorkerDrained
  <2>1. TypeOK' /\ CtlMuxInv' /\ ReqMuxInv' /\ ListInv' /\ RequestInv' /\
     PathInv' /\ WorkerInv' /\ RmmodInv'
    BY <1>6 DEF WorkerDrained, TypeOK, CtlMuxInv, ReqMuxInv, ListInv,
       RequestInv, PathInv, WorkerInv, RmmodInv, Pending, Submitted
  <2>2. CoverInv'
    BY <1>6 DEF WorkerDrained, CtlMuxInv, CoverInv, Pending, Submitted
  <2> QED
    BY <2>1, <2>2
<1>7. CASE WorkerTake
  <2>1. CtlMuxInv' /\ ReqMuxInv' /\ ListInv' /\ RequestInv' /\ PathInv'
    BY <1>7 DEF WorkerTake, CtlMuxInv, ReqMuxInv, ListInv, RequestInv,
       PathInv, TypeOK, Pending, Submitted
  <2>2. TypeOK'
    BY <1>7 DEF WorkerTake, TypeOK, WorkerInv, Submitted
  <2>a. /\ reqList # <<>> /\ wreq = reqList[1] /\ reqList' = Tail(reqList)
        /\ ~ctlZombie /\ ~ctlZombie' /\ ctlMux # Rmmod
    BY <1>7 DEF WorkerTake, TypeOK, WorkerInv, CtlMuxInv
  <2>b. \A j \in DOMAIN reqList : j # 1 => j - 1 \in DOMAIN reqList' /\ reqList'[j - 1] = reqList[j]
    BY <2>a DEF TypeOK
  <2>c. wpc' \in WorkerInReq /\ wreq' = wreq /\ cpc' = cpc /\ reqFlags' = reqFlags
    BY <1>7 DEF WorkerTake
  <2>d. wpc \notin WorkerInReq
    BY <1>7 DEF WorkerTake
  <2>3. CoverInv'
    <3> SUFFICES ASSUME NEW d \in Clients, Submitted(d)', d # wreq, reqFlags[d] = {}
                 PROVE  \E j \in DOMAIN reqList' : reqList'[j] = d
      BY <2>a, <2>c DEF CoverInv, Pending
    <3>1. PICK j \in DOMAIN reqList : reqList[j] = d
      BY <2>a, <2>c, <2>d DEF CoverInv, Submitted
    <3> QED
      BY <3>1, <2>a, <2>b
  <2>4. WorkerInv'
    BY <1>7 DEF WorkerTake, TypeOK, ListInv, WorkerInv, Pending, Submitted
  <2>5. RmmodInv'
    BY <1>7 DEF WorkerTake, WorkerInv, RmmodInv, Submitted
  <2> QED
    BY <2>1, <2>2, <2>3, <2>4, <2>5
<1>8. CASE WorkerLookup
  <2>1. TypeOK'
    BY ZenonT(30), <1>8 DEF WorkerLookup, TypeOK
  <2>2. CtlMuxInv'
    BY <1>8 DEF WorkerLookup, CtlMuxInv
  <2>3. ReqMuxInv'
    BY <1>8 DEF WorkerLookup, ReqMuxInv
  <2>4. ListInv'
    BY <1>8 DEF WorkerLookup, ListInv, Pending
  <2>5. CoverInv'
    BY <1>8 DEF WorkerLookup, CoverInv, Pending, Submitted
  <2>6. RequestInv'
    BY <1>8 DEF WorkerLookup, RequestInv, Submitted
  <2>7. WorkerInv'
    BY <1>8 DEF WorkerLookup, WorkerInv, Submitted
  <2>8. RmmodInv'
    BY <1>8 DEF WorkerLookup, RmmodInv, Submitted
  <2>9. PathInv'
    BY <1>8 DEF WorkerLookup, TypeOK, PathInv, WorkerInv, Submitted
  <2> QED
    BY <2>1, <2>2, <2>3, <2>4, <2>5, <2>6, <2>7, <2>8, <2>9
<1>9. CASE WorkerProcessed
  <2>1. TypeOK'
    BY ZenonT(30), <1>9 DEF WorkerProcessed, SetFlag, TypeOK
  <2>2. CtlMuxInv'
    BY <1>9 DEF WorkerProcessed, SetFlag, CtlMuxInv
  <2>3. ReqMuxInv'
    BY <1>9 DEF WorkerProcessed, SetFlag, ReqMuxInv
  <2>4. CoverInv'
    BY <1>9 DEF WorkerProcessed, SetFlag, CoverInv, Pending, Submitted
  <2>5. WorkerInv'
    BY <1>9 DEF WorkerProcessed, SetFlag, WorkerInv, TypeOK, Submitted
  <2>6. ListInv'
    BY <1>9 DEF WorkerProcessed, SetFlag, ListInv, WorkerInv, Pending,
       Submitted
  <2>7. RequestInv'
    BY <1>9 DEF WorkerProcessed, SetFlag, RequestInv, WorkerInv, Submitted
  <2>8. PathInv'
    BY <1>9 DEF WorkerProcessed, SetFlag, TypeOK, PathInv, WorkerInv,
       Submitted
  <2>9. RmmodInv'
    BY <1>9 DEF WorkerProcessed, SetFlag, WorkerInv, RmmodInv, Submitted
  <2> QED
    BY <2>1, <2>2, <2>3, <2>4, <2>5, <2>6, <2>7, <2>8, <2>9
<1>10. CASE WorkerError
  <2>1. TypeOK' /\ CtlMuxInv' /\ ReqMuxInv' /\ CoverInv' /\ PathInv' /\
     WorkerInv'
    BY <1>10 DEF WorkerError, SetFlag, TypeOK, CtlMuxInv, ReqMuxInv, CoverInv,
       PathInv, WorkerInv, Pending, Submitted
  <2>2. ListInv'
    BY <1>10 DEF WorkerError, SetFlag, ListInv, WorkerInv, Pending, Submitted
  <2>3. RequestInv'
    BY <1>10 DEF WorkerError, SetFlag, RequestInv, WorkerInv, Submitted
  <2>4. RmmodInv'
    BY <1>10 DEF WorkerError, SetFlag, WorkerInv, RmmodInv, Submitted
  <2> QED
    BY <2>1, <2>2, <2>3, <2>4
<1>11. CASE WorkerWake
  BY <1>11 DEF WorkerWake, WakeClient, TypeOK, CtlMuxInv, ReqMuxInv, ListInv,
     CoverInv, RequestInv, PathInv, WorkerInv, RmmodInv, Pending, Submitted
<1>12. CASE WorkerUnlock
  <2>1. TypeOK' /\ CtlMuxInv' /\ ReqMuxInv' /\ ListInv' /\ RequestInv' /\
     PathInv' /\ WorkerInv' /\ RmmodInv'
    BY <1>12 DEF WorkerUnlock, TypeOK, CtlMuxInv, ReqMuxInv, ListInv,
       RequestInv, PathInv, WorkerInv, RmmodInv, Pending, Submitted
  <2>2. CoverInv'
    BY <1>12 DEF WorkerUnlock, CoverInv, WorkerInv, Pending, Submitted
  <2> QED
    BY <2>1, <2>2
<1> QED
  BY <1>1, <1>2, <1>3, <1>4, <1>5, <1>6, <1>7, <1>8, <1>9, <1>10, <1>11, <1>12
     DEF WorkerStep

\* lofs_destroy_kthread keeps the invariant.
LEMMA RmmodKeepsInv ==
  ASSUME IInv, RmmodBegin \/ RmmodStep
  PROVE  IInv'
<1> USE ThreadsAreDistinct DEF IInv, LockCtl, UnlockCtl, LockReq, UnlockReq,
   ClientAt, WorkerAt, RmmodAt, ctlVars, reqVars, clientVars, workerVars,
   rmmodVars
<1> USE DEF Threads, Flags, Codes, ClientPcs, WorkerPcs, RmmodPcs,
   WorkerInCtl, RmmodInCtl, RmmodInLoop, WorkerInReq, RmmodInReq, Waiting
<1>1. CASE RmmodBegin
  BY <1>1 DEF RmmodBegin, TypeOK, CtlMuxInv, ReqMuxInv, ListInv, CoverInv,
     RequestInv, PathInv, WorkerInv, RmmodInv, Pending, Submitted
<1>2. CASE RmmodLockCtl
  BY <1>2 DEF RmmodLockCtl, TypeOK, CtlMuxInv, ReqMuxInv, ListInv, CoverInv,
     RequestInv, PathInv, WorkerInv, RmmodInv, Pending, Submitted
<1>3. CASE RmmodMark
  <2>1. TypeOK' /\ CtlMuxInv' /\ ReqMuxInv' /\ CoverInv' /\ RequestInv' /\
     PathInv' /\ RmmodInv'
    BY <1>3 DEF RmmodMark, TypeOK, CtlMuxInv, ReqMuxInv, CoverInv, RequestInv,
       PathInv, RmmodInv, Pending, Submitted
  <2>2. ListInv'
    BY <1>3 DEF RmmodMark, ListInv, RmmodInv, Pending, Submitted
  <2>3. WorkerInv'
    BY <1>3 DEF RmmodMark, CtlMuxInv, WorkerInv, Submitted
  <2> QED
    BY <2>1, <2>2, <2>3
<1>4. CASE RmmodLockReq
  BY <1>4 DEF RmmodLockReq, TypeOK, CtlMuxInv, ReqMuxInv, ListInv, CoverInv,
     RequestInv, PathInv, WorkerInv, RmmodInv, Pending, Submitted
<1>5. CASE RmmodFlag
  <2>1. TypeOK'
    BY ZenonT(30), <1>5 DEF RmmodFlag, SetFlag, TypeOK
  <2>2. CtlMuxInv'
    BY <1>5 DEF RmmodFlag, SetFlag, CtlMuxInv
  <2>3. ReqMuxInv'
    BY <1>5 DEF RmmodFlag, SetFlag, ReqMuxInv
  <2>4. PathInv'
    BY <1>5 DEF RmmodFlag, SetFlag, PathInv, Submitted
  <2>5. ListInv'
    BY <1>5 DEF RmmodFlag, SetFlag, TypeOK, ListInv, RmmodInv, Pending,
       Submitted
  <2>6. CoverInv'
    BY <1>5 DEF RmmodFlag, SetFlag, TypeOK, CoverInv, RequestInv, Pending,
       Submitted
  <2>7. RequestInv'
    BY <1>5 DEF RmmodFlag, SetFlag, ListInv, RequestInv, RmmodInv, Pending,
       Submitted
  <2>8. WorkerInv'
    BY <1>5 DEF RmmodFlag, SetFlag, CtlMuxInv, WorkerInv, Submitted
  <2>9. RmmodInv'
    BY <1>5 DEF RmmodFlag, SetFlag, TypeOK, ListInv, RmmodInv, Pending,
       Submitted
  <2> QED
    BY <2>1, <2>2, <2>3, <2>4, <2>5, <2>6, <2>7, <2>8, <2>9
<1>6. CASE RmmodWake
  BY <1>6 DEF RmmodWake, WakeClient, TypeOK, CtlMuxInv, ReqMuxInv, ListInv,
     CoverInv, RequestInv, PathInv, WorkerInv, RmmodInv, Pending, Submitted
<1>7. CASE RmmodUnlock
  BY <1>7 DEF RmmodUnlock, TypeOK, CtlMuxInv, ReqMuxInv, ListInv, CoverInv,
     RequestInv, PathInv, WorkerInv, RmmodInv, Pending, Submitted
<1>8. CASE RmmodNext
  <2>1. TypeOK' /\ CtlMuxInv' /\ ReqMuxInv' /\ ListInv' /\ RequestInv' /\
     PathInv' /\ WorkerInv' /\ RmmodInv'
    BY <1>8 DEF RmmodNext, TypeOK, CtlMuxInv, ReqMuxInv, ListInv, RequestInv,
       PathInv, WorkerInv, RmmodInv, Pending, Submitted
  <2>2. CoverInv'
    BY <1>8 DEF RmmodNext, ListInv, CoverInv, Pending, Submitted
  <2> QED
    BY <2>1, <2>2
<1>9. CASE RmmodUnlockCtl
  BY <1>9 DEF RmmodUnlockCtl, TypeOK, CtlMuxInv, ReqMuxInv, ListInv, CoverInv,
     RequestInv, PathInv, WorkerInv, RmmodInv, Pending, Submitted
<1>10. CASE RmmodStop
  BY <1>10 DEF RmmodStop, WakeWorker, TypeOK, CtlMuxInv, ReqMuxInv, ListInv,
     CoverInv, RequestInv, PathInv, WorkerInv, RmmodInv, Pending, Submitted
<1>11. CASE RmmodJoin
  BY <1>11 DEF RmmodJoin, TypeOK, CtlMuxInv, ReqMuxInv, ListInv, CoverInv,
     RequestInv, PathInv, WorkerInv, RmmodInv, Pending, Submitted
<1>12. CASE RmmodOops
  <2>1. TypeOK' /\ CtlMuxInv' /\ ReqMuxInv' /\ ListInv' /\ RequestInv' /\
     PathInv' /\ WorkerInv' /\ RmmodInv'
    BY <1>12 DEF RmmodOops, TypeOK, CtlMuxInv, ReqMuxInv, ListInv, RequestInv,
       PathInv, WorkerInv, RmmodInv, Pending, Submitted
  <2>2. CoverInv'
    BY <1>12 DEF RmmodOops, CtlMuxInv, CoverInv, Pending, Submitted
  <2> QED
    BY <2>1, <2>2
<1> QED
  BY <1>1, <1>2, <1>3, <1>4, <1>5, <1>6, <1>7, <1>8, <1>9, <1>10, <1>11, <1>12
     DEF RmmodStep

-----------------------------------------------------------------------------
\* The initial state, with no request and the worker at its first wait.
LEMMA InitInv == Init => IInv
<1> SUFFICES ASSUME Init PROVE IInv
  OBVIOUS
<1> USE ThreadsAreDistinct DEF Init
<1>1. TypeOK
  <2>1. reqList \in Seq(Clients) /\ reqFlags \in [Clients -> SUBSET Flags]
    OBVIOUS
  <2>2. /\ reqLive \in [Clients -> BOOLEAN]
        /\ reqMux \in [Clients -> Threads \cup {NoOne}]
        /\ path \in [Clients -> {"old", "new"}]
        /\ cpc \in [Clients -> ClientPcs]
        /\ rc \in [Clients -> Codes \cup {"none"}]
    BY DEF ClientPcs, Codes
  <2> QED
    BY <2>1, <2>2 DEF TypeOK, WorkerPcs, RmmodPcs
<1>2. CtlMuxInv /\ ReqMuxInv
  BY DEF CtlMuxInv, ReqMuxInv, WorkerInCtl, WorkerInReq, RmmodInCtl, RmmodInLoop, RmmodInReq
<1>3. ListInv /\ CoverInv /\ RequestInv /\ PathInv
  BY DEF ListInv, CoverInv, RequestInv, PathInv, Submitted, Waiting
<1>4. WorkerInv /\ RmmodInv
  BY DEF WorkerInv, RmmodInv, WorkerInCtl, WorkerInReq, RmmodInLoop
<1> QED
  BY <1>1, <1>2, <1>3, <1>4 DEF IInv

LEMMA NextInv == IInv /\ [Next]_vars => IInv'
<1> SUFFICES ASSUME IInv, [Next]_vars PROVE IInv'
  OBVIOUS
<1>1. CASE \E c \in Clients : ClientCall(c) \/ ClientStep(c)
  BY <1>1, ClientKeepsInv
<1>2. CASE WorkerStep
  BY <1>2, WorkerKeepsInv
<1>3. CASE RmmodBegin \/ RmmodStep
  BY <1>3, RmmodKeepsInv
<1>4. CASE UNCHANGED vars
  BY <1>4 DEF vars, ctlVars, reqVars, clientVars, workerVars, rmmodVars, IInv, TypeOK,
              CtlMuxInv, ReqMuxInv, ListInv, CoverInv, RequestInv, PathInv, WorkerInv,
              RmmodInv, Submitted, Pending
<1> QED
  BY <1>1, <1>2, <1>3, <1>4 DEF Next, Stopped

\* Who holds which mutex, what is listed and what the flags say, always.
THEOREM Invariance == Spec => []IInv
  BY InitInv, NextInv, PTL DEF Spec

\* The variables of kthread.c keep their types.
THEOREM TypeCorrect == Spec => []TypeOK
<1>1. IInv => TypeOK
  BY DEF IInv
<1> QED
  BY <1>1, Invariance, PTL

\* lofs_lookup_managed returns zero exactly when kern_path filled the path, for
\* any number of clients and whenever the module is unloaded.
THEOREM ResultCorrect == Spec => []ResultMatchesPath
<1>1. IInv => ResultMatchesPath
  BY DEF IInv, PathInv, ResultMatchesPath, Submitted, Waiting
<1> QED
  BY <1>1, Invariance, PTL

\* No request is both looked up and dropped.
THEOREM OneAnswer == Spec => []AnsweredOnce
<1>1. ASSUME IInv PROVE AnsweredOnce
  <2> SUFFICES ASSUME NEW c \in Clients,
                      "PROCESSED" \in reqFlags[c], "ZOMBIE" \in reqFlags[c]
               PROVE  FALSE
    BY DEF AnsweredOnce
  <2> QED
    BY <1>1 DEF IInv, RequestInv
<1> QED
  BY <1>1, Invariance, PTL

\* The worker never touches a request its client has freed, and while requests
\* are still accepted neither does anyone who links or unlinks one.
THEOREM WorkerMemorySafe == Spec => []WorkerUsesLiveRequests
<1>1. IInv => WorkerUsesLiveRequests
  BY DEF IInv, TypeOK, ListInv, RequestInv, WorkerInv, WorkerUsesLiveRequests,
         WorkerUses, Pending, Submitted, Waiting, WorkerInReq, WorkerInCtl
<1> QED
  BY <1>1, Invariance, PTL

\* A client that waits for an answer after the worker has returned has it.
THEOREM NobodyForgotten == Spec => []NoRequestForgotten
<1>1. IInv => NoRequestForgotten
  BY DEF IInv, CoverInv, WorkerInv, RmmodInv, NoRequestForgotten, Pending, Submitted,
         Waiting, WorkerInReq, RmmodInLoop
<1> QED
  BY <1>1, Invariance, PTL
-----------------------------------------------------------------------------
(* A module pinned by its mounts.  PinnedInv is inductive relative to IInv.  *)

LEMMA PinnedInit == Init => PinnedInv
  BY DEF Init, PinnedInv, RmmodInLoop

\* Clients start only while the module is loaded, so they keep PinnedInv.
LEMMA ClientKeepsPinned ==
  ASSUME IInv, PinnedInv, NEW c \in Clients, ClientCall(c) \/ ClientStep(c)
  PROVE  PinnedInv'
<1> USE DEF IInv, PinnedInv, ClientAt, LockCtl, LockReq, UnlockCtl, UnlockReq, ctlVars, reqVars,
        clientVars, workerVars, rmmodVars
<1>1. CASE ClientCall(c) \/ ClientAlloc(c) \/ ClientAllocFails(c) \/ ClientLockCtl(c)
  BY <1>1 DEF ClientCall, ClientAlloc, ClientAllocFails, ClientLockCtl
<1>2. CASE ClientSubmit(c)
  BY <1>2 DEF ClientSubmit, TypeOK
<1>3. CASE ClientTurnedAway(c) \/ ClientLockReq(c) \/ ClientRead(c) \/ ClientFree(c)
             \/ ClientReturn(c) \/ ClientWait(c)
  BY <1>3 DEF ClientTurnedAway, ClientLockReq, ClientRead, ClientFree, ClientReturn, ClientWait
<1>4. CASE ClientWake(c)
  BY <1>4 DEF ClientWake, WakeWorker
<1> QED
  BY <1>1, <1>2, <1>3, <1>4 DEF ClientStep

\* The worker goes to its lock only for a request or after kthread_stop, and
\* only the worker takes requests off the list.
LEMMA WorkerKeepsPinned ==
  ASSUME IInv, PinnedInv, WorkerStep
  PROVE  PinnedInv'
<1> USE DEF IInv, PinnedInv, WorkerAt, LockCtl, LockReq, UnlockCtl, UnlockReq, ctlVars, reqVars,
        clientVars, workerVars, rmmodVars
<1>1. CASE WorkerWait
  BY <1>1 DEF WorkerWait, WorkerCondition
<1>2. CASE WorkerExit
  BY <1>2 DEF WorkerExit, CtlMuxInv, RmmodInv, WorkerInCtl, RmmodInCtl
<1>3. CASE WorkerTake
  BY <1>3 DEF WorkerTake, TypeOK, WorkerInv
<1>4. CASE WorkerWake
  BY <1>4, ThreadsAreDistinct DEF WorkerWake, WakeClient, TypeOK, WorkerInv, Submitted, Waiting,
          WorkerInReq
<1>5. CASE WorkerLockCtl \/ WorkerCheck \/ WorkerFirst \/ WorkerDrained \/ WorkerLookup
             \/ WorkerProcessed \/ WorkerError \/ WorkerUnlock
  BY <1>5 DEF WorkerLockCtl, WorkerCheck, WorkerFirst, WorkerDrained, WorkerLookup,
              WorkerProcessed, WorkerError, WorkerUnlock
<1> QED
  BY <1>1, <1>2, <1>3, <1>4, <1>5 DEF WorkerStep

\* The unload begins when every client is idle, and then the list is empty.
LEMMA RmmodKeepsPinned ==
  ASSUME IInv, PinnedInv, RmmodBegin \/ RmmodStep
  PROVE  PinnedInv'
<1> USE DEF IInv, PinnedInv, RmmodAt, LockCtl, LockReq, UnlockCtl, UnlockReq, ctlVars, reqVars,
        clientVars, workerVars, rmmodVars, RmmodInLoop
<1>1. CASE RmmodBegin
  BY <1>1 DEF RmmodBegin, ListInv, RmmodInv, Pending, Waiting, TypeOK
<1>2. CASE RmmodStop
  BY <1>2 DEF RmmodStop, WakeWorker
<1>3. CASE RmmodLockCtl \/ RmmodMark \/ RmmodUnlockCtl \/ RmmodJoin \/ RmmodOops
  BY <1>3 DEF RmmodLockCtl, RmmodMark, RmmodUnlockCtl, RmmodJoin, RmmodOops
<1>4. CASE RmmodLockReq \/ RmmodFlag \/ RmmodWake \/ RmmodUnlock \/ RmmodNext
  BY <1>4 DEF RmmodLockReq, RmmodFlag, RmmodWake, RmmodUnlock, RmmodNext
<1> QED
  BY <1>1, <1>2, <1>3, <1>4 DEF RmmodStep

\* An unload that cannot start under a mount frees nothing anyone still uses:
\* the shutdown loop touches no freed request and kthread_stop finds the thread
\* alive.
THEOREM PinnedUnloadSafe ==
  ASSUME ~ForcedUnload
  PROVE  Spec => [](RmmodUsesLiveRequests /\ StopFindsThread)
<1>1. IInv /\ PinnedInv /\ [Next]_vars => PinnedInv'
  <2> SUFFICES ASSUME IInv, PinnedInv, [Next]_vars PROVE PinnedInv'
    OBVIOUS
  <2>1. CASE UNCHANGED vars
    BY <2>1 DEF vars, ctlVars, reqVars, clientVars, workerVars, rmmodVars, PinnedInv
  <2> QED
    BY <2>1, ClientKeepsPinned, WorkerKeepsPinned, RmmodKeepsPinned DEF Next, Stopped
<1>2. PinnedInv => RmmodUsesLiveRequests /\ StopFindsThread
  BY DEF PinnedInv, RmmodUsesLiveRequests, RmmodUses, StopFindsThread, RmmodInLoop
<1> QED
  BY <1>1, <1>2, PinnedInit, Invariance, PTL DEF Spec

-----------------------------------------------------------------------------
(***************************************************************************)
(* LofsKthread implements LookupService.  Eight steps of the code are steps  *)
(* of the service (a call, a refusal for want of memory or because of the    *)
(* shutdown, the append to the list, the store of PROCESSED, the store of    *)
(* ZOMBIE, the return, the zombie flag of the thread); all the others change *)
(* nothing a caller can see.                                                 *)
(***************************************************************************)

\* Nothing the service tells apart has changed.
SameView == Service!vars' = Service!vars

\* A step that leaves the phase and the answer of every client alone.
LEMMA SameViewIntro ==
  ASSUME ctlZombie' = ctlZombie,
         \A d \in Clients : PhaseOf(d)' = PhaseOf(d) /\ AnswerOf(d)' = AnswerOf(d)
  PROVE  SameView
  BY DEF SameView, Service!vars

\* A step that changes the phase and the answer of client c alone.
LEMMA ViewOfOne ==
  ASSUME NEW c \in Clients, NEW p, NEW a,
         PhaseOf(c)' = p, AnswerOf(c)' = a,
         \A d \in Clients \ {c} : PhaseOf(d)' = PhaseOf(d) /\ AnswerOf(d)' = AnswerOf(d)
  PROVE  /\ [d \in Clients |-> PhaseOf(d)]' = [[d \in Clients |-> PhaseOf(d)] EXCEPT ![c] = p]
         /\ [d \in Clients |-> AnswerOf(d)]' = [[d \in Clients |-> AnswerOf(d)] EXCEPT ![c] = a]
  OBVIOUS

\* A step that changes the phase of client c alone, and no answer.
LEMMA PhaseOfOne ==
  ASSUME NEW c \in Clients, NEW p, PhaseOf(c)' = p,
         \A d \in Clients \ {c} : PhaseOf(d)' = PhaseOf(d),
         \A d \in Clients : AnswerOf(d)' = AnswerOf(d)
  PROVE  /\ [d \in Clients |-> PhaseOf(d)]' = [[d \in Clients |-> PhaseOf(d)] EXCEPT ![c] = p]
         /\ [d \in Clients |-> AnswerOf(d)]' = [d \in Clients |-> AnswerOf(d)]
  OBVIOUS

-----------------------------------------------------------------------------
LEMMA ClientRefines ==
  ASSUME IInv, NEW c \in Clients, ClientCall(c) \/ ClientStep(c)
  PROVE  SameView \/ Service!Next
<1> USE DEF IInv, TypeOK, ClientAt, ctlVars, reqVars, workerVars, rmmodVars
<1> DEFINE others == \A d \in Clients \ {c} : PhaseOf(d)' = PhaseOf(d) /\ AnswerOf(d)' = AnswerOf(d)
<1>1. CASE ClientCall(c)
  <2>1. others /\ PhaseOf(c) = "idle" /\ PhaseOf(c)' = "asked"
           /\ AnswerOf(c) = "none" /\ AnswerOf(c)' = "none" /\ ctlZombie' = ctlZombie
    BY <1>1 DEF ClientCall, PhaseOf, AnswerOf
  <2>2. Service!Ask(c)
    BY <2>1, PhaseOfOne DEF Service!Ask
  <2> QED
    BY <2>2 DEF Service!Next
<1>2. CASE ClientAllocFails(c)
  <2>1. others /\ PhaseOf(c) = "asked" /\ PhaseOf(c)' = "answered"
           /\ AnswerOf(c)' = "enomem" /\ ctlZombie' = ctlZombie
    BY <1>2 DEF ClientAllocFails, PhaseOf, AnswerOf
  <2>2. Service!Refuse(c)
    BY <2>1, ViewOfOne DEF Service!Refuse, Service!Give
  <2> QED
    BY <2>2 DEF Service!Next, Service!Step
<1>3. CASE ClientTurnedAway(c)
  <2>1. others /\ PhaseOf(c) = "asked" /\ PhaseOf(c)' = "answered"
           /\ AnswerOf(c)' = "eio" /\ ctlZombie /\ ctlZombie' = ctlZombie
    BY <1>3 DEF ClientTurnedAway, PhaseOf, AnswerOf
  <2>2. Service!Refuse(c)
    BY <2>1, ViewOfOne DEF Service!Refuse, Service!Give
  <2> QED
    BY <2>2 DEF Service!Next, Service!Step
<1>4. CASE ClientSubmit(c)
  <2>1. others /\ PhaseOf(c) = "asked" /\ PhaseOf(c)' = "accepted"
           /\ AnswerOf(c) = "none" /\ AnswerOf(c)' = "none"
           /\ ~ctlZombie /\ ctlZombie' = ctlZombie
    BY <1>4 DEF ClientSubmit, PhaseOf, AnswerOf, RequestInv
  <2>2. Service!Accept(c)
    BY <2>1, PhaseOfOne DEF Service!Accept
  <2> QED
    BY <2>2 DEF Service!Next, Service!Step
<1>5. CASE ClientReturn(c)
  <2>1. others /\ PhaseOf(c) = "answered" /\ PhaseOf(c)' = "idle"
           /\ AnswerOf(c)' = "none" /\ ctlZombie' = ctlZombie
    BY <1>5 DEF ClientReturn, PhaseOf, AnswerOf
  <2>2. Service!Return(c)
    BY <2>1, ViewOfOne DEF Service!Return
  <2> QED
    BY <2>2 DEF Service!Next, Service!Step
<1>6. CASE ClientRead(c)
  \* What the client reads is what was settled when the request got flags.
  <2>1. reqFlags[c] # {} /\ rc'[c] = CodeOf(reqFlags[c]) /\ cpc[c] = "read" /\ cpc'[c] = "free"
    BY <1>6 DEF ClientRead, RequestInv
  <2>2. ~(wreq = c /\ wpc \in {"processed", "error"})
    BY <2>1, ThreadsAreDistinct DEF ReqMuxInv, WorkerInReq
  <2>3. path[c] = "new" <=> "PROCESSED" \in reqFlags[c] /\ "ERROR" \notin reqFlags[c]
    BY <2>1, <2>2 DEF PathInv, Submitted, Waiting
  <2>4. "ZOMBIE" \notin reqFlags[c] => "PROCESSED" \in reqFlags[c]
    BY <2>1 DEF RequestInv, Flags
  <2>5. AnswerOf(c) = CodeOf(reqFlags[c])
    BY <2>1, <2>3, <2>4 DEF AnswerOf, PhaseOf, CodeOf
  <2>6. PhaseOf(c)' = PhaseOf(c) /\ AnswerOf(c)' = AnswerOf(c)
    BY <2>1, <2>5, <1>6 DEF ClientRead, AnswerOf, PhaseOf
  <2>7. others /\ ctlZombie' = ctlZombie
    BY <1>6 DEF ClientRead, AnswerOf, PhaseOf
  <2> QED
    BY <2>6, <2>7, SameViewIntro
<1>7. CASE ClientAlloc(c) \/ ClientLockCtl(c) \/ ClientLockReq(c) \/ ClientFree(c)
  BY <1>7, SameViewIntro
     DEF ClientAlloc, ClientLockCtl, ClientLockReq, ClientFree, PhaseOf, AnswerOf
<1>8. CASE ClientWake(c) \/ ClientWait(c)
  BY <1>8, SameViewIntro DEF ClientWake, ClientWait, PhaseOf, AnswerOf
<1> QED
  BY <1>1, <1>2, <1>3, <1>4, <1>5, <1>6, <1>7, <1>8 DEF ClientStep

LEMMA WorkerRefines ==
  ASSUME IInv, WorkerStep
  PROVE  SameView \/ Service!Next
<1> USE DEF IInv, TypeOK, WorkerAt, ctlVars, reqVars, clientVars, rmmodVars
<1>1. CASE WorkerProcessed
  \* The answer is settled, and the shutdown has not begun.
  <2>0. PICK c \in Clients : c = wreq
    BY <1>1 DEF WorkerProcessed, WorkerInv, WorkerInReq
  <2>a. PICK a : a = IF path[c] = "new" THEN "ok" ELSE "enoent"
    OBVIOUS
  <2>1. Submitted(c) /\ reqFlags[c] = {} /\ ~ctlZombie
    BY <1>1, <2>0 DEF WorkerProcessed, WorkerInv, WorkerInReq, WorkerInCtl
  <2>2. /\ reqFlags' = [reqFlags EXCEPT ![c] = {"PROCESSED"}]
        /\ path' = path /\ cpc' = cpc /\ rc' = rc /\ ctlZombie' = ctlZombie
    BY <1>1, <2>0, <2>1 DEF WorkerProcessed, SetFlag
  <2>3. PhaseOf(c) = "accepted" /\ PhaseOf(c)' = "answered"
    BY <2>1, <2>2 DEF PhaseOf, Submitted, Waiting
  <2>4. AnswerOf(c)' = a
    BY <2>a, <2>1, <2>2, <2>3 DEF AnswerOf, Submitted, Waiting
  <2>5. \A d \in Clients \ {c} : PhaseOf(d)' = PhaseOf(d) /\ AnswerOf(d)' = AnswerOf(d)
    BY <2>1, <2>2 DEF AnswerOf, PhaseOf
  <2>6. Service!Serve(c)
    BY <2>a, <2>1, <2>2, <2>3, <2>4, <2>5, ViewOfOne DEF Service!Serve, Service!Give
  <2> QED
    BY <2>1, <2>6 DEF Service!Next, Service!Step
<1>2. CASE WorkerLookup
  \* The path is filled while the request has no flags: nothing shows yet.
  <2>1. /\ wreq \in Clients /\ Submitted(wreq) /\ reqFlags[wreq] = {}
        /\ \A d \in Clients : d # wreq => path'[d] = path[d]
        /\ reqFlags' = reqFlags /\ cpc' = cpc /\ rc' = rc /\ ctlZombie' = ctlZombie
    BY <1>2 DEF WorkerLookup, WorkerInv, WorkerInReq
  <2> QED
    BY <2>1, SameViewIntro DEF PhaseOf, AnswerOf, Submitted, Waiting
<1>3. CASE WorkerError
  <2>1. /\ wreq \in Clients /\ Submitted(wreq) /\ reqFlags[wreq] = {"PROCESSED"}
        /\ reqFlags' = [reqFlags EXCEPT ![wreq] = {"PROCESSED", "ERROR"}]
        /\ path' = path /\ cpc' = cpc /\ rc' = rc /\ ctlZombie' = ctlZombie
    BY <1>3 DEF WorkerError, SetFlag, WorkerInv, WorkerInReq
  <2> QED
    BY <2>1, SameViewIntro DEF PhaseOf, AnswerOf
<1>4. CASE WorkerWake
  <2>1. /\ \A d \in Clients : cpc'[d] = cpc[d] \/ (cpc[d] = "sleep" /\ cpc'[d] = "wait")
        /\ reqFlags' = reqFlags /\ path' = path /\ rc' = rc /\ ctlZombie' = ctlZombie
    BY <1>4 DEF WorkerWake, WakeClient
  <2> QED
    BY <2>1, SameViewIntro DEF PhaseOf, AnswerOf
<1>5. CASE WorkerWait \/ WorkerLockCtl \/ WorkerCheck \/ WorkerExit \/ WorkerFirst
             \/ WorkerDrained \/ WorkerTake \/ WorkerUnlock
  BY <1>5, SameViewIntro
     DEF WorkerWait, WorkerLockCtl, WorkerCheck, WorkerExit, WorkerFirst, WorkerDrained,
         WorkerTake, WorkerUnlock, PhaseOf, AnswerOf
<1> QED
  BY <1>1, <1>2, <1>3, <1>4, <1>5 DEF WorkerStep

LEMMA RmmodRefines ==
  ASSUME IInv, RmmodBegin \/ RmmodStep
  PROVE  SameView \/ Service!Next
<1> USE DEF IInv, TypeOK, RmmodAt, ctlVars, reqVars, clientVars, workerVars
<1>1. CASE RmmodMark
  <2>1. ~ctlZombie /\ ctlZombie' = TRUE
    BY <1>1 DEF RmmodMark, RmmodInv
  <2>2. \A d \in Clients : PhaseOf(d)' = PhaseOf(d) /\ AnswerOf(d)' = AnswerOf(d)
    BY <1>1 DEF RmmodMark, PhaseOf, AnswerOf
  <2> QED
    BY <2>1, <2>2 DEF Service!Next, Service!Close
<1>2. CASE RmmodFlag
  \* The request at the cursor is still waiting for its answer.
  <2>i. PICK i \in DOMAIN reqList : reqList[i] = rreq
    BY <1>2 DEF RmmodFlag, RmmodInv, RmmodInLoop
  <2>0. PICK c \in Clients : c = rreq
    BY <2>i
  <2>1. reqList[i] = c /\ Pending(i)
    BY <1>2, <2>i, <2>0 DEF RmmodFlag, RmmodInLoop, Pending
  <2>2. cpc[c] \in Waiting /\ reqFlags[c] = {} /\ ctlZombie
    BY <1>2, <2>1 DEF RmmodFlag, RmmodInv, RmmodInLoop, ListInv, Pending
  <2>3. /\ reqFlags' = [reqFlags EXCEPT ![c] = {"ZOMBIE"}]
        /\ path' = path /\ cpc' = cpc /\ rc' = rc /\ ctlZombie' = ctlZombie
    BY <1>2, <2>0, <2>2 DEF RmmodFlag, SetFlag
  <2>4. PhaseOf(c) = "accepted" /\ PhaseOf(c)' = "answered" /\ AnswerOf(c)' = "eio"
    BY <2>2, <2>3 DEF PhaseOf, AnswerOf, Waiting
  <2>5. \A d \in Clients \ {c} : PhaseOf(d)' = PhaseOf(d) /\ AnswerOf(d)' = AnswerOf(d)
    BY <2>2, <2>3 DEF AnswerOf, PhaseOf
  <2>6. Service!Drop(c)
    BY <2>2, <2>3, <2>4, <2>5, ViewOfOne DEF Service!Drop, Service!Give
  <2> QED
    BY <2>2, <2>6 DEF Service!Next, Service!Step
<1>3. CASE RmmodWake
  <2>1. /\ \A d \in Clients : cpc'[d] = cpc[d] \/ (cpc[d] = "sleep" /\ cpc'[d] = "wait")
        /\ reqFlags' = reqFlags /\ path' = path /\ rc' = rc /\ ctlZombie' = ctlZombie
    BY <1>3 DEF RmmodWake, WakeClient
  <2> QED
    BY <2>1, SameViewIntro DEF PhaseOf, AnswerOf
<1>4. CASE RmmodBegin \/ RmmodLockCtl \/ RmmodLockReq \/ RmmodUnlock \/ RmmodNext
             \/ RmmodUnlockCtl \/ RmmodStop \/ RmmodJoin \/ RmmodOops
  BY <1>4, SameViewIntro
     DEF RmmodBegin, RmmodLockCtl, RmmodLockReq, RmmodUnlock, RmmodNext, RmmodUnlockCtl,
         RmmodStop, RmmodJoin, RmmodOops, PhaseOf, AnswerOf
<1> QED
  BY <1>1, <1>2, <1>3, <1>4 DEF RmmodStep

\* The kernel thread, its list and its locks implement the lookup service: no
\* lookup is carried out after the shutdown began, none is dropped before it,
\* none is answered twice, and each caller returns the answer it was given.
THEOREM Refinement == Spec => ImplementsService
<1>1. Init => Service!Init
  BY DEF Init, Service!Init, PhaseOf, AnswerOf
<1>2. IInv /\ [Next]_vars => [Service!Next]_(Service!vars)
  <2> SUFFICES ASSUME IInv, [Next]_vars PROVE SameView \/ Service!Next
    BY DEF SameView
  <2>1. CASE UNCHANGED vars
    BY <2>1, SameViewIntro
       DEF vars, ctlVars, reqVars, clientVars, workerVars, rmmodVars, PhaseOf, AnswerOf
  <2> QED
    BY <2>1, ClientRefines, WorkerRefines, RmmodRefines DEF Next, Stopped
<1> QED
  BY <1>1, <1>2, Invariance, PTL DEF Spec, ImplementsService, Service!Spec
=============================================================================
