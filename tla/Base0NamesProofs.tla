-------------------------- MODULE Base0NamesProofs --------------------------
(* The upper inodes of base0fs, the references to everything below them, and  *)
(* the agreement of the two trees.                                            *)
EXTENDS Base0Names, FiniteSetTheorems, TLAPS

IsOp(r) ==
    /\ r = [kind |-> r.kind, u |-> r.u, u2 |-> r.u2, p |-> r.p, p2 |-> r.p2,
            i |-> r.i, fresh |-> r.fresh]
    /\ r.kind \in Kinds \cup {"none"}
    /\ r.u \in Uppers \cup {None} /\ r.u2 \in Uppers \cup {None}
    /\ r.i \in Inos \cup {None} /\ r.fresh \in BOOLEAN

Types ==
    /\ disk \in [Dirs -> Inos \cup {None}] /\ ino \in [Lowers -> Inos \cup {None}]
    /\ uat \in [Uppers -> Dirs \cup {"new", "dropped", "none"}]
    /\ priv \in [Uppers -> Lowers \cup {None}]
    /\ uino \in [Uppers -> Inos \cup {None}]
    /\ cached \in [Inos -> BOOLEAN] /\ isSet \in [Inos -> BOOLEAN]
    /\ grabs \in [Inos -> Nat]
    /\ upLock \in [Dirs -> Tasks \cup {None}]
    /\ pc \in [Tasks -> Pcs]
    /\ DOMAIN op = Tasks /\ \A t \in Tasks : IsOp(op[t])

\* A dentry has its private data from base0fs_lookup to d_release.
DentryOf(u) ==
    /\ uat[u] = "none" => priv[u] = None /\ uino[u] = None
    /\ uat[u] \in Dirs \cup {"dropped"} => priv[u] # None

\* The dentries of a call stay as long as it needs them.
CallOf(t) ==
    /\ pc[t] = "idle" => op[t] = NoOp
    /\ pc[t] # "idle" =>
          /\ op[t].kind # "none" /\ op[t].u \in Uppers
          /\ pc[t] # "look" => priv[op[t].u] # None
    /\ pc[t] = "look" => op[t].kind = "lookup" /\ priv[op[t].u] = None
    /\ op[t].kind = "lookup" =>
          /\ op[t].u2 = None /\ uat[op[t].u] = "new" /\ uino[op[t].u] = None
          /\ \E d \in Dirs : upLock[d] = t
    /\ op[t].kind \in Kinds \ {"lookup"} => uat[op[t].u] \in Dirs \cup {"dropped"}
    /\ op[t].kind \in {"link", "rename"} => op[t].u2 # None
    /\ op[t].u2 # None => uat[op[t].u2] \in Dirs \cup {"dropped"}

\* A dentry that is being looked up belongs to that call.
OwnDentry(t) ==
    op[t].kind = "lookup" => \A s \in Tasks \ {t} : op[t].u \notin {op[s].u, op[s].u2}

DentryInv ==
    /\ \A u \in Uppers : DentryOf(u)
    /\ \A t \in Tasks : CallOf(t) /\ OwnDentry(t)

\* An upper inode that is linked to a lower one has a reference to it, and a
\* dentry gets only such an inode.  The call between iget and the store keeps it.
InodeInv ==
    /\ \A i \in Inos :
        /\ isSet[i] => cached[i] /\ grabs[i] > 0
        /\ cached[i] => isSet[i] \/ \E t \in Tasks : op[t].i = i
    /\ \A u \in Uppers : uino[u] # None => isSet[uino[u]]
    /\ \A t \in Tasks :
        /\ pc[t] = "set" <=> op[t].i # None
        /\ pc[t] = "set" => cached[op[t].i] /\ (op[t].fresh \/ isSet[op[t].i])

NamesInv == Types /\ DentryInv /\ InodeInv

-----------------------------------------------------------------------------
(* How a call of the VFS begins, goes on and ends.                          *)

Alone(t) == \A s \in Tasks \ {t} : pc'[s] = pc[s] /\ op'[s] = op[s]
CallTypes == pc' \in [Tasks -> Pcs] /\ DOMAIN op' = Tasks /\ upLock' \in [Dirs -> Tasks \cup {None}]

\* A call begins with its arguments, and takes the locks it names.
LEMMA CallBegins ==
  ASSUME Types, NEW t \in Tasks, NEW kind \in Kinds, NEW ds \in SUBSET Dirs,
         NEW u \in Uppers, NEW u2 \in Uppers \cup {None}, NEW there \in Pcs,
         At(t, "idle", there), Call(t, kind, ds, u, u2)
  PROVE  /\ CallTypes /\ Alone(t) /\ pc[t] = "idle" /\ pc'[t] = there
         /\ IsOp(op'[t]) /\ op'[t].kind = kind /\ op'[t].u = u /\ op'[t].u2 = u2 /\ op'[t].i = None
         /\ op'[t].p = (IF kind \in OneParent \cup {"rename"} THEN Parent(u) ELSE None)
         /\ op'[t].p2 = (IF kind = "rename" THEN Parent(u2) ELSE None)
         /\ \A d \in Dirs : upLock'[d] = IF d \in ds THEN t ELSE upLock[d]
         /\ \A d \in ds : upLock[d] = None
BY DEF Types, IsOp, Call, At, CallTypes, Alone

\* A call that returns forgets its arguments and leaves its locks.
LEMMA CallEnds ==
  ASSUME Types, NEW t \in Tasks, Return(t)
  PROVE  /\ CallTypes /\ Alone(t) /\ pc'[t] = "idle" /\ op'[t] = NoOp
         /\ \A d \in Dirs : upLock'[d] = IF upLock[d] = t THEN None ELSE upLock[d]
BY DEF Types, Return, CallTypes, Alone, Pcs

\* A task that does nothing holds no dentry.
LEMMA NoOpIsOp ==
  /\ IsOp(NoOp) /\ NoOp.kind = "none" /\ NoOp.u = None /\ NoOp.u2 = None /\ NoOp.i = None
  /\ NoOp.p = None /\ NoOp.p2 = None
BY DEF IsOp, NoOp
-----------------------------------------------------------------------------
(* The dentries.                                                            *)

Linked == Dirs \cup {"dropped"}

\* A step after which the dentries others use are as before, and all have
\* private data when they should.
DentriesStay(t) ==
    /\ \A u \in Uppers :
        /\ uat'[u] = "none" => priv'[u] = None /\ uino'[u] = None
        /\ uat'[u] \in Linked => priv'[u] # None
        /\ uat[u] \in Linked => uat'[u] \in Linked
        /\ priv[u] # None /\ u # op[t].u => priv'[u] # None
        /\ uat[u] = "new" /\ u # op[t].u => uat'[u] = "new" /\ uino'[u] = uino[u] /\ priv'[u] = priv[u]
    /\ \A d \in Dirs : upLock[d] \in Tasks \ {t} => upLock'[d] = upLock[d]

\* What the other tasks use is still there.
LEMMA OthersStay ==
  ASSUME Types, DentryInv, NEW t \in Tasks, Alone(t), DentriesStay(t), NEW s \in Tasks \ {t}
  PROVE  CallOf(s)'
<1>1. pc'[s] = pc[s] /\ op'[s] = op[s] /\ IsOp(op[s]) /\ op[s].u \in Uppers \cup {None}
      /\ op[s].u2 \in Uppers \cup {None} /\ op[s].kind \in Kinds \cup {"none"}
  BY DEF Alone, Types, IsOp
<1>2. pc[s] # "idle" <=> op[s].kind # "none"
  BY NoOpIsOp DEF DentryInv, CallOf, DentryOf, OwnDentry
<1>3. op[s].kind = "lookup" => op[s].u # op[t].u
  BY DEF DentryInv, CallOf, DentryOf, OwnDentry
<1>4. op[s].kind \in Kinds \ {"lookup"} => op[s].u \in Uppers /\ uat[op[s].u] \in Linked
  BY <1>2 DEF DentryInv, CallOf, DentryOf, OwnDentry, Linked, Kinds
<1>5. op[s].kind \in Kinds \ {"lookup"} =>
          uat'[op[s].u] \in Linked /\ priv'[op[s].u] # None /\ pc[s] # "look"
  BY <1>4 DEF DentriesStay, DentryInv, CallOf, OwnDentry
<1>6. op[s].u2 # None => uat'[op[s].u2] \in Linked
  BY <1>1 DEF DentriesStay, DentryInv, CallOf, OwnDentry, Linked
<1>7. op[s].kind = "lookup" =>
          /\ op[s].u \in Uppers /\ uat'[op[s].u] = "new" /\ uino'[op[s].u] = None
          /\ priv'[op[s].u] = priv[op[s].u]
          /\ op[s].u2 = None /\ \E d \in Dirs : upLock'[d] = s
  BY <1>2, <1>3 DEF DentriesStay, DentryInv, CallOf, OwnDentry, Kinds
<1> QED
  BY <1>1, <1>2, <1>5, <1>6, <1>7 DEF DentryInv, CallOf, Linked

\* A call may end after any step that leaves the others theirs.
LEMMA EndKeepsDentries ==
  ASSUME Types, DentryInv, NEW t \in Tasks, Alone(t), DentriesStay(t),
         pc'[t] = "idle" /\ op'[t] = NoOp
  PROVE  DentryInv'
<1>1. \A s \in Tasks : OwnDentry(s)'
  BY NoOpIsOp, NoneIsNothing DEF Alone, DentryInv, OwnDentry, CallOf, Kinds
<1>2. \A u \in Uppers : DentryOf(u)'
  BY DEF DentriesStay, DentryOf, Linked
<1>3. CallOf(t)'
  BY NoOpIsOp, NoneIsNothing DEF CallOf, Kinds
<1> QED
  BY <1>1, <1>2, <1>3, OthersStay DEF DentryInv

\* A call may go on after any step that leaves the dentries alone.
LEMMA MiddleKeepsDentries ==
  ASSUME Types, DentryInv, NEW t \in Tasks, Alone(t), UNCHANGED <<uat, uino, upLock>>,
         pc[t] # "idle", pc'[t] \notin {"idle", "look"},
         op'[t].kind = op[t].kind, op'[t].u = op[t].u, op'[t].u2 = op[t].u2,
         \/ pc[t] # "look" /\ priv' = priv
         \/ pc[t] = "look" /\ \E l \in Lowers : priv' = [priv EXCEPT ![op[t].u] = l]
  PROVE  DentryInv'
<1>1. /\ op[t].u \in Uppers /\ op[t].kind # "none"
      /\ pc[t] = "look" => uat[op[t].u] = "new" /\ op[t].kind = "lookup"
  BY DEF DentryInv, CallOf
<1>2. \A u \in Uppers : u # op[t].u => priv'[u] = priv[u]
  BY <1>1 DEF Types
<1>3. priv'[op[t].u] # None
  BY <1>1, NoneIsNothing DEF Types, DentryInv, CallOf
<1>4. DentriesStay(t)
  BY <1>1, <1>2, <1>3, NoneIsNothing DEF DentriesStay, DentryInv, DentryOf, Linked
<1>5. \A u \in Uppers : DentryOf(u)'
  BY <1>1, <1>2, <1>3, NoneIsNothing DEF DentryInv, DentryOf
<1>6. CallOf(t)'
  BY <1>1, <1>3 DEF DentryInv, CallOf
<1>7. \A s \in Tasks : OwnDentry(s)'
  BY DEF Alone, DentryInv, OwnDentry
<1> QED
  BY <1>4, <1>5, <1>6, <1>7, OthersStay DEF DentryInv

\* A call may begin for dentries that are not being looked up.
LEMMA BeginKeepsDentries ==
  ASSUME Types, DentryInv, NEW t \in Tasks, Alone(t), UNCHANGED <<priv, uino>>,
         pc[t] = "idle", pc'[t] \in {"look", "lock", "use"}, IsOp(op'[t]),
         op'[t].u \in Uppers, op'[t].kind # "none",
         \A d \in Dirs : upLock[d] \in Tasks \ {t} => upLock'[d] = upLock[d],
         \/ /\ pc'[t] = "look" /\ op'[t].kind = "lookup" /\ op'[t].u2 = None
            /\ uat[op'[t].u] = "none" /\ uat' = [uat EXCEPT ![op'[t].u] = "new"]
            /\ \E d \in Dirs : upLock'[d] = t
         \/ /\ pc'[t] # "look" /\ op'[t].kind # "lookup" /\ uat' = uat
            /\ uat[op'[t].u] \in Linked
            /\ op'[t].kind \in {"link", "rename"} => op'[t].u2 # None
            /\ op'[t].u2 # None => uat[op'[t].u2] \in Linked
  PROVE  DentryInv'
<1>1. op[t] = NoOp /\ op[t].u = None /\ op[t].u2 = None /\ op[t].kind = "none"
  BY NoOpIsOp DEF DentryInv, CallOf
<1>2. op'[t].u2 \in Uppers \cup {None}
  BY DEF IsOp
<1>3. DentriesStay(t)
  BY <1>1, NoneIsNothing DEF DentriesStay, DentryInv, DentryOf, Linked, Types
<1>4. \A u \in Uppers : DentryOf(u)'
  BY NoneIsNothing DEF DentryInv, DentryOf, Types
<1>5. CallOf(t)'
  BY NoneIsNothing DEF DentryInv, DentryOf, CallOf, Linked, Types
<1>6. \A s \in Tasks \ {t} : uat[op[s].u] # "none" \/ op[s].u = None
  BY NoOpIsOp, NoneIsNothing DEF Types, IsOp, Kinds, DentryInv, CallOf
<1>7. \A s \in Tasks \ {t} : uat[op[s].u2] # "none" \/ op[s].u2 = None
  BY NoneIsNothing DEF DentryInv, CallOf
<1>8. \A s \in Tasks \ {t} : op[s].kind = "lookup" => uat[op[s].u] = "new" /\ op[s].u \in Uppers
  BY NoOpIsOp DEF DentryInv, CallOf
<1>9. \A s \in Tasks : OwnDentry(s)'
  BY <1>2, <1>6, <1>7, <1>8, NoneIsNothing DEF Alone, DentryInv, OwnDentry, Linked
<1> QED
  BY <1>3, <1>4, <1>5, <1>9, OthersStay DEF DentryInv

\* The steps that begin a call.
BeginStep(t) ==
    \/ \E u \in Uppers : Hold(t, u)
    \/ \E u \in Uppers, d \in Dirs :
          \/ StartLookup(t, d, u) \/ StartMake(t, d, u) \/ StartRemove(t, d, u)
          \/ \E v \in Uppers : StartLink(t, d, u, v)
          \/ \E v \in Uppers, e \in Dirs : StartRename(t, d, e, u, v)

\* The call operates on what the VFS has found.
LEMMA CallOnBegins ==
  ASSUME Types, DentryInv, NEW t \in Tasks, NEW kind \in Kinds \ {"lookup"}, NEW ds \in SUBSET Dirs,
         NEW u \in Uppers, NEW u2 \in Uppers \cup {None}, CallOn(t, kind, ds, u, u2),
         uat[u] \in Linked, kind \in {"link", "rename"} => u2 # None, u2 # None => uat[u2] \in Linked
  PROVE  Types' /\ DentryInv'
<1>1. At(t, "idle", "lock") /\ Call(t, kind, ds, u, u2)
      /\ UNCHANGED <<disk, ino, uat, priv, uino, cached, isSet, grabs>>
  BY DEF CallOn, lowerVars, upperVars, inodeVars
<1>2. "lock" \in Pcs
  BY DEF Pcs
<1>3. /\ CallTypes /\ Alone(t) /\ pc[t] = "idle" /\ pc'[t] = "lock"
      /\ IsOp(op'[t]) /\ op'[t].kind = kind /\ op'[t].u = u /\ op'[t].u2 = u2
      /\ \A d \in Dirs : upLock'[d] = IF d \in ds THEN t ELSE upLock[d]
      /\ \A d \in ds : upLock[d] = None
  BY <1>1, <1>2, CallBegins
<1>4. Types'
  BY <1>1, <1>3 DEF Types, CallTypes, Alone
<1>5. kind # "none" /\ \A d \in Dirs : upLock[d] \in Tasks \ {t} => upLock'[d] = upLock[d]
  BY <1>3, NoneIsNothing DEF Kinds
<1> QED
  BY <1>1, <1>3, <1>4, <1>5, BeginKeepsDentries

\* The steps that begin a call.
LEMMA BeginsKeepDentries ==
  ASSUME Types, DentryInv, NEW t \in Tasks, BeginStep(t)
  PROVE  Types' /\ DentryInv'
<1> USE DEF upperVars, inodeVars, lowerVars
<1>1. CASE \E u \in Uppers : Hold(t, u)
  <2>1. PICK u \in Uppers : Hold(t, u)
    BY <1>1
  <2>2. "use" \in Pcs /\ "setattr" \in Kinds /\ {} \in SUBSET Dirs /\ None \in Uppers \cup {None}
    BY DEF Pcs, Kinds
  <2>3. At(t, "idle", "use") /\ Call(t, "setattr", {}, u, None) /\ uat[u] \in Linked
        /\ UNCHANGED <<disk, ino, uat, priv, uino, cached, isSet, grabs>>
    BY <2>1 DEF Hold, Linked
  <2>4. /\ CallTypes /\ Alone(t) /\ pc[t] = "idle" /\ pc'[t] = "use"
        /\ IsOp(op'[t]) /\ op'[t].kind = "setattr" /\ op'[t].u = u /\ op'[t].u2 = None
        /\ \A d \in Dirs : upLock'[d] = upLock[d]
    BY <2>2, <2>3, CallBegins
  <2>5. Types'
    BY <2>3, <2>4 DEF Types, CallTypes, Alone
  <2> QED
    BY <2>3, <2>4, <2>5, BeginKeepsDentries
<1>2. ASSUME NEW u \in Uppers, NEW d \in Dirs, StartLookup(t, d, u)
      PROVE  Types' /\ DentryInv'
  <2>1. "look" \in Pcs /\ "lookup" \in Kinds /\ {d} \in SUBSET Dirs /\ None \in Uppers \cup {None}
    BY DEF Pcs, Kinds
  <2>2. At(t, "idle", "look") /\ Call(t, "lookup", {d}, u, None)
    BY <1>2 DEF StartLookup
  <2>3. uat[u] = "none" /\ uat' = [uat EXCEPT ![u] = "new"]
        /\ UNCHANGED <<disk, ino, priv, uino, cached, isSet, grabs>>
    BY <1>2 DEF StartLookup
  <2>4. /\ CallTypes /\ Alone(t) /\ pc[t] = "idle" /\ pc'[t] = "look"
        /\ IsOp(op'[t]) /\ op'[t].kind = "lookup" /\ op'[t].u = u /\ op'[t].u2 = None
        /\ \A e \in Dirs : upLock'[e] = IF e \in {d} THEN t ELSE upLock[e]
        /\ \A e \in {d} : upLock[e] = None
    BY <2>1, <2>2, CallBegins
  <2>5. Types'
    BY <2>3, <2>4 DEF Types, CallTypes, Alone
  <2>6. upLock'[d] = t /\ \A e \in Dirs : upLock[e] \in Tasks \ {t} => upLock'[e] = upLock[e]
    BY <2>4, NoneIsNothing
  <2> QED
    BY <2>3, <2>4, <2>5, <2>6, BeginKeepsDentries
<1>3. ASSUME NEW u \in Uppers, NEW d \in Dirs, StartMake(t, d, u) \/ StartRemove(t, d, u)
      PROVE  Types' /\ DentryInv'
  <2>1. PICK kind \in {"create", "mkdir", "rmdir", "unlink"} : CallOn(t, kind, {d}, u, None)
    BY <1>3 DEF StartMake, StartRemove
  <2>2. uat[u] \in Linked /\ kind \in Kinds \ {"lookup"}
    BY <1>3 DEF StartMake, StartRemove, Linked, Kinds
  <2> QED
    BY <2>1, <2>2, CallOnBegins
<1>4. ASSUME NEW u \in Uppers, NEW d \in Dirs, NEW v \in Uppers, StartLink(t, d, u, v)
      PROVE  Types' /\ DentryInv'
  <2>1. CallOn(t, "link", {d}, u, v) /\ uat[u] \in Linked /\ uat[v] \in Linked
        /\ "link" \in Kinds \ {"lookup"} /\ v # None
    BY <1>4, NoneIsNothing DEF StartLink, Linked, Kinds
  <2> QED
    BY <2>1, CallOnBegins
<1>5. ASSUME NEW u \in Uppers, NEW d \in Dirs, NEW v \in Uppers, NEW e \in Dirs,
             StartRename(t, d, e, u, v)
      PROVE  Types' /\ DentryInv'
  <2>1. CallOn(t, "rename", {d, e}, u, v) /\ uat[u] \in Linked /\ uat[v] \in Linked
        /\ "rename" \in Kinds \ {"lookup"} /\ v # None
    BY <1>5, NoneIsNothing DEF StartRename, Linked, Kinds
  <2> QED
    BY <2>1, CallOnBegins
<1> QED
  BY <1>1, <1>2, <1>3, <1>4, <1>5 DEF BeginStep

\* The steps by which a call goes on.
MiddleStep(t) ==
    \/ Lock(t) \/ Iget(t) \/ IgetOfNothing(t) \/ Make(t) \/ Link(t) \/ ActOnMoved(t)

\* A call between the steps has a dentry with private data.
LEMMA CallDentries ==
  ASSUME Types, DentryInv, NEW t \in Tasks, pc[t] \notin {"idle", "look"}
  PROVE  /\ op[t].u \in Uppers /\ priv[op[t].u] \in Lowers /\ ino[priv[op[t].u]] \in Inos \cup {None}
         /\ op[t].kind \in Kinds
         /\ op[t].kind # "lookup" => uat[op[t].u] \in Linked
         /\ op[t].kind \in {"link", "rename"} =>
               /\ op[t].u2 \in Uppers /\ uat[op[t].u2] \in Linked
               /\ priv[op[t].u2] \in Lowers /\ ino[priv[op[t].u2]] \in Inos \cup {None}
<1>1. /\ op[t].u \in Uppers /\ priv[op[t].u] # None /\ op[t].kind \in Kinds
      /\ op[t].kind # "lookup" => uat[op[t].u] \in Linked
  BY DEF Types, IsOp, DentryInv, CallOf, Linked
<1>2. op[t].kind \in {"link", "rename"} => op[t].u2 \in Uppers /\ uat[op[t].u2] \in Linked
  BY DEF Types, IsOp, DentryInv, CallOf, Linked
<1>3. \A u \in Uppers : uat[u] \in Linked => priv[u] # None
  BY DEF DentryInv, DentryOf, Linked
<1>4. \A u \in Uppers : priv[u] # None => priv[u] \in Lowers /\ ino[priv[u]] \in Inos \cup {None}
  BY DEF Types
<1> QED
  BY <1>1, <1>2, <1>3, <1>4

\* The steps in the middle of a call.
LEMMA MiddlesKeepDentries ==
  ASSUME Types, DentryInv, NEW t \in Tasks, MiddleStep(t)
  PROVE  Types' /\ DentryInv'
<1> USE DEF upperVars, inodeVars, lowerVars, lockVars
<1>1. pc[t] \notin {"idle", "look"} /\ UNCHANGED <<uat, uino, priv, upLock>>
  BY DEF MiddleStep, Lock, Iget, IgetOfNothing, Make, Link, ActOnMoved, At
<1>2. /\ op[t].u \in Uppers /\ priv[op[t].u] \in Lowers /\ ino[priv[op[t].u]] \in Inos \cup {None}
      /\ op[t].kind \in {"link", "rename"} => ino[priv[op[t].u2]] \in Inos \cup {None}
  BY <1>1, CallDentries
<1>3. CASE Iget(t)
  <2> DEFINE i == ino[priv[op[t].u]]
  <2>1. /\ i \in Inos /\ pc[t] = "iget" /\ pc' = [pc EXCEPT ![t] = "set"] /\ "set" \in Pcs
        /\ cached' = [cached EXCEPT ![i] = TRUE] /\ isSet[i] \in BOOLEAN
        /\ UNCHANGED <<disk, ino, isSet, grabs>>
    BY <1>2, <1>3 DEF Iget, At, Types, Pcs
  <2>2. op' = [op EXCEPT ![t].i = i, ![t].fresh = ~isSet[i]]
    BY <1>3, Zenon DEF Iget
  <2> HIDE DEF i
  <2>3. IsOp(op[t]) /\ DOMAIN op = Tasks
    BY DEF Types
  <2>4. op'[t] = [op[t] EXCEPT !.i = i, !.fresh = ~isSet[i]] /\ DOMAIN op' = Tasks
        /\ \A s \in Tasks \ {t} : op'[s] = op[s]
    BY <2>3, <2>2, Zenon
  <2>5. op'[t] = [kind |-> op[t].kind, u |-> op[t].u, u2 |-> op[t].u2, p |-> op[t].p,
                  p2 |-> op[t].p2, i |-> i, fresh |-> ~isSet[i]]
    BY <2>3, <2>4, Zenon DEF IsOp
  <2>6. pc'[t] = "set" /\ pc' \in [Tasks -> Pcs] /\ \A s \in Tasks \ {t} : pc'[s] = pc[s]
    BY <2>1 DEF Types
  <2>7. /\ op'[t] = [kind |-> op[t].kind, u |-> op[t].u, u2 |-> op[t].u2, p |-> op[t].p,
                      p2 |-> op[t].p2, i |-> i, fresh |-> ~isSet[i]]
        /\ Alone(t) /\ DOMAIN op' = Tasks /\ pc'[t] = "set" /\ pc' \in [Tasks -> Pcs]
    BY <2>4, <2>5, <2>6 DEF Alone
  <2>8. IsOp(op'[t])
    BY <2>1, <2>7 DEF Types, IsOp
  <2>9. Types'
    BY <1>1, <2>1, <2>7, <2>8 DEF Types, Alone
  <2> QED
    BY <1>1, <2>7, <2>9, MiddleKeepsDentries
<1>4. CASE Lock(t) \/ IgetOfNothing(t) \/ Make(t) \/ Link(t) \/ ActOnMoved(t)
  <2>1. PICK there \in {"act", "bug", "iget"} :
            pc' = [pc EXCEPT ![t] = there] /\ UNCHANGED <<op, cached, isSet, grabs>>
    BY <1>4 DEF Lock, IgetOfNothing, Make, Link, ActOnMoved, At
  <2>2. disk' \in [Dirs -> Inos \cup {None}] /\ ino' \in [Lowers -> Inos \cup {None}]
    <3>1. CASE Make(t)
      <4>1. PICK i \in FreeInos : Enter(op[t].p, priv[op[t].u], i)
        BY <3>1 DEF Make
      <4> QED
        BY <4>1 DEF Enter, FreeInos, Types
    <3>2. CASE Link(t)
      BY <1>2, <3>2 DEF Link, Enter, Types
    <3> QED
      BY <1>4, <3>1, <3>2 DEF Lock, IgetOfNothing, ActOnMoved, Types
  <2>3. Alone(t) /\ pc'[t] = there /\ pc' \in [Tasks -> Pcs]
    BY <2>1 DEF Types, Alone, Pcs
  <2>4. Types'
    BY <1>1, <2>1, <2>2, <2>3 DEF Types
  <2> QED
    BY <1>1, <2>1, <2>3, <2>4, MiddleKeepsDentries
<1> QED
  BY <1>3, <1>4 DEF MiddleStep

\* The steps of a lookup in the lower directory.
LookStep(t) == (\E d \in Dirs, l \in Lowers : Look(t, d, l)) \/ LookFails(t) \/ LookLosesMount(t)

\* The types after a call that ends.
LEMMA EndTypes ==
  ASSUME Types, NEW t \in Tasks, Return(t),
         cached' \in [Inos -> BOOLEAN], isSet' \in [Inos -> BOOLEAN], grabs' \in [Inos -> Nat],
         disk' \in [Dirs -> Inos \cup {None}] /\ ino' \in [Lowers -> Inos \cup {None}],
         uat' \in [Uppers -> Dirs \cup {"new", "dropped", "none"}],
         priv' \in [Uppers -> Lowers \cup {None}], uino' \in [Uppers -> Inos \cup {None}]
  PROVE  Types' /\ Alone(t) /\ pc'[t] = "idle" /\ op'[t] = NoOp
         /\ \A d \in Dirs : upLock[d] \in Tasks \ {t} => upLock'[d] = upLock[d]
<1>1. /\ CallTypes /\ Alone(t) /\ pc'[t] = "idle" /\ op'[t] = NoOp
      /\ \A d \in Dirs : upLock[d] \in Tasks \ {t} => upLock'[d] = upLock[d]
  BY CallEnds
<1> QED
  BY <1>1, NoOpIsOp DEF Types, CallTypes, Alone

\* What a lookup finds, and how it fails.
LEMMA LooksKeepDentries ==
  ASSUME Types, DentryInv, NEW t \in Tasks, LookStep(t)
  PROVE  Types' /\ DentryInv'
<1> USE DEF upperVars, inodeVars, lowerVars, lockVars
<1> DEFINE u == op[t].u
<1>1. pc[t] = "look" /\ UNCHANGED <<cached, isSet, grabs, uino, disk>>
  BY DEF LookStep, Look, LookFails, LookLosesMount, LowerLookup
<1>2. u \in Uppers /\ priv[u] = None /\ uat[u] = "new" /\ uino[u] = None
  BY <1>1 DEF DentryInv, CallOf
<1>3. ASSUME NEW d \in Dirs, NEW l \in Lowers, Look(t, d, l)
      PROVE  Types' /\ DentryInv'
  <2>1. ino' \in [Lowers -> Inos \cup {None}]
    BY <1>3 DEF Look, LowerLookup, Types
  <2>2. priv' = [priv EXCEPT ![u] = l] /\ priv' \in [Uppers -> Lowers \cup {None}]
    BY <1>2, <1>3 DEF Look, Types
  <2>3. CASE ino'[l] = None
    <3>1. Return(t)
      BY <1>3, <2>3 DEF Look
    <3>2. uat' = [uat EXCEPT ![u] = d] /\ uat' \in [Uppers -> Dirs \cup {"new", "dropped", "none"}]
      BY <1>3, <2>3 DEF Look, Types
    <3>3. Types' /\ Alone(t) /\ pc'[t] = "idle" /\ op'[t] = NoOp
          /\ \A e \in Dirs : upLock[e] \in Tasks \ {t} => upLock'[e] = upLock[e]
      BY <1>1, <2>1, <2>2, <3>1, <3>2, EndTypes DEF Types
    <3>4. DentriesStay(t)
      BY <1>1, <1>2, <2>2, <3>2, <3>3, NoneIsNothing DEF DentriesStay, Linked, Types, DentryInv, DentryOf
    <3> QED
      BY <3>3, <3>4, EndKeepsDentries
  <2>4. CASE ino'[l] # None
    <3>1. At(t, "look", "iget") /\ UNCHANGED <<uat, upLock, op>>
      BY <1>3, <2>4 DEF Look
    <3>2. Alone(t) /\ pc'[t] = "iget" /\ pc' \in [Tasks -> Pcs]
      BY <3>1 DEF At, Alone, Types, Pcs
    <3>3. Types'
      BY <1>1, <2>1, <2>2, <3>1, <3>2 DEF Types
    <3> QED
      BY <1>1, <2>2, <3>1, <3>2, <3>3, MiddleKeepsDentries
  <2> QED
    BY <2>3, <2>4
<1>4. CASE LookFails(t) \/ LookLosesMount(t)
  <2>1. Return(t) /\ UNCHANGED <<ino, priv>> /\ uat' = [uat EXCEPT ![u] = "none"]
    BY <1>4 DEF LookFails, LookLosesMount
  <2>2. uat' \in [Uppers -> Dirs \cup {"new", "dropped", "none"}]
    BY <2>1 DEF Types
  <2>3. Types' /\ Alone(t) /\ pc'[t] = "idle" /\ op'[t] = NoOp
        /\ \A e \in Dirs : upLock[e] \in Tasks \ {t} => upLock'[e] = upLock[e]
    BY <1>1, <2>1, <2>2, EndTypes DEF Types
  <2>4. DentriesStay(t)
    BY <1>1, <1>2, <2>1, <2>3, NoneIsNothing DEF DentriesStay, Linked, Types, DentryInv, DentryOf
  <2> QED
    BY <2>3, <2>4, EndKeepsDentries
<1> QED
  BY <1>3, <1>4 DEF LookStep

\* The steps that end a call.
EndStep(t) ==
    \/ LookupFails(t) \/ ActFails(t) \/ InterposeFails(t) \/ Interpose(t)
    \/ Remove(t) \/ Rename(t) \/ Setattr(t)

\* The steps that end a call.
LEMMA EndsKeepDentries ==
  ASSUME Types, DentryInv, NEW t \in Tasks, EndStep(t), pc[t] = "set" => op[t].i \in Inos
  PROVE  Types' /\ DentryInv'
<1> USE DEF upperVars, inodeVars, lowerVars, lockVars
<1> DEFINE u == op[t].u
           u2 == op[t].u2
<1>1. pc[t] \notin {"idle", "look"}
  BY DEF EndStep, LookupFails, ActFails, InterposeFails, Interpose, Remove, Rename, Setattr
<1>2. /\ u \in Uppers /\ priv[u] \in Lowers /\ ino[priv[u]] \in Inos \cup {None}
      /\ op[t].kind \in Kinds /\ (op[t].kind # "lookup" => uat[u] \in Linked)
      /\ op[t].kind \in {"link", "rename"} =>
            u2 \in Uppers /\ uat[u2] \in Linked /\ priv[u2] \in Lowers
  BY <1>1, CallDentries
<1>3. op[t].kind = "lookup" => uat[u] = "new" /\ uino[u] = None /\ \E d \in Dirs : upLock[d] = t
  BY DEF DentryInv, CallOf
<1>4. \A l \in Lowers : ino[l] \in Inos \cup {None}
  BY DEF Types
<1>5. CASE LookupFails(t)
  <2>1. /\ Return(t) /\ UNCHANGED <<disk, uino, cached, isSet, grabs>> /\ op[t].kind = "lookup"
        /\ uat' = [uat EXCEPT ![u] = "none"] /\ priv' = [priv EXCEPT ![u] = None]
        /\ ino' \in [Lowers -> Inos \cup {None}]
    BY <1>4, <1>5 DEF LookupFails, Shrink
  <2>2. /\ uat' \in [Uppers -> Dirs \cup {"new", "dropped", "none"}]
        /\ priv' \in [Uppers -> Lowers \cup {None}]
    BY <2>1 DEF Types
  <2>3. Types' /\ Alone(t) /\ pc'[t] = "idle" /\ op'[t] = NoOp
        /\ \A d \in Dirs : upLock[d] \in Tasks \ {t} => upLock'[d] = upLock[d]
    BY <2>1, <2>2, EndTypes DEF Types
  <2>4. DentriesStay(t)
    BY <1>2, <1>3, <2>1, <2>3, NoneIsNothing DEF DentriesStay, Linked, Types, DentryInv, DentryOf
  <2> QED
    BY <2>3, <2>4, EndKeepsDentries
<1>6. CASE ActFails(t) \/ InterposeFails(t)
  <2>1. /\ Return(t) /\ UNCHANGED <<disk, ino, priv, uino, cached, isSet, grabs>>
        /\ uat' = uat \/ (op[t].kind # "lookup" /\ uat' = [uat EXCEPT ![u] = "dropped"])
    BY <1>6 DEF ActFails, InterposeFails, Forget, Drop, UnlockDir
  <2>2. uat' \in [Uppers -> Dirs \cup {"new", "dropped", "none"}]
    BY <2>1 DEF Types
  <2>3. Types' /\ Alone(t) /\ pc'[t] = "idle" /\ op'[t] = NoOp
        /\ \A d \in Dirs : upLock[d] \in Tasks \ {t} => upLock'[d] = upLock[d]
    BY <2>1, <2>2, EndTypes DEF Types
  <2>4. DentriesStay(t)
    BY <1>2, <2>1, <2>3, NoneIsNothing DEF DentriesStay, Linked, Types, DentryInv, DentryOf
  <2> QED
    BY <2>3, <2>4, EndKeepsDentries
<1>7. CASE Interpose(t)
  <2>1. /\ Return(t) /\ UNCHANGED <<disk, ino, priv, cached>>
        /\ isSet' \in [Inos -> BOOLEAN] /\ grabs' \in [Inos -> Nat]
    BY <1>7 DEF Interpose, UnlockDir, Grab, Types
  <2>2. uino' = [uino EXCEPT ![u] = op[t].i] /\ uino' \in [Uppers -> Inos \cup {None}]
    BY <1>2, <1>7 DEF Interpose, Types
  <2>3. \/ op[t].kind # "lookup" /\ uat' = uat
        \/ \E d \in Dirs : uat' = [uat EXCEPT ![u] = d]
    BY <1>3, <1>7 DEF Interpose
  <2>4. uat' \in [Uppers -> Dirs \cup {"new", "dropped", "none"}]
    BY <2>3 DEF Types
  <2>5. Types' /\ Alone(t) /\ pc'[t] = "idle" /\ op'[t] = NoOp
        /\ \A d \in Dirs : upLock[d] \in Tasks \ {t} => upLock'[d] = upLock[d]
    BY <2>1, <2>2, <2>4, EndTypes DEF Types
  <2>6. DentriesStay(t)
    BY <1>2, <2>1, <2>2, <2>3, <2>5, NoneIsNothing DEF DentriesStay, Linked, Types, DentryInv, DentryOf
  <2> QED
    BY <2>5, <2>6, EndKeepsDentries
<1>8. CASE Remove(t)
  <2>1. /\ Return(t) /\ UNCHANGED <<priv, uino, cached, isSet, grabs>>
        /\ uat' = [uat EXCEPT ![u] = "dropped"] /\ op[t].kind # "lookup"
    BY <1>8 DEF Remove, UnlockDir, Drop
  <2>2. /\ uat' \in [Uppers -> Dirs \cup {"new", "dropped", "none"}]
        /\ disk' \in [Dirs -> Inos \cup {None}] /\ ino' \in [Lowers -> Inos \cup {None}]
    BY <1>8, <2>1 DEF Remove, Types
  <2>3. Types' /\ Alone(t) /\ pc'[t] = "idle" /\ op'[t] = NoOp
        /\ \A d \in Dirs : upLock[d] \in Tasks \ {t} => upLock'[d] = upLock[d]
    BY <2>1, <2>2, EndTypes DEF Types
  <2>4. DentriesStay(t)
    BY <1>2, <2>1, <2>3, NoneIsNothing DEF DentriesStay, Linked, Types, DentryInv, DentryOf
  <2> QED
    BY <2>3, <2>4, EndKeepsDentries
<1>9. CASE Rename(t)
  <2>1. /\ Return(t) /\ UNCHANGED <<priv, uino, cached, isSet, grabs>> /\ op[t].kind = "rename"
        /\ uat' = [uat EXCEPT ![u] = uat[u2], ![u2] = "dropped"]
    BY <1>9 DEF Rename, UnlockDir
  <2>2. /\ uat' \in [Uppers -> Dirs \cup {"new", "dropped", "none"}]
        /\ ino' \in [Lowers -> Inos \cup {None}]
    BY <1>2, <1>9, <2>1 DEF Rename, MoveLower, Types
  <2>3. disk' \in [Dirs -> Inos \cup {None}]
    BY <1>2, <1>9 DEF Rename, MoveLower, Types
  <2>4. Types' /\ Alone(t) /\ pc'[t] = "idle" /\ op'[t] = NoOp
        /\ \A d \in Dirs : upLock[d] \in Tasks \ {t} => upLock'[d] = upLock[d]
    BY <2>1, <2>2, <2>3, EndTypes DEF Types
  <2>5. DentriesStay(t)
    BY <1>2, <2>1, <2>4, NoneIsNothing DEF DentriesStay, Linked, Types, DentryInv, DentryOf
  <2> QED
    BY <2>4, <2>5, EndKeepsDentries
<1>10. CASE Setattr(t)
  <2>1. pc[t] = "use" /\ UNCHANGED <<disk, ino, uat, priv, uino, cached, isSet, grabs>>
    BY <1>10 DEF Setattr
  <2>2. CASE Return(t)
    <3>1. Types' /\ Alone(t) /\ pc'[t] = "idle" /\ op'[t] = NoOp
          /\ \A d \in Dirs : upLock[d] \in Tasks \ {t} => upLock'[d] = upLock[d]
      BY <2>1, <2>2, EndTypes DEF Types
    <3>2. DentriesStay(t)
      BY <2>1, <3>1, NoneIsNothing DEF DentriesStay, Linked, Types, DentryInv, DentryOf
    <3> QED
      BY <3>1, <3>2, EndKeepsDentries
  <2>3. CASE At(t, "use", "null") /\ UNCHANGED <<op, upLock>>
    <3>1. Alone(t) /\ pc'[t] = "null" /\ pc' \in [Tasks -> Pcs]
      BY <2>3 DEF At, Alone, Types, Pcs
    <3>2. Types'
      BY <2>1, <2>3, <3>1 DEF Types
    <3> QED
      BY <2>1, <2>3, <3>1, <3>2, MiddleKeepsDentries
  <2> QED
    BY <1>10, <2>2, <2>3 DEF Setattr
<1> QED
  BY <1>5, <1>6, <1>7, <1>8, <1>9, <1>10 DEF EndStep

\* What happens without a call: both caches shrink, others work below.
OutsideStep ==
    \/ \E u \in Uppers : Release(u)
    \/ \E i \in Inos : ClearInode(i)
    \/ \E d, e \in Dirs : OutsideRename(d, e)
    \/ \E d \in Dirs : OutsideUnlink(d)

\* What the caches and the lower filesystem do on their own.
LEMMA OutsideKeepsDentries ==
  ASSUME NamesInv, OutsideStep
  PROVE  Types' /\ DentryInv'
<1> USE DEF upperVars, inodeVars, lowerVars, lockVars, NamesInv
<1>1. ASSUME NEW u \in Uppers, Release(u)
      PROVE  Types' /\ DentryInv'
  <2>1. /\ ~Used(u) /\ uat' = [uat EXCEPT ![u] = "none"] /\ priv' = [priv EXCEPT ![u] = None]
        /\ uino' = [uino EXCEPT ![u] = None] /\ ino' \in [Lowers -> Inos \cup {None}]
        /\ UNCHANGED <<disk, upLock, cached, isSet, grabs, pc, op>>
    BY <1>1 DEF Release, Shrink, Types
  <2>2. Types'
    BY <2>1 DEF Types
  <2>3. \A t \in Tasks : op[t].u # u /\ op[t].u2 # u
    BY <2>1 DEF Used
  <2>4. \A t \in Tasks : op[t].u \in Uppers \cup {None} /\ op[t].u2 \in Uppers \cup {None}
    BY DEF Types, IsOp
  <2>5. \A v \in Uppers : v # u => uat'[v] = uat[v] /\ priv'[v] = priv[v] /\ uino'[v] = uino[v]
    BY <2>1 DEF Types
  <2>6. \A v \in Uppers : DentryOf(v)'
    BY <2>1, <2>5, NoneIsNothing DEF DentryInv, DentryOf, Types
  <2>7. \A t \in Tasks : OwnDentry(t)'
    BY <2>1 DEF DentryInv, OwnDentry
  <2>8. ASSUME NEW t \in Tasks PROVE CallOf(t)'
    <3>1. op[t].kind \in Kinds => pc[t] # "idle" /\ op[t].u \in Uppers
      BY NoOpIsOp DEF DentryInv, CallOf, Kinds
    <3> QED
      BY <2>1, <2>3, <2>4, <2>5, <3>1 DEF DentryInv, CallOf, Kinds
  <2> QED
    BY <2>2, <2>6, <2>7, <2>8 DEF DentryInv
<1>2. ASSUME NEW i \in Inos, ClearInode(i)
      PROVE  Types' /\ DentryInv'
  <2>1. grabs[i] > 0
    BY <1>2 DEF ClearInode, InodeInv
  <2>2. Types'
    BY <1>2, <2>1 DEF ClearInode, Types
  <2> QED
    BY <1>2, <2>2 DEF ClearInode, DentryInv, DentryOf, CallOf, OwnDentry
<1>3. ASSUME NEW d \in Dirs, NEW e \in Dirs, OutsideRename(d, e) \/ OutsideUnlink(d)
      PROVE  Types' /\ DentryInv'
  <2>1. UNCHANGED <<ino, uat, priv, uino, upLock, cached, isSet, grabs, pc, op>>
        /\ disk' \in [Dirs -> Inos \cup {None}]
    BY <1>3 DEF OutsideRename, OutsideUnlink, Types
  <2>2. Types'
    BY <2>1 DEF Types
  <2> QED
    BY <2>1, <2>2 DEF DentryInv, DentryOf, CallOf, OwnDentry
<1> QED
  BY <1>1, <1>2, <1>3 DEF OutsideStep

-----------------------------------------------------------------------------
(* The inodes.                                                              *)

\* A step that is neither iget nor the store.
LEMMA InodesQuiet ==
  ASSUME NamesInv, NEW t \in Tasks, Alone(t), UNCHANGED <<cached, isSet, grabs>>,
         \A u \in Uppers : uino'[u] \in {uino[u], None},
         pc[t] # "set", pc'[t] # "set", op'[t].i = None
  PROVE  InodeInv'
<1>1. op[t].i = None
  BY DEF NamesInv, InodeInv
<1>2. \A s \in Tasks : op'[s].i = op[s].i
  BY <1>1 DEF Alone
<1> QED
  BY <1>2, NoneIsNothing DEF NamesInv, InodeInv, Alone

\* The steps of the calls, iget and the store among them.
LEMMA TaskKeepsInodes ==
  ASSUME NamesInv, NEW t \in Tasks, BeginStep(t) \/ LookStep(t) \/ MiddleStep(t) \/ EndStep(t)
  PROVE  InodeInv'
<1> USE DEF upperVars, inodeVars, lowerVars, lockVars, NamesInv
<1>1. CASE BeginStep(t)
  <2> DEFINE Began(kind, ds, u, u2, there) ==
          Call(t, kind, ds, u, u2) /\ At(t, "idle", there) /\ UNCHANGED <<uino, cached, isSet, grabs>>
  <2>1. ASSUME NEW kind \in Kinds, NEW ds \in SUBSET Dirs, NEW u \in Uppers,
               NEW u2 \in Uppers \cup {None}, NEW there \in {"look", "lock", "use"},
               Began(kind, ds, u, u2, there)
        PROVE  InodeInv'
    <3>1. there \in Pcs
      BY DEF Pcs
    <3>2. Alone(t) /\ pc[t] = "idle" /\ pc'[t] = there /\ op'[t].i = None
      BY <2>1, <3>1, CallBegins
    <3> QED
      BY <2>1, <3>2, InodesQuiet
  <2>2. ASSUME NEW u \in Uppers, Hold(t, u)
        PROVE  InodeInv'
    <3>1. Began("setattr", {}, u, None, "use") /\ "setattr" \in Kinds
      BY <2>2 DEF Hold, Kinds
    <3> QED
      BY <2>1, <3>1
  <2>3. ASSUME NEW u \in Uppers, NEW d \in Dirs, StartLookup(t, d, u)
        PROVE  InodeInv'
    <3>1. Began("lookup", {d}, u, None, "look") /\ "lookup" \in Kinds
      BY <2>3 DEF StartLookup, Kinds
    <3> QED
      BY <2>1, <3>1
  <2>4. ASSUME NEW u \in Uppers, NEW d \in Dirs, StartMake(t, d, u) \/ StartRemove(t, d, u)
        PROVE  InodeInv'
    <3>1. PICK kind \in {"create", "mkdir", "rmdir", "unlink"} : Began(kind, {d}, u, None, "lock")
      BY <2>4 DEF StartMake, StartRemove, CallOn
    <3>2. kind \in Kinds
      BY DEF Kinds
    <3> QED
      BY <2>1, <3>1, <3>2
  <2>5. ASSUME NEW u \in Uppers, NEW d \in Dirs, NEW v \in Uppers, StartLink(t, d, u, v)
        PROVE  InodeInv'
    <3>1. Began("link", {d}, u, v, "lock") /\ "link" \in Kinds
      BY <2>5 DEF StartLink, CallOn, Kinds
    <3> QED
      BY <2>1, <3>1
  <2>6. ASSUME NEW u \in Uppers, NEW d \in Dirs, NEW v \in Uppers, NEW e \in Dirs,
               StartRename(t, d, e, u, v)
        PROVE  InodeInv'
    <3>1. Began("rename", {d, e}, u, v, "lock") /\ "rename" \in Kinds
      BY <2>6 DEF StartRename, CallOn, Kinds
    <3> QED
      BY <2>1, <3>1
  <2> QED
    BY <1>1, <2>2, <2>3, <2>4, <2>5, <2>6 DEF BeginStep
<1>2. CASE LookStep(t)
  <2>1. pc[t] = "look" /\ UNCHANGED <<uino, cached, isSet, grabs>>
    BY <1>2 DEF LookStep, Look, LookFails, LookLosesMount
  <2>2. CASE Return(t)
    <3>1. Alone(t) /\ pc'[t] = "idle" /\ op'[t].i = None
      BY <2>2, CallEnds, NoOpIsOp
    <3> QED
      BY <2>1, <3>1, InodesQuiet
  <2>3. CASE At(t, "look", "iget") /\ op' = op
    <3>1. Alone(t) /\ pc'[t] = "iget" /\ op[t].i = None
      BY <2>1, <2>3 DEF At, Alone, Types, InodeInv
    <3> QED
      BY <2>1, <2>3, <3>1, InodesQuiet
  <2> QED
    BY <1>2, <2>2, <2>3 DEF LookStep, Look, LookFails, LookLosesMount
<1>3. CASE Lock(t) \/ IgetOfNothing(t) \/ Make(t) \/ Link(t) \/ ActOnMoved(t)
  <2>1. PICK there \in {"act", "bug", "iget"} :
            pc' = [pc EXCEPT ![t] = there] /\ UNCHANGED <<op, uino, cached, isSet, grabs>>
    BY <1>3 DEF Lock, IgetOfNothing, Make, Link, ActOnMoved, At
  <2>2. Alone(t) /\ pc[t] # "set" /\ pc'[t] = there /\ op[t].i = None
    BY <1>3, <2>1 DEF Lock, IgetOfNothing, Make, Link, ActOnMoved, At, Alone, Types, InodeInv
  <2> QED
    BY <2>1, <2>2, InodesQuiet
<1>4. CASE EndStep(t) /\ ~Interpose(t)
  <2>1. pc[t] \notin {"set", "idle"} /\ UNCHANGED <<uino, cached, isSet, grabs>>
    BY <1>4 DEF EndStep, LookupFails, ActFails, InterposeFails, Remove, Rename, Setattr
  <2>2. CASE Return(t)
    <3>1. Alone(t) /\ pc'[t] = "idle" /\ op'[t].i = None
      BY <2>2, CallEnds, NoOpIsOp
    <3> QED
      BY <2>1, <3>1, InodesQuiet
  <2>3. CASE At(t, "use", "null") /\ op' = op
    <3>1. Alone(t) /\ pc'[t] = "null" /\ op[t].i = None
      BY <2>1, <2>3 DEF At, Alone, Types, InodeInv
    <3> QED
      BY <2>1, <2>3, <3>1, InodesQuiet
  <2> QED
    BY <1>4, <2>2, <2>3
       DEF EndStep, LookupFails, ActFails, InterposeFails, Remove, Rename, Setattr, UnlockDir
<1>5. CASE Iget(t)
  <2> DEFINE i == ino[priv[op[t].u]]
  <2>1. pc[t] = "iget" /\ priv[op[t].u] \in Lowers /\ i \in Inos
    BY <1>5, CallDentries DEF Iget, At
  <2>2. op' = [op EXCEPT ![t].i = i, ![t].fresh = ~isSet[i]]
    BY <1>5, Zenon DEF Iget
  <2>3. pc' = [pc EXCEPT ![t] = "set"] /\ cached' = [cached EXCEPT ![i] = TRUE]
        /\ UNCHANGED <<uino, isSet, grabs>>
    BY <1>5 DEF Iget, At
  <2> HIDE DEF i
  <2>4. IsOp(op[t]) /\ DOMAIN op = Tasks
    BY DEF Types
  <2>5. op'[t] = [op[t] EXCEPT !.i = i, !.fresh = ~isSet[i]]
        /\ \A s \in Tasks \ {t} : op'[s] = op[s]
    BY <2>2, <2>4, Zenon
  <2>6. op'[t] = [kind |-> op[t].kind, u |-> op[t].u, u2 |-> op[t].u2, p |-> op[t].p,
                  p2 |-> op[t].p2, i |-> i, fresh |-> ~isSet[i]]
    BY <2>4, <2>5, Zenon DEF IsOp
  <2>7. op'[t].i = i /\ op'[t].fresh = ~isSet[i] /\ op[t].i = None
    BY <2>1, <2>6 DEF InodeInv
  <2>8. pc'[t] = "set" /\ \A s \in Tasks \ {t} : pc'[s] = pc[s]
    BY <2>3 DEF Types
  <2>9. cached'[i] /\ \A j \in Inos \ {i} : cached'[j] = cached[j]
    BY <2>1, <2>3 DEF Types
  <2>10. \A s \in Tasks : op'[s].i # op[s].i => s = t
    BY <2>5
  <2>11. \A j \in Inos : /\ isSet'[j] => cached'[j] /\ grabs'[j] > 0
                         /\ cached'[j] => isSet'[j] \/ \E s \in Tasks : op'[s].i = j
    BY <2>3, <2>7, <2>9, <2>10, NoneIsNothing DEF InodeInv
  <2>12. \A s \in Tasks : /\ pc'[s] = "set" <=> op'[s].i # None
                          /\ pc'[s] = "set" => cached'[op'[s].i] /\ (op'[s].fresh \/ isSet'[op'[s].i])
    <3>1. ASSUME NEW s \in Tasks \ {t}, pc[s] = "set"
          PROVE  cached'[op[s].i] /\ (op[s].fresh \/ isSet[op[s].i])
      BY <2>9, <3>1 DEF InodeInv, Types, IsOp
    <3>2. isSet' = isSet /\ isSet[i] \in BOOLEAN /\ i # None
      BY <2>1, <2>3, NoneIsNothing DEF Types
    <3>3. ASSUME NEW s \in Tasks \ {t}
          PROVE  /\ pc'[s] = "set" <=> op'[s].i # None
                 /\ pc'[s] = "set" => cached'[op'[s].i] /\ (op'[s].fresh \/ isSet'[op'[s].i])
      <4>1. op'[s] = op[s] /\ pc'[s] = pc[s] /\ (pc[s] = "set" <=> op[s].i # None)
        BY <2>5, <2>8 DEF InodeInv
      <4> QED
        BY <3>1, <3>2, <4>1
    <3>4. op'[t].i # None /\ cached'[op'[t].i] /\ (op'[t].fresh \/ isSet'[op'[t].i])
      BY <2>7, <2>9, <3>2
    <3> QED
      BY <2>8, <3>3, <3>4
  <2> QED
    BY <2>3, <2>11, <2>12 DEF InodeInv
<1>6. CASE Interpose(t)
  <2> DEFINE i == op[t].i
  <2>1. pc[t] = "set" /\ i \in Inos /\ cached[i] /\ (op[t].fresh \/ isSet[i]) /\ op[t].u \in Uppers
    BY <1>6 DEF Interpose, InodeInv, DentryInv, CallOf, Types, IsOp
  <2>2. /\ isSet' = [isSet EXCEPT ![i] = TRUE] /\ cached' = cached
        /\ uino' = [uino EXCEPT ![op[t].u] = i] /\ Return(t)
        /\ grabs' = IF op[t].fresh THEN Grab(i) ELSE grabs
    BY <1>6 DEF Interpose, UnlockDir
  <2> HIDE DEF i
  <2>3. Alone(t) /\ pc'[t] = "idle" /\ op'[t].i = None
    BY <2>2, CallEnds, NoOpIsOp
  <2>4. /\ isSet'[i] /\ \A j \in Inos \ {i} : isSet'[j] = isSet[j]
        /\ grabs'[i] > 0 /\ \A j \in Inos \ {i} : grabs'[j] = grabs[j]
    BY <2>1, <2>2 DEF Types, InodeInv, Grab
  <2>5. \A u \in Uppers : uino'[u] \in {uino[u], i}
    BY <2>1, <2>2 DEF Types
  <2>6. \A j \in Inos : /\ isSet'[j] => cached'[j] /\ grabs'[j] > 0
                        /\ cached'[j] => isSet'[j] \/ \E s \in Tasks : op'[s].i = j
    BY <2>1, <2>2, <2>3, <2>4 DEF i, InodeInv, Alone
  <2>7. \A u \in Uppers : uino'[u] # None => isSet'[uino'[u]]
    BY <2>4, <2>5 DEF InodeInv, Types
  <2>8. \A s \in Tasks : /\ pc'[s] = "set" <=> op'[s].i # None
                         /\ pc'[s] = "set" => cached'[op'[s].i] /\ (op'[s].fresh \/ isSet'[op'[s].i])
    <3>1. \A s \in Tasks : op[s].i \in Inos \cup {None}
      BY DEF Types, IsOp
    <3> QED
      BY <2>2, <2>3, <2>4, <3>1 DEF InodeInv, Alone
  <2> QED
    BY <2>6, <2>7, <2>8 DEF InodeInv
<1> QED
  BY <1>1, <1>2, <1>3, <1>4, <1>5, <1>6 DEF MiddleStep, EndStep

\* base0fs_clear_inode takes the inode and its reference together.
LEMMA OutsideKeepsInodes ==
  ASSUME NamesInv, OutsideStep
  PROVE  InodeInv'
<1> USE DEF upperVars, inodeVars, lowerVars, lockVars, NamesInv
<1>1. ASSUME NEW u \in Uppers, Release(u)
      PROVE  InodeInv'
  <2>1. uino' = [uino EXCEPT ![u] = None] /\ UNCHANGED <<cached, isSet, grabs, pc, op>>
    BY <1>1 DEF Release
  <2> QED
    BY <2>1 DEF InodeInv, Types
<1>2. ASSUME NEW i \in Inos, ClearInode(i)
      PROVE  InodeInv'
  <2>1. /\ \A u \in Uppers : uino[u] # i
        /\ \A t \in Tasks : op[t].i # i
        /\ \A j \in Inos \ {i} : cached'[j] = cached[j] /\ isSet'[j] = isSet[j] /\ grabs'[j] = grabs[j]
        /\ ~cached'[i] /\ ~isSet'[i]
        /\ UNCHANGED <<uino, pc, op>>
    BY <1>2 DEF ClearInode, Types
  <2>2. /\ \A u \in Uppers : uino[u] \in Inos \cup {None}
        /\ \A t \in Tasks : op[t].i \in Inos \cup {None}
    BY DEF Types, IsOp
  <2> QED
    BY <2>1, <2>2 DEF InodeInv
<1>3. CASE (\E d, e \in Dirs : OutsideRename(d, e)) \/ \E d \in Dirs : OutsideUnlink(d)
  <2>1. UNCHANGED <<uino, cached, isSet, grabs, pc, op>>
    BY <1>3 DEF OutsideRename, OutsideUnlink
  <2> QED
    BY <2>1 DEF InodeInv
<1> QED
  BY <1>1, <1>2, <1>3 DEF OutsideStep

-----------------------------------------------------------------------------
\* The invariant holds in empty caches,
LEMMA NamesInit == Init => NamesInv
<1> SUFFICES ASSUME Init PROVE NamesInv
  OBVIOUS
<1>1. Types
  BY NoOpIsOp DEF Init, Types, Pcs, NamesInv
<1>2. DentryInv
  BY NoOpIsOp, NoneIsNothing DEF Init, DentryInv, DentryOf, CallOf, OwnDentry, Kinds
<1>3. InodeInv
  BY NoOpIsOp DEF Init, InodeInv
<1> QED
  BY <1>1, <1>2, <1>3 DEF NamesInv

\* every step keeps it,
LEMMA NamesNext == NamesInv /\ [Next]_vars => NamesInv'
<1> SUFFICES ASSUME NamesInv, [Next]_vars PROVE NamesInv'
  OBVIOUS
<1>1. ASSUME NEW t \in Tasks, TaskStep(t)
      PROVE  NamesInv'
  <2>1. BeginStep(t) \/ LookStep(t) \/ MiddleStep(t) \/ EndStep(t)
    BY <1>1 DEF TaskStep, BeginStep, LookStep, MiddleStep, EndStep
  <2>2. pc[t] = "set" => op[t].i \in Inos
    BY DEF NamesInv, InodeInv, Types, IsOp
  <2>3. Types' /\ DentryInv'
    BY <2>1, <2>2, BeginsKeepDentries, LooksKeepDentries, MiddlesKeepDentries, EndsKeepDentries
       DEF NamesInv
  <2> QED
    BY <2>1, <2>3, TaskKeepsInodes DEF NamesInv
<1>2. CASE OutsideStep
  BY <1>2, OutsideKeepsDentries, OutsideKeepsInodes DEF NamesInv
<1>3. CASE UNCHANGED vars
  BY <1>3 DEF vars, lowerVars, upperVars, inodeVars, lockVars, NamesInv, Types, DentryInv,
     DentryOf, CallOf, OwnDentry, InodeInv
<1> QED
  BY <1>1, <1>2, <1>3 DEF Next, OutsideStep

\* and so it always holds.
LEMMA NamesAlways == Spec => []NamesInv
BY NamesInit, NamesNext, PTL DEF Spec

\* An upper inode that a dentry can reach refers to a lower inode and holds it
\* (base0fs_interpose and base0fs_clear_inode, src/base0fs/main.c and super.c),
\* whatever number of lookups meet it at once and whatever fails.
THEOREM LowerInodesAreKept == Spec => []UpperKeepsLower
<1>1. NamesInv => UpperKeepsLower
  BY DEF NamesInv, InodeInv, Types, UpperKeepsLower, Positive
<1> QED
  BY <1>1, NamesAlways, PTL

-----------------------------------------------------------------------------
(* The upper tree.                                                          *)

Removing == {"unlink", "rmdir"}
Making == {"create", "mkdir", "link"}
Naming == OneParent \cup {"rename"}

\* What a call is at, and the lower parents it has taken.
StageOf(t) ==
    /\ pc[t] = "use" => op[t].kind = "setattr"
    /\ pc[t] \in {"lock", "act"} => op[t].kind \in Naming
    /\ pc[t] \in {"iget", "set"} => op[t].kind \in Making \cup {"lookup"}
    /\ op[t].kind \in Naming <=> op[t].p # None
    /\ op[t].kind = "rename" <=> op[t].p2 # None
    /\ op[t].p \in Dirs \cup {None} /\ op[t].p2 \in Dirs \cup {None}

\* A call has its directories locked, with its dentries in them.
LocksOf(t) ==
    /\ op[t].kind \in {"none", "setattr"} => \A d \in Dirs : upLock[d] # t
    /\ op[t].kind = "lookup" => \A d \in Dirs, u \in Uppers : upLock[d] = t => uat[u] # d
    /\ op[t].kind = "lookup" => \A d, e \in Dirs : upLock[d] = t /\ upLock[e] = t => d = e
    /\ op[t].kind \in Naming => uat[op[t].u] \in Dirs /\ upLock[uat[op[t].u]] = t
    /\ op[t].kind = "rename" =>
          /\ uat[op[t].u2] \in Dirs /\ upLock[uat[op[t].u2]] = t
          /\ uat[op[t].u] # uat[op[t].u2]

\* Whether the dentries of a call are positive.
ArgsOf(t) ==
    /\ op[t].kind \in Making => uino[op[t].u] = None
    /\ op[t].kind \in Removing \cup {"rename", "setattr"} => uino[op[t].u] # None
    /\ op[t].kind = "link" => uino[op[t].u2] # None
    /\ op[t].kind = "rename" => uino[op[t].u] # uino[op[t].u2]

UpperInv ==
    /\ \A u, v \in Uppers : uat[u] \in Dirs /\ uat[v] = uat[u] => u = v
    /\ \A u \in Uppers : uat[u] = "new" => \E t \in Tasks : op[t].kind = "lookup" /\ op[t].u = u
    /\ \A t \in Tasks : StageOf(t) /\ LocksOf(t) /\ ArgsOf(t)

-----------------------------------------------------------------------------
(* The references.                                                          *)

Referrers(l) == {u \in Uppers : priv[u] = l}
Holders(l) == {h \in Tasks \X Uppers : Holds(h[1], h[2]) /\ priv[h[2]] = l}

DentryRefs ==
    /\ refs \in [Lowers -> Nat]
    /\ \A l \in Lowers : refs[l] = Cardinality(Referrers(l)) + Cardinality(Holders(l))
MountRefs == mnt \in Nat /\ mnt = Cardinality({u \in Uppers : priv[u] # None}) + lostMnt

By(d) == {t \in Tasks : op[t].p = d}
By2(d) == {t \in Tasks : op[t].p2 = d}
ParentRefs ==
    /\ dirRefs \in [Dirs -> Nat]
    /\ \A d \in Dirs : dirRefs[d] = Cardinality(By(d)) + Cardinality(By2(d)) + lostDirs[d]
InodeRefs == \A i \in Inos : grabs[i] = (IF isSet[i] THEN 1 ELSE 0) + lostInos[i]

LowerTypes ==
    /\ par \in [Lowers -> Dirs] /\ hashed \in [Lowers -> BOOLEAN]
    /\ lowerLock \in [Dirs -> Tasks \cup {None}]
    /\ lostMnt \in Nat /\ lostDirs \in [Dirs -> Nat] /\ lostInos \in [Inos -> Nat]
    /\ losses \in 0..MaxLost
    /\ halfMade \subseteq Uppers /\ outside \in 0..MaxOutside

RefsInv == LowerTypes /\ DentryRefs /\ MountRefs /\ ParentRefs /\ InodeRefs

-----------------------------------------------------------------------------
(* The upper tree is kept.                                                  *)

\* A step of t that moves dentries only in directories t has locked.
Moves(t) ==
    /\ \A d \in Dirs : upLock[d] \in Tasks \ {t} => upLock'[d] = upLock[d]
    /\ \A d \in Dirs : upLock'[d] \in {upLock[d], t, None}
    /\ \A u \in Uppers : uat'[u] # uat[u] =>
          /\ uat[u] \in Dirs => upLock[uat[u]] = t
          /\ uat'[u] \in Dirs => upLock[uat'[u]] = t
    /\ \A u \in Uppers : uino'[u] # uino[u] =>
          /\ u = op[t].u /\ uino[u] = None
          /\ op[t].kind = "lookup" \/ (uat[u] \in Dirs /\ upLock[uat[u]] = t)

\* The calls of the others are as they were.
LEMMA OthersCalls ==
  ASSUME Types, DentryInv, UpperInv, NEW t \in Tasks, Alone(t), Moves(t), NEW s \in Tasks \ {t}
  PROVE  StageOf(s)' /\ LocksOf(s)' /\ ArgsOf(s)'
<1> DEFINE u == op[s].u
           v == op[s].u2
<1>1. pc'[s] = pc[s] /\ op'[s] = op[s] /\ StageOf(s) /\ LocksOf(s) /\ ArgsOf(s)
  BY DEF Alone, UpperInv
<1>2. /\ op[s].kind # "none" => u \in Uppers
      /\ op[s].kind \in {"link", "rename"} => v \in Uppers
      /\ op[s].kind \in Kinds \cup {"none"}
  BY NoOpIsOp DEF Types, IsOp, DentryInv, CallOf
<1>3. StageOf(s)'
  BY <1>1 DEF StageOf
<1>4. CASE op[s].kind = "lookup"
  <2>1. \A d \in Dirs : upLock'[d] = s => upLock[d] = s
    BY NoneIsNothing DEF Moves
  <2>2. \A d \in Dirs, w \in Uppers : upLock'[d] = s => uat'[w] # d
    BY <1>1, <1>4, <2>1 DEF Moves, LocksOf
  <2>3. \A d, e \in Dirs : upLock'[d] = s /\ upLock'[e] = s => d = e
    BY <1>1, <1>4, <2>1 DEF LocksOf
  <2> QED
    BY <1>1, <1>3, <1>4, <2>2, <2>3 DEF LocksOf, ArgsOf, Naming, OneParent, Making, Removing
<1>5. CASE op[s].kind \in Naming
  <2>1. u \in Uppers /\ uat[u] \in Dirs /\ upLock[uat[u]] = s
    BY <1>1, <1>2, <1>5 DEF LocksOf, Naming, OneParent
  <2>2. uat'[u] = uat[u] /\ upLock'[uat[u]] = s /\ uino'[u] = uino[u]
    BY <2>1 DEF Moves, DentryInv, OwnDentry
  <2>3. op[s].kind = "rename" =>
          /\ uat[v] \in Dirs /\ uat'[v] = uat[v] /\ upLock'[uat[v]] = s /\ uino'[v] = uino[v]
    BY <1>1, <1>2 DEF Moves, LocksOf, DentryInv, OwnDentry
  <2>4. LocksOf(s)'
    BY <1>1, <1>5, <2>1, <2>2, <2>3 DEF LocksOf, Naming, OneParent
  <2>5. op[s].kind = "link" => uino'[v] # None
    BY <1>1, <1>2 DEF Moves, ArgsOf
  <2>6. ArgsOf(s)'
    BY <1>1, <1>5, <2>2, <2>3, <2>5 DEF ArgsOf, Naming, OneParent, Making, Removing
  <2> QED
    BY <1>3, <2>4, <2>6
<1>6. CASE op[s].kind \in {"none", "setattr"}
  <2>1. op[s].kind = "setattr" => uino'[u] # None
    BY <1>1, <1>2 DEF Moves, ArgsOf
  <2>2. \A d \in Dirs : upLock'[d] # s
    BY <1>1, <1>6, NoneIsNothing DEF Moves, LocksOf
  <2> QED
    BY <1>1, <1>3, <1>6, <2>1, <2>2 DEF LocksOf, ArgsOf, Naming, OneParent, Making, Removing
<1> QED
  BY <1>2, <1>4, <1>5, <1>6 DEF Kinds, Naming, OneParent

\* A dentry has a name alone, and one that is looked up has a call.
Named ==
    /\ \A u, v \in Uppers : uat'[u] \in Dirs /\ uat'[v] = uat'[u] => u = v
    /\ \A u \in Uppers : uat'[u] = "new" => \E t \in Tasks : op'[t].kind = "lookup" /\ op'[t].u = u

LEMMA UpperEnds ==
  ASSUME Types, DentryInv, UpperInv, NEW t \in Tasks, Return(t), Moves(t),
         \A u, v \in Uppers : uat'[u] \in Dirs /\ uat'[v] = uat'[u] => u = v,
         \A u \in Uppers : uat'[u] = "new" => uat[u] = "new" /\ (op[t].kind = "lookup" => u # op[t].u)
  PROVE  UpperInv'
<1>1. Alone(t) /\ pc'[t] = "idle" /\ op'[t] = NoOp
      /\ \A d \in Dirs : upLock'[d] = IF upLock[d] = t THEN None ELSE upLock[d]
  BY CallEnds
<1>2. StageOf(t)' /\ LocksOf(t)' /\ ArgsOf(t)'
  BY <1>1, NoOpIsOp, NoneIsNothing DEF StageOf, LocksOf, ArgsOf, Naming, OneParent, Making, Removing
<1>3. \A u \in Uppers : uat'[u] = "new" => \E s \in Tasks \ {t} : op[s].kind = "lookup" /\ op[s].u = u
  BY DEF UpperInv
<1>4. Named
  BY <1>1, <1>3 DEF Named, Alone
<1> QED
  BY <1>1, <1>2, <1>4, OthersCalls DEF UpperInv, Named

\* A call that goes on moves nothing.
LEMMA UpperGoesOn ==
  ASSUME Types, DentryInv, UpperInv, NEW t \in Tasks, Alone(t), UNCHANGED <<uat, uino, upLock>>,
         op'[t].kind = op[t].kind, op'[t].u = op[t].u, op'[t].u2 = op[t].u2,
         op'[t].p = op[t].p, op'[t].p2 = op[t].p2, StageOf(t)'
  PROVE  UpperInv'
<1>1. Moves(t)
  BY DEF Moves
<1>2. LocksOf(t)' /\ ArgsOf(t)'
  BY DEF UpperInv, LocksOf, ArgsOf
<1>3. Named
  BY DEF Named, UpperInv, Alone
<1> QED
  BY <1>1, <1>2, <1>3, OthersCalls DEF UpperInv, Named

\* A call of the VFS begins in the directories it has locked.
LEMMA UpperBegins ==
  ASSUME Types, DentryInv, UpperInv, par \in [Lowers -> Dirs],
         NEW t \in Tasks, NEW kind \in Kinds \ {"lookup"}, NEW ds \in SUBSET Dirs,
         NEW u \in Uppers, NEW u2 \in Uppers \cup {None}, NEW there \in {"lock", "use"},
         At(t, "idle", there), Call(t, kind, ds, u, u2), UNCHANGED <<uat, uino>>,
         priv[u] \in Lowers, kind = "rename" => priv[u2] \in Lowers,
         there = "use" <=> kind = "setattr", kind = "setattr" => ds = {},
         kind \in Naming => uat[u] \in ds,
         kind = "rename" => u2 \in Uppers /\ uat[u2] \in ds /\ uat[u] # uat[u2],
         kind \in Making => uino[u] = None,
         kind \in Removing \cup {"rename", "setattr"} => uino[u] # None,
         kind = "link" => uino[u2] # None,
         kind = "rename" => uino[u] # uino[u2]
  PROVE  UpperInv'
<1>1. there \in Pcs /\ kind \in Kinds
  BY DEF Pcs
<1>2. /\ Alone(t) /\ pc[t] = "idle" /\ pc'[t] = there
      /\ op'[t].kind = kind /\ op'[t].u = u /\ op'[t].u2 = u2
      /\ op'[t].p = (IF kind \in OneParent \cup {"rename"} THEN Parent(u) ELSE None)
      /\ op'[t].p2 = (IF kind = "rename" THEN Parent(u2) ELSE None)
      /\ \A d \in Dirs : upLock'[d] = IF d \in ds THEN t ELSE upLock[d]
      /\ \A d \in ds : upLock[d] = None
  BY <1>1, CallBegins
<1>3. op[t].kind = "none"
  BY <1>2, NoOpIsOp DEF DentryInv, CallOf
<1>4. Moves(t)
  BY <1>2, NoneIsNothing DEF Moves
<1>5. Parent(u) \in Dirs /\ (kind = "rename" => Parent(u2) \in Dirs) /\ None \notin Dirs
  BY NoneIsNothing DEF Parent
<1>6. StageOf(t)'
  BY <1>2, <1>5 DEF StageOf, Naming, OneParent, Kinds
<1>7. LocksOf(t)' /\ ArgsOf(t)'
  BY <1>2, <1>3, NoneIsNothing DEF LocksOf, ArgsOf, UpperInv, Kinds, Naming, OneParent
<1>8. Named
  BY <1>2, <1>3 DEF Named, UpperInv, Alone
<1> QED
  BY <1>4, <1>6, <1>7, <1>8, OthersCalls, <1>2 DEF UpperInv, Named

LEMMA BeginsKeepUpper ==
  ASSUME Types, DentryInv, UpperInv, par \in [Lowers -> Dirs], NEW t \in Tasks, BeginStep(t)
  PROVE  UpperInv'
<1> USE DEF upperVars, lowerVars, CallOn
<1>0. \A u \in Uppers : uat[u] \in Dirs => priv[u] \in Lowers
  BY DEF Types, DentryInv, DentryOf
<1>1. CASE \E u \in Uppers : Hold(t, u)
  <2>1. PICK u \in Uppers : Hold(t, u)
    BY <1>1
  <2>2. /\ At(t, "idle", "use") /\ Call(t, "setattr", {}, u, None) /\ UNCHANGED <<uat, uino>>
        /\ uat[u] \in Dirs /\ uino[u] # None
    BY <2>1 DEF Hold, Positive
  <2>3. "setattr" \in Kinds \ {"lookup"} /\ {} \in SUBSET Dirs /\ "setattr" \notin Naming \cup Making
        /\ None \in Uppers \cup {None}
    BY DEF Kinds, Naming, OneParent, Making
  <2> QED
    BY <1>0, <2>2, <2>3, UpperBegins
<1>2. ASSUME NEW u \in Uppers, NEW d \in Dirs, StartLookup(t, d, u)
      PROVE  UpperInv'
  <2>1. "look" \in Pcs /\ "lookup" \in Kinds /\ {d} \in SUBSET Dirs /\ None \in Uppers \cup {None}
    BY DEF Pcs, Kinds
  <2>2. At(t, "idle", "look") /\ Call(t, "lookup", {d}, u, None)
    BY <1>2 DEF StartLookup
  <2>3. uat[u] = "none" /\ uat' = [uat EXCEPT ![u] = "new"] /\ uino' = uino /\ Cached(d) = {}
    BY <1>2 DEF StartLookup
  <2>4. /\ Alone(t) /\ pc[t] = "idle" /\ pc'[t] = "look"
        /\ op'[t].kind = "lookup" /\ op'[t].u = u /\ op'[t].u2 = None
        /\ op'[t].p = None /\ op'[t].p2 = None
        /\ \A e \in Dirs : upLock'[e] = IF e \in {d} THEN t ELSE upLock[e]
        /\ \A e \in {d} : upLock[e] = None
    BY <2>1, <2>2, CallBegins DEF OneParent
  <2>5. /\ uat'[u] = "new" /\ "new" \notin Dirs /\ "none" \notin Dirs
        /\ \A v \in Uppers \ {u} : uat'[v] = uat[v]
        /\ \A v \in Uppers : uat'[v] # d
    BY <2>3, NoneIsNothing DEF Types, Cached
  <2>6. op[t].kind = "none" /\ \A e \in Dirs : upLock[e] # t
    BY <2>4, NoOpIsOp DEF DentryInv, CallOf, UpperInv, LocksOf
  <2>7. Moves(t)
    BY <2>3, <2>4, <2>5, NoneIsNothing DEF Moves
  <2>8. StageOf(t)' /\ ArgsOf(t)'
    BY <2>4 DEF StageOf, ArgsOf, Naming, OneParent, Making, Removing
  <2>9. LocksOf(t)'
    BY <2>4, <2>5, <2>6 DEF LocksOf, Naming, OneParent
  <2>10. Named
    BY <2>4, <2>5, <2>6 DEF Named, UpperInv, Alone
  <2> QED
    BY <2>4, <2>7, <2>8, <2>9, <2>10, OthersCalls DEF UpperInv, Named
<1>3. ASSUME NEW u \in Uppers, NEW d \in Dirs, StartMake(t, d, u) \/ StartRemove(t, d, u)
      PROVE  UpperInv'
  <2>1. PICK kind \in {"create", "mkdir", "rmdir", "unlink"} :
            /\ CallOn(t, kind, {d}, u, None)
            /\ kind \in Making => uino[u] = None
            /\ kind \in Removing => uino[u] # None
    BY <1>3 DEF StartMake, StartRemove, Positive, Making, Removing
  <2>2. uat[u] = d /\ kind \in Kinds \ {"lookup"} /\ kind \notin {"link", "rename", "setattr"}
    BY <1>3 DEF StartMake, StartRemove, Kinds
  <2> QED
    BY <1>0, <2>1, <2>2, UpperBegins
<1>4. ASSUME NEW u \in Uppers, NEW d \in Dirs, NEW v \in Uppers, StartLink(t, d, u, v)
      PROVE  UpperInv'
  <2>1. CallOn(t, "link", {d}, u, v) /\ uat[u] = d /\ uino[u] = None /\ uino[v] # None
    BY <1>4 DEF StartLink, Positive
  <2>2. "link" \in Kinds \ {"lookup"} /\ "link" \notin Removing
    BY DEF Kinds, Removing
  <2> QED
    BY <1>0, <2>1, <2>2, UpperBegins
<1>5. ASSUME NEW u \in Uppers, NEW d \in Dirs, NEW v \in Uppers, NEW e \in Dirs,
             StartRename(t, d, e, u, v)
      PROVE  UpperInv'
  <2>1. CallOn(t, "rename", {d, e}, u, v) /\ uat[u] = d /\ uat[v] = e /\ d # e
        /\ uino[u] # None /\ uino[u] # uino[v]
    BY <1>5 DEF StartRename, Positive
  <2>2. "rename" \in Kinds \ {"lookup"} /\ "rename" \notin Removing \cup Making
    BY DEF Kinds, Removing, Making
  <2> QED
    BY <1>0, <2>1, <2>2, UpperBegins
<1> QED
  BY <1>1, <1>2, <1>3, <1>4, <1>5 DEF BeginStep

\* A lookup looks below: its dentry is in none of the directories until it returns.
LEMMA LooksKeepUpper ==
  ASSUME Types, DentryInv, UpperInv, NEW t \in Tasks, LookStep(t)
  PROVE  UpperInv'
<1> USE DEF upperVars, lowerVars, lockVars
<1> DEFINE u == op[t].u
<1>1. pc[t] = "look" /\ op[t].kind = "lookup" /\ u \in Uppers /\ uat[u] = "new" /\ uino' = uino
  BY DEF LookStep, Look, LookFails, LookLosesMount, DentryInv, CallOf
<1>2. "new" \notin Dirs /\ "none" \notin Dirs
  BY NoneIsNothing
<1>3. ASSUME NEW d \in Dirs, NEW l \in Lowers, Look(t, d, l)
      PROVE  UpperInv'
  <2>1. CASE ino'[l] = None
    <3>1. Return(t) /\ uat' = [uat EXCEPT ![u] = d] /\ upLock[d] = t
      BY <1>3, <2>1 DEF Look
    <3>2. uat'[u] = d /\ \A v \in Uppers \ {u} : uat'[v] = uat[v] /\ uat[v] # d
      BY <1>1, <3>1 DEF Types, UpperInv, LocksOf
    <3>3. Moves(t)
      BY <1>1, <1>2, <3>1, <3>2, CallEnds DEF Moves
    <3>4. \A v, w \in Uppers : uat'[v] \in Dirs /\ uat'[w] = uat'[v] => v = w
      BY <3>2 DEF UpperInv
    <3> QED
      BY <1>2, <3>1, <3>2, <3>3, <3>4, UpperEnds
  <2>2. CASE ino'[l] # None
    <3>1. At(t, "look", "iget") /\ UNCHANGED <<uat, upLock, op>>
      BY <1>3, <2>2 DEF Look
    <3>2. Alone(t) /\ pc'[t] = "iget"
      BY <3>1 DEF At, Alone, Types
    <3>3. StageOf(t)'
      BY <1>1, <3>1, <3>2 DEF UpperInv, StageOf
    <3> QED
      BY <1>1, <3>1, <3>2, <3>3, UpperGoesOn
  <2> QED
    BY <2>1, <2>2
<1>4. CASE LookFails(t) \/ LookLosesMount(t)
  <2>1. Return(t) /\ uat' = [uat EXCEPT ![u] = "none"]
    BY <1>4 DEF LookFails, LookLosesMount
  <2>2. uat'[u] = "none" /\ \A v \in Uppers \ {u} : uat'[v] = uat[v]
    BY <1>1, <2>1 DEF Types
  <2>3. Moves(t)
    BY <1>1, <1>2, <2>1, <2>2, CallEnds DEF Moves
  <2>4. \A v, w \in Uppers : uat'[v] \in Dirs /\ uat'[w] = uat'[v] => v = w
    BY <1>2, <2>2 DEF UpperInv
  <2> QED
    BY <2>1, <2>2, <2>3, <2>4, UpperEnds
<1> QED
  BY <1>3, <1>4 DEF LookStep

\* The steps in the middle touch the lower tree only.
LEMMA MiddleCall ==
  ASSUME Types, NEW t \in Tasks, MiddleStep(t)
  PROVE  /\ UNCHANGED <<uat, uino, upLock, priv>> /\ Alone(t)
         /\ op'[t].kind = op[t].kind /\ op'[t].u = op[t].u /\ op'[t].u2 = op[t].u2
         /\ op'[t].p = op[t].p /\ op'[t].p2 = op[t].p2
         /\ \/ pc[t] = "lock" /\ pc'[t] = "act"
            \/ pc[t] = "iget" /\ pc'[t] = "set"
            \/ pc[t] = "act" /\ op[t].kind \in Making /\ pc'[t] = "iget"
            \/ pc'[t] = "bug"
<1> USE DEF upperVars, lockVars
<1>1. /\ UNCHANGED <<uat, uino, upLock, priv>>
      /\ \/ pc[t] = "lock" /\ pc' = [pc EXCEPT ![t] = "act"]
         \/ pc[t] = "iget" /\ pc' = [pc EXCEPT ![t] = "set"]
         \/ pc[t] = "act" /\ op[t].kind \in Making /\ pc' = [pc EXCEPT ![t] = "iget"]
         \/ pc' = [pc EXCEPT ![t] = "bug"]
  BY DEF MiddleStep, Lock, Iget, IgetOfNothing, Make, Link, ActOnMoved, At, Making
<1>2. /\ DOMAIN op' = Tasks
      /\ \A s \in Tasks \ {t} : op'[s] = op[s]
      /\ op'[t].kind = op[t].kind /\ op'[t].u = op[t].u /\ op'[t].u2 = op[t].u2
      /\ op'[t].p = op[t].p /\ op'[t].p2 = op[t].p2
  <2>1. CASE op' = op
    BY <2>1 DEF Types
  <2>2. CASE Iget(t)
    <3> DEFINE i == ino[priv[op[t].u]]
    <3>1. op' = [op EXCEPT ![t].i = i, ![t].fresh = ~isSet[i]]
      BY <2>2, Zenon DEF Iget
    <3> HIDE DEF i
    <3>2. IsOp(op[t]) /\ DOMAIN op = Tasks
      BY DEF Types
    <3>3. op'[t] = [op[t] EXCEPT !.i = i, !.fresh = ~isSet[i]]
          /\ \A s \in Tasks \ {t} : op'[s] = op[s]
      BY <3>1, <3>2, Zenon
    <3>4. op'[t] = [kind |-> op[t].kind, u |-> op[t].u, u2 |-> op[t].u2, p |-> op[t].p,
                    p2 |-> op[t].p2, i |-> i, fresh |-> ~isSet[i]]
      BY <3>2, <3>3, Zenon DEF IsOp
    <3>5. DOMAIN op' = Tasks
      BY <3>1, <3>2
    <3> QED
      BY <3>3, <3>4, <3>5
  <2> QED
    BY <2>1, <2>2 DEF MiddleStep, Lock, IgetOfNothing, Make, Link, ActOnMoved
<1>3. Alone(t)
  BY <1>1, <1>2 DEF Alone, Types
<1>4. \/ pc[t] = "lock" /\ pc'[t] = "act"
      \/ pc[t] = "iget" /\ pc'[t] = "set"
      \/ pc[t] = "act" /\ op[t].kind \in Making /\ pc'[t] = "iget"
      \/ pc'[t] = "bug"
  BY <1>1 DEF Types
<1> QED
  BY <1>1, <1>2, <1>3, <1>4

LEMMA MiddlesKeepUpper ==
  ASSUME Types, DentryInv, UpperInv, NEW t \in Tasks, MiddleStep(t)
  PROVE  UpperInv'
<1>1. StageOf(t)'
  BY MiddleCall DEF UpperInv, StageOf
<1> QED
  BY <1>1, MiddleCall, UpperGoesOn

\* A call ends: its dentries are where they were, dropped, or moved.
LEMMA EndsKeepUpper ==
  ASSUME Types, DentryInv, UpperInv, NEW t \in Tasks, EndStep(t)
  PROVE  UpperInv'
<1> USE DEF upperVars, lowerVars, lockVars
<1> DEFINE u == op[t].u
           v == op[t].u2
<1>1. pc[t] \notin {"idle", "look"}
  BY DEF EndStep, LookupFails, ActFails, InterposeFails, Interpose, Remove, Rename, Setattr
<1>2. /\ u \in Uppers /\ "new" \notin Dirs /\ "none" \notin Dirs /\ "dropped" \notin Dirs
      /\ op[t].kind = "rename" => v \in Uppers
      /\ op[t].kind = "lookup" => uat[u] = "new"
      /\ op[t].kind # "lookup" => uat[u] # "new"
      /\ op[t].kind # "none"
      /\ StageOf(t) /\ LocksOf(t) /\ ArgsOf(t)
  BY <1>1, CallDentries, NoneIsNothing DEF UpperInv, DentryInv, CallOf, Linked
<1>3. CASE LookupFails(t) \/ ActFails(t) \/ InterposeFails(t) \/ Remove(t)
  <2>1. /\ Return(t) /\ uino' = uino
        /\ \/ uat' = uat /\ op[t].kind \in Naming
           \/ uat' = [uat EXCEPT ![u] = "dropped"] /\ op[t].kind \in Naming
           \/ uat' = [uat EXCEPT ![u] = "none"] /\ op[t].kind = "lookup"
    BY <1>2, <1>3 DEF LookupFails, ActFails, InterposeFails, Remove, UnlockDir, Forget, Drop,
       StageOf, Naming, OneParent, Making
  <2>2. /\ \A w \in Uppers \ {u} : uat'[w] = uat[w]
        /\ \/ uat'[u] = uat[u] /\ op[t].kind \in Naming
           \/ uat'[u] = "dropped" /\ op[t].kind \in Naming
           \/ uat'[u] = "none" /\ op[t].kind = "lookup"
    BY <1>2, <2>1 DEF Types
  <2>3. Moves(t)
    BY <1>2, <2>1, <2>2, CallEnds DEF Moves, LocksOf
  <2>4. \A w, x \in Uppers : uat'[w] \in Dirs /\ uat'[x] = uat'[w] => w = x
    BY <1>2, <2>2 DEF UpperInv
  <2>5. \A w \in Uppers : uat'[w] = "new" => uat[w] = "new" /\ (op[t].kind = "lookup" => w # u)
    BY <1>2, <2>2 DEF Naming, OneParent
  <2> QED
    BY <2>1, <2>3, <2>4, <2>5, UpperEnds
<1>4. CASE Interpose(t)
  <2>1. /\ Return(t) /\ uino' = [uino EXCEPT ![u] = op[t].i]
        /\ op[t].kind \in Making \/ op[t].kind = "lookup"
        /\ op[t].kind # "lookup" => uat' = uat
    BY <1>2, <1>4 DEF Interpose, UnlockDir, StageOf
  <2>2. /\ \A w \in Uppers \ {u} : uino'[w] = uino[w]
        /\ uino[u] = None
    BY <1>2, <2>1 DEF Types, ArgsOf, DentryInv, CallOf
  <2>3. CASE op[t].kind = "lookup"
    <3>1. PICK d \in Dirs : upLock[d] = t /\ uat' = [uat EXCEPT ![u] = d]
      BY <1>4, <2>3 DEF Interpose, DentryInv, CallOf
    <3>2. uat'[u] = d /\ \A w \in Uppers \ {u} : uat'[w] = uat[w] /\ uat[w] # d
      BY <1>2, <2>3, <3>1 DEF Types, LocksOf
    <3>3. Moves(t)
      BY <1>2, <2>1, <2>2, <2>3, <3>1, <3>2, CallEnds DEF Moves
    <3>4. \A w, x \in Uppers : uat'[w] \in Dirs /\ uat'[x] = uat'[w] => w = x
      BY <3>2 DEF UpperInv
    <3> QED
      BY <1>2, <2>1, <3>2, <3>3, <3>4, UpperEnds
  <2>4. CASE op[t].kind \in Making
    <3>1. uat' = uat /\ op[t].kind # "lookup" /\ op[t].kind \in Naming
      BY <2>1, <2>4 DEF Making, Naming, OneParent
    <3>2. Moves(t)
      BY <1>2, <2>1, <2>2, <3>1, CallEnds DEF Moves, LocksOf
    <3> QED
      BY <2>1, <3>1, <3>2, UpperEnds DEF UpperInv
  <2> QED
    BY <2>1, <2>3, <2>4
<1>5. CASE Rename(t)
  <2>1. /\ Return(t) /\ uino' = uino /\ op[t].kind = "rename" /\ v \in Uppers
        /\ uat' = [uat EXCEPT ![u] = uat[v], ![v] = "dropped"]
    BY <1>2, <1>5 DEF Rename, UnlockDir
  <2>2. /\ uat[u] \in Dirs /\ uat[v] \in Dirs /\ upLock[uat[u]] = t /\ upLock[uat[v]] = t /\ u # v
    BY <1>2, <2>1 DEF LocksOf, Naming
  <2>3. uat'[u] = uat[v] /\ uat'[v] = "dropped" /\ \A w \in Uppers \ {u, v} : uat'[w] = uat[w]
    BY <1>2, <2>1, <2>2 DEF Types
  <2>4. Moves(t)
    <3>1. \A d \in Dirs : upLock'[d] = IF upLock[d] = t THEN None ELSE upLock[d]
      BY <2>1, CallEnds
    <3>2. \A w \in Uppers : uat'[w] # uat[w] =>
            /\ uat[w] \in Dirs => upLock[uat[w]] = t
            /\ uat'[w] \in Dirs => upLock[uat'[w]] = t
      BY <1>2, <2>1, <2>2, <2>3
    <3> QED
      BY <2>1, <3>1, <3>2 DEF Moves
  <2>5. \A w, x \in Uppers : uat'[w] \in Dirs /\ uat'[x] = uat'[w] => w = x
    <3>1. \A w \in Uppers \ {v} : uat[w] # uat[v]
      BY <2>1, <2>2 DEF UpperInv
    <3>2. \A w, x \in Uppers \ {u, v} : uat[w] \in Dirs /\ uat[x] = uat[w] => w = x
      BY DEF UpperInv
    <3> QED
      BY <1>2, <2>2, <2>3, <3>1, <3>2
  <2>6. \A w \in Uppers : uat'[w] = "new" => uat[w] = "new"
    BY <2>2, <2>3, <1>2
  <2> QED
    BY <2>1, <2>4, <2>5, <2>6, UpperEnds
<1>6. CASE Setattr(t)
  <2>1. pc[t] = "use" /\ UNCHANGED <<uat, uino>> /\ op[t].kind = "setattr"
    BY <1>2, <1>6 DEF Setattr, StageOf
  <2>2. CASE Return(t)
    <3>1. Moves(t)
      BY <2>1, <2>2, CallEnds DEF Moves
    <3> QED
      BY <2>1, <2>2, <3>1, UpperEnds DEF UpperInv
  <2>3. CASE At(t, "use", "null") /\ UNCHANGED <<op, upLock>>
    <3>1. Alone(t) /\ pc'[t] = "null"
      BY <2>3 DEF At, Alone, Types
    <3>2. StageOf(t)'
      BY <1>2, <2>3, <3>1 DEF StageOf
    <3> QED
      BY <2>1, <2>3, <3>1, <3>2, UpperGoesOn
  <2> QED
    BY <1>6, <2>2, <2>3 DEF Setattr
<1> QED
  BY <1>3, <1>4, <1>5, <1>6 DEF EndStep

\* The dcache lets go only of what nobody uses.
LEMMA OutsideKeepsUpper ==
  ASSUME Types, DentryInv, UpperInv, OutsideStep
  PROVE  UpperInv'
<1> USE DEF upperVars, lowerVars, lockVars, inodeVars
<1>1. ASSUME NEW u \in Uppers, Release(u)
      PROVE  UpperInv'
  <2>1. /\ UNCHANGED <<upLock, pc, op>> /\ "none" \notin Dirs
        /\ \A t \in Tasks : op[t].u # u /\ op[t].u2 # u
    BY <1>1, NoneIsNothing DEF Release, Used
  <2>2. /\ uat'[u] = "none" /\ uino'[u] = None
        /\ \A v \in Uppers \ {u} : uat'[v] = uat[v] /\ uino'[v] = uino[v]
    BY <1>1 DEF Release, Types
  <2>3. ASSUME NEW t \in Tasks PROVE StageOf(t)' /\ LocksOf(t)' /\ ArgsOf(t)'
    <3>1. StageOf(t) /\ LocksOf(t) /\ ArgsOf(t)
      BY DEF UpperInv
    <3>2. /\ op[t].kind # "none" => op[t].u \in Uppers \ {u}
          /\ op[t].kind \in {"link", "rename"} => op[t].u2 \in Uppers \ {u}
      BY <2>1, NoOpIsOp DEF Types, IsOp, DentryInv, CallOf
    <3>3. StageOf(t)'
      BY <2>1, <3>1 DEF StageOf
    <3>4. LocksOf(t)' /\ ArgsOf(t)'
      BY <2>1, <2>2, <3>1, <3>2 DEF LocksOf, ArgsOf, Naming, OneParent, Making, Removing
    <3> QED
      BY <3>3, <3>4
  <2> QED
    BY <2>1, <2>2, <2>3 DEF UpperInv
<1>2. CASE UNCHANGED <<upLock, pc, op, uat, uino>>
  BY <1>2 DEF UpperInv, StageOf, LocksOf, ArgsOf
<1> QED
  BY <1>1, <1>2 DEF OutsideStep, ClearInode, OutsideRename, OutsideUnlink

-----------------------------------------------------------------------------
(* Counting references.                                                     *)

LEMMA Counts ==
  /\ \A l \in Lowers : IsFiniteSet(Referrers(l)) /\ Cardinality(Referrers(l)) \in Nat
  /\ \A l \in Lowers : IsFiniteSet(Holders(l)) /\ Cardinality(Holders(l)) \in Nat
  /\ \A S \in SUBSET Uppers : IsFiniteSet(S) /\ Cardinality(S) \in Nat
  /\ \A S \in SUBSET Tasks : IsFiniteSet(S) /\ Cardinality(S) \in Nat
<1>1. \A S \in SUBSET Uppers : IsFiniteSet(S) /\ Cardinality(S) \in Nat
  BY FiniteTasks, FS_Subset, FS_CardinalityType
<1>2. \A S \in SUBSET Tasks : IsFiniteSet(S) /\ Cardinality(S) \in Nat
  BY FiniteTasks, FS_Subset, FS_CardinalityType
<1>3. IsFiniteSet(Tasks \X Uppers)
  BY FiniteTasks, FS_Product
<1>4. \A S \in SUBSET (Tasks \X Uppers) : IsFiniteSet(S) /\ Cardinality(S) \in Nat
  BY <1>3, FS_Subset, FS_CardinalityType
<1> QED
  BY <1>1, <1>2, <1>4 DEF Referrers, Holders

\* The tally of a subset of the dentries.
Tally(us, l) == Cardinality({x \in us : priv[x] = l})

LEMMA TallyOfOne ==
  ASSUME NEW u \in Uppers, NEW l
  PROVE  Tally({u}, l) = IF priv[u] = l THEN 1 ELSE 0
<1>1. CASE priv[u] = l
  <2>1. {x \in {u} : priv[x] = l} = {u}
    BY <1>1
  <2> QED
    BY <1>1, <2>1, FS_Singleton DEF Tally
<1>2. CASE priv[u] # l
  <2>1. {x \in {u} : priv[x] = l} = {}
    BY <1>2
  <2> QED
    BY <1>2, <2>1, FS_EmptySet DEF Tally
<1> QED
  BY <1>1, <1>2

LEMMA TallyOfNone == \A l : Tally({}, l) = 0
<1>1. \A l : {x \in {} : priv[x] = l} = {}
  OBVIOUS
<1> QED
  BY <1>1, FS_EmptySet DEF Tally

\* A call takes a hold on the dentries us, and on each lower one as many references.
LEMMA Taken ==
  ASSUME NEW t \in Tasks, NEW us \in SUBSET Uppers, NEW l \in Lowers
  PROVE  /\ IsFiniteSet({t} \X {x \in us : priv[x] = l})
         /\ Cardinality({t} \X {x \in us : priv[x] = l}) = Tally(us, l) /\ Tally(us, l) \in Nat
<1> DEFINE S == {x \in us : priv[x] = l}
<1>1. S \in SUBSET Uppers /\ IsFiniteSet(S) /\ Cardinality(S) \in Nat
  BY Counts
<1>2. IsFiniteSet({t}) /\ Cardinality({t}) = 1
  BY FS_Singleton
<1> QED
  BY <1>1, <1>2, FS_Product DEF Tally

LEMMA HoldBegins ==
  ASSUME NEW t \in Tasks, NEW us \in SUBSET Uppers, UNCHANGED priv,
         \A w \in Uppers : ~Holds(t, w) /\ (Holds(t, w)' <=> w \in us),
         \A s \in Tasks \ {t}, w \in Uppers : Holds(s, w)' <=> Holds(s, w),
         NEW l \in Lowers
  PROVE  Cardinality(Holders(l)') = Cardinality(Holders(l)) + Tally(us, l)
<1> DEFINE T == {t} \X {x \in us : priv[x] = l}
<1>1. Holders(l)' = Holders(l) \cup T /\ Holders(l) \cap T = {}
  BY DEF Holders
<1>2. IsFiniteSet(T) /\ Cardinality(T) = Tally(us, l) /\ Tally(us, l) \in Nat
  BY Taken
<1>3. IsFiniteSet(Holders(l)) /\ Cardinality(Holders(l)) \in Nat
  BY Counts
<1> HIDE DEF T
<1>4. Cardinality(Holders(l) \cup T)
         = Cardinality(Holders(l)) + Cardinality(T) - Cardinality(Holders(l) \cap T)
  BY <1>2, <1>3, FS_Union
<1>5. Cardinality(Holders(l) \cap T) = 0
  BY <1>1, FS_EmptySet
<1> QED
  BY <1>1, <1>2, <1>3, <1>4, <1>5

LEMMA HoldEnds ==
  ASSUME NEW t \in Tasks, NEW us \in SUBSET Uppers, UNCHANGED priv,
         \A w \in Uppers : ~Holds(t, w)' /\ (Holds(t, w) <=> w \in us),
         \A s \in Tasks \ {t}, w \in Uppers : Holds(s, w)' <=> Holds(s, w),
         NEW l \in Lowers
  PROVE  /\ Cardinality(Holders(l)) = Cardinality(Holders(l)') + Tally(us, l)
         /\ Cardinality(Holders(l)') \in Nat
<1> DEFINE T == {t} \X {x \in us : priv[x] = l}
<1>1. Holders(l)' = Holders(l) \ T /\ Holders(l) \cap T = T
  BY DEF Holders
<1>2. IsFiniteSet(T) /\ Cardinality(T) = Tally(us, l) /\ Tally(us, l) \in Nat
  BY Taken
<1>3. IsFiniteSet(Holders(l)) /\ Cardinality(Holders(l)) \in Nat
  BY Counts
<1> HIDE DEF T
<1>4. /\ IsFiniteSet(Holders(l) \ T)
      /\ Cardinality(Holders(l) \ T) = Cardinality(Holders(l)) - Cardinality(Holders(l) \cap T)
  BY <1>3, FS_Difference
<1>5. Cardinality(Holders(l) \ T) \in Nat
  BY <1>4, FS_CardinalityType
<1>6. Cardinality(Holders(l)') = Cardinality(Holders(l) \ T)
      /\ Cardinality(Holders(l) \cap T) = Cardinality(T)
  BY <1>1, Zenon
<1> QED
  BY <1>2, <1>3, <1>4, <1>5, <1>6

\* As long as nobody takes or puts a hold, and the private data they are for stay.
LEMMA HoldStays ==
  ASSUME \A s \in Tasks, w \in Uppers : Holds(s, w)' <=> Holds(s, w),
         \A s \in Tasks, w \in Uppers : Holds(s, w) => priv'[w] = priv[w]
  PROVE  \A l \in Lowers : Holders(l)' = Holders(l)
BY DEF Holders

-----------------------------------------------------------------------------
(* The references are kept.                                                 *)

LEMMA RefsBegin ==
  ASSUME DentryRefs, NEW t \in Tasks, NEW us \in SUBSET Uppers, UNCHANGED priv,
         \A w \in Uppers : ~Holds(t, w) /\ (Holds(t, w)' <=> w \in us),
         \A s \in Tasks \ {t}, w \in Uppers : Holds(s, w)' <=> Holds(s, w),
         refs' = [l \in Lowers |-> refs[l] + Tally(us, l)]
  PROVE  DentryRefs'
<1>1. \A l \in Lowers : Cardinality(Holders(l)') = Cardinality(Holders(l)) + Tally(us, l)
  BY HoldBegins
<1>2. \A l \in Lowers : Tally(us, l) \in Nat
  BY Taken
<1>3. \A l \in Lowers : Referrers(l)' = Referrers(l)
  BY DEF Referrers
<1>4. \A l \in Lowers : Cardinality(Holders(l)) \in Nat /\ Cardinality(Referrers(l)) \in Nat
  BY Counts
<1> QED
  BY <1>1, <1>2, <1>3, <1>4 DEF DentryRefs

LEMMA RefsEnd ==
  ASSUME DentryRefs, NEW t \in Tasks, NEW us \in SUBSET Uppers, UNCHANGED priv,
         \A w \in Uppers : ~Holds(t, w)' /\ (Holds(t, w) <=> w \in us),
         \A s \in Tasks \ {t}, w \in Uppers : Holds(s, w)' <=> Holds(s, w),
         refs' = [l \in Lowers |-> refs[l] - Tally(us, l)]
  PROVE  DentryRefs'
<1>1. \A l \in Lowers : /\ Cardinality(Holders(l)) = Cardinality(Holders(l)') + Tally(us, l)
                        /\ Cardinality(Holders(l)') \in Nat
  BY HoldEnds
<1>2. \A l \in Lowers : Tally(us, l) \in Nat
  BY Taken
<1>3. \A l \in Lowers : Referrers(l)' = Referrers(l)
  BY DEF Referrers
<1>4. \A l \in Lowers : Cardinality(Holders(l)) \in Nat /\ Cardinality(Referrers(l)) \in Nat
  BY Counts
<1> QED
  BY <1>1, <1>2, <1>3, <1>4 DEF DentryRefs

\* A dentry gets its private data.
LEMMA RefsLinked ==
  ASSUME DentryRefs, NEW u \in Uppers, NEW l \in Lowers, priv \in [Uppers -> Lowers \cup {None}],
         priv[u] = None, priv' = [priv EXCEPT ![u] = l], refs' = [refs EXCEPT ![l] = @ + 1],
         \A k \in Lowers : Holders(k)' = Holders(k)
  PROVE  DentryRefs'
<1>1. Referrers(l)' = Referrers(l) \cup {u} /\ u \notin Referrers(l)
  BY NoneIsNothing DEF Referrers
<1>2. \A k \in Lowers \ {l} : Referrers(k)' = Referrers(k)
  BY NoneIsNothing DEF Referrers
<1>3. \A k \in Lowers : /\ Cardinality(Holders(k)) \in Nat /\ Cardinality(Referrers(k)) \in Nat
                        /\ IsFiniteSet(Referrers(k))
  BY Counts
<1>4. Cardinality(Referrers(l) \cup {u}) = Cardinality(Referrers(l)) + 1
  BY <1>1, <1>3, FS_AddElement
<1>5. /\ Cardinality(Referrers(l)') = Cardinality(Referrers(l)) + 1
      /\ \A k \in Lowers \ {l} : Cardinality(Referrers(k)') = Cardinality(Referrers(k))
      /\ \A k \in Lowers : Cardinality(Holders(k)') = Cardinality(Holders(k))
  BY <1>1, <1>2, <1>4
<1> QED
  BY <1>3, <1>5 DEF DentryRefs

\* A dentry loses its private data.
LEMMA RefsUnlinked ==
  ASSUME DentryRefs, NEW u \in Uppers, NEW l \in Lowers, priv \in [Uppers -> Lowers \cup {None}],
         priv[u] = l, priv' = [priv EXCEPT ![u] = None], Put({u}),
         \A k \in Lowers : Holders(k)' = Holders(k)
  PROVE  DentryRefs'
<1>0. /\ None \notin Lowers /\ priv'[u] = None
      /\ \A v \in Uppers \ {u} : priv'[v] = priv[v]
  BY NoneIsNothing
<1>1. Referrers(l)' = Referrers(l) \ {u} /\ u \in Referrers(l)
  BY <1>0 DEF Referrers
<1>2. \A k \in Lowers \ {l} : Referrers(k)' = Referrers(k)
  BY <1>0 DEF Referrers
<1>3. \A k \in Lowers : /\ Cardinality(Holders(k)) \in Nat /\ Cardinality(Referrers(k)) \in Nat
                        /\ IsFiniteSet(Referrers(k))
  BY Counts
<1>4. /\ Cardinality(Referrers(l) \ {u}) = Cardinality(Referrers(l)) - 1
      /\ IsFiniteSet(Referrers(l) \ {u})
  BY <1>1, <1>3, FS_RemoveElement
<1>5. Cardinality(Referrers(l) \ {u}) \in Nat
  BY <1>4, FS_CardinalityType
<1>6. \A k \in Lowers : refs'[k] = refs[k] - (IF k = l THEN 1 ELSE 0)
  <2>1. \A k \in Lowers : Cardinality({x \in {u} : priv[x] = k}) = IF k = l THEN 1 ELSE 0
    BY TallyOfOne DEF Tally
  <2> QED
    BY <2>1 DEF Put
<1>7. /\ Cardinality(Referrers(l)') = Cardinality(Referrers(l) \ {u})
      /\ \A k \in Lowers \ {l} : Cardinality(Referrers(k)') = Cardinality(Referrers(k))
      /\ \A k \in Lowers : Cardinality(Holders(k)') = Cardinality(Holders(k))
  BY <1>1, <1>2
<1>8. DOMAIN refs' = Lowers /\ refs' = [k \in Lowers |-> refs'[k]]
  BY DEF Put
<1> QED
  BY <1>0, <1>3, <1>4, <1>5, <1>6, <1>7, <1>8 DEF DentryRefs

LEMMA RefsStay ==
  ASSUME DentryRefs, UNCHANGED <<refs, priv>>,
         \A s \in Tasks, w \in Uppers : Holds(s, w)' <=> Holds(s, w)
  PROVE  DentryRefs'
<1>1. \A l \in Lowers : Holders(l)' = Holders(l) /\ Referrers(l)' = Referrers(l)
  BY DEF Holders, Referrers
<1> QED
  BY <1>1 DEF DentryRefs

\* What a call holds from its start on.
LEMMA HoldsAtStart ==
  ASSUME Types, DentryInv, NEW t \in Tasks, NEW kind \in Kinds, NEW ds \in SUBSET Dirs,
         NEW u \in Uppers, NEW u2 \in Uppers \cup {None}, NEW there \in Pcs,
         At(t, "idle", there), Call(t, kind, ds, u, u2)
  PROVE  /\ \A w \in Uppers : /\ ~Holds(t, w)
                              /\ Holds(t, w)' <=> kind \in {"link", "rename"} /\ w \in {u, u2}
         /\ \A s \in Tasks \ {t}, w \in Uppers : Holds(s, w)' <=> Holds(s, w)
<1>1. Alone(t) /\ pc[t] = "idle" /\ op'[t].kind = kind /\ op'[t].u = u /\ op'[t].u2 = u2
  BY CallBegins
<1>2. op[t].kind = "none"
  BY <1>1, NoOpIsOp DEF DentryInv, CallOf
<1> QED
  BY <1>1, <1>2 DEF Alone, Holds

LEMMA BeginsKeepRefs ==
  ASSUME Types, DentryInv, DentryRefs, NEW t \in Tasks, BeginStep(t)
  PROVE  DentryRefs'
<1> USE DEF upperVars, lowerVars
<1>0. /\ {} \in SUBSET Dirs /\ None \in Uppers \cup {None}
      /\ {"use", "look", "lock"} \subseteq Pcs
      /\ {"setattr", "lookup", "create", "mkdir", "link", "unlink", "rmdir", "rename"} \subseteq Kinds
  BY DEF Pcs, Kinds
<1>1. ASSUME NEW kind \in Kinds \ {"link", "rename"}, NEW ds \in SUBSET Dirs, NEW u \in Uppers,
             NEW there \in Pcs, At(t, "idle", there), Call(t, kind, ds, u, None),
             UNCHANGED <<refs, priv>>
      PROVE  DentryRefs'
  <2>1. \A s \in Tasks, w \in Uppers : Holds(s, w)' <=> Holds(s, w)
    BY <1>0, <1>1, HoldsAtStart
  <2> QED
    BY <1>1, <2>1, RefsStay
<1>2. ASSUME NEW kind \in {"link", "rename"}, NEW ds \in SUBSET Dirs, NEW u \in Uppers,
             NEW v \in Uppers, CallOn(t, kind, ds, u, v)
      PROVE  DentryRefs'
  <2>1. At(t, "idle", "lock") /\ Call(t, kind, ds, u, v) /\ priv' = priv /\ kind \in Kinds
        /\ refs' = [l \in Lowers |-> refs[l] + Tally({u, v}, l)]
    BY <1>0, <1>2 DEF CallOn, Get, Tally
  <2>2. /\ \A w \in Uppers : ~Holds(t, w) /\ (Holds(t, w)' <=> w \in {u, v})
        /\ \A s \in Tasks \ {t}, w \in Uppers : Holds(s, w)' <=> Holds(s, w)
    BY <1>0, <1>2, <2>1, HoldsAtStart
  <2> QED
    BY <2>1, <2>2, RefsBegin
<1>3. ASSUME NEW u \in Uppers, Hold(t, u)
      PROVE  DentryRefs'
  <2>1. At(t, "idle", "use") /\ Call(t, "setattr", {}, u, None) /\ UNCHANGED <<refs, priv>>
    BY <1>3 DEF Hold
  <2> QED
    BY <1>0, <1>1, <2>1
<1>4. ASSUME NEW u \in Uppers, NEW d \in Dirs, StartLookup(t, d, u)
      PROVE  DentryRefs'
  <2>1. At(t, "idle", "look") /\ Call(t, "lookup", {d}, u, None) /\ UNCHANGED <<refs, priv>>
    BY <1>4 DEF StartLookup
  <2> QED
    BY <1>0, <1>1, <2>1
<1>5. ASSUME NEW u \in Uppers, NEW d \in Dirs, StartMake(t, d, u) \/ StartRemove(t, d, u)
      PROVE  DentryRefs'
  <2>1. PICK kind \in {"create", "mkdir", "rmdir", "unlink"} : CallOn(t, kind, {d}, u, None)
    BY <1>5 DEF StartMake, StartRemove
  <2>2. /\ At(t, "idle", "lock") /\ Call(t, kind, {d}, u, None) /\ UNCHANGED <<refs, priv>>
        /\ kind \in Kinds \ {"link", "rename"}
    BY <1>0, <2>1 DEF CallOn
  <2> QED
    BY <1>0, <1>1, <2>2
<1>6. ASSUME NEW u \in Uppers, NEW d \in Dirs, NEW v \in Uppers, StartLink(t, d, u, v)
      PROVE  DentryRefs'
  BY <1>2, <1>6 DEF StartLink
<1>7. ASSUME NEW u \in Uppers, NEW d \in Dirs, NEW v \in Uppers, NEW e \in Dirs,
             StartRename(t, d, e, u, v)
      PROVE  DentryRefs'
  BY <1>2, <1>7 DEF StartRename
<1> QED
  BY <1>3, <1>4, <1>5, <1>6, <1>7 DEF BeginStep

\* What a call that returns puts.
LEMMA HoldsAtReturn ==
  ASSUME Types, NEW t \in Tasks, Return(t)
  PROVE  /\ \A w \in Uppers : ~Holds(t, w)'
         /\ \A s \in Tasks \ {t}, w \in Uppers : Holds(s, w)' <=> Holds(s, w)
BY CallEnds, NoOpIsOp DEF Alone, Holds

LEMMA PutOldKeepsRefs ==
  ASSUME Types, DentryInv, DentryRefs, NEW t \in Tasks, pc[t] \notin {"idle", "look"},
         Return(t), PutOld(t), UNCHANGED priv
  PROVE  DentryRefs'
<1>1. CASE op[t].kind \in {"link", "rename"}
  <2>1. {op[t].u, op[t].u2} \in SUBSET Uppers
    BY <1>1, CallDentries
  <2>2. refs' = [l \in Lowers |-> refs[l] - Tally({op[t].u, op[t].u2}, l)]
    BY <1>1 DEF PutOld, Put, Tally
  <2>3. \A w \in Uppers : Holds(t, w) <=> w \in {op[t].u, op[t].u2}
    BY <1>1 DEF Holds
  <2> QED
    BY <2>1, <2>2, <2>3, HoldsAtReturn, RefsEnd
<1>2. CASE op[t].kind \notin {"link", "rename"}
  <2>1. \A w \in Uppers : ~Holds(t, w)
    BY <1>2 DEF Holds
  <2> QED
    BY <1>2, <2>1, HoldsAtReturn, RefsStay DEF PutOld
<1> QED
  BY <1>1, <1>2

LEMMA TasksKeepRefs ==
  ASSUME Types, DentryInv, UpperInv, DentryRefs, NEW t \in Tasks,
         LookStep(t) \/ MiddleStep(t) \/ EndStep(t)
  PROVE  DentryRefs'
<1> USE DEF upperVars, lowerVars, lockVars
<1> DEFINE u == op[t].u
<1>1. CASE \E d \in Dirs, l \in Lowers : Look(t, d, l)
  <2>1. PICK d \in Dirs, l \in Lowers : Look(t, d, l)
    BY <1>1
  <2>2. /\ u \in Uppers /\ priv[u] = None /\ priv' = [priv EXCEPT ![u] = l]
        /\ refs' = [refs EXCEPT ![l] = @ + 1] /\ op[t].kind = "lookup"
    BY <2>1 DEF Look, DentryInv, CallOf
  <2>3. \A s \in Tasks, w \in Uppers : /\ Holds(s, w)' <=> Holds(s, w)
                                       /\ Holds(s, w) => w # u
    <3>1. \A w \in Uppers : ~Holds(t, w) /\ ~Holds(t, w)'
      BY <2>1, <2>2, HoldsAtReturn DEF Look, Holds
    <3>2. \A s \in Tasks \ {t}, w \in Uppers : Holds(s, w)' <=> Holds(s, w)
      BY <2>1, HoldsAtReturn DEF Look, Holds
    <3>3. \A s \in Tasks \ {t}, w \in Uppers : Holds(s, w) => w # u
      BY <2>2 DEF Holds, DentryInv, OwnDentry
    <3> QED
      BY <3>1, <3>2, <3>3
  <2>4. priv \in [Uppers -> Lowers \cup {None}]
    BY DEF Types
  <2>5. \A k \in Lowers : Holders(k)' = Holders(k)
    BY <2>2, <2>3, <2>4, HoldStays
  <2> QED
    BY <2>2, <2>4, <2>5, RefsLinked
<1>2. CASE LookFails(t) \/ LookLosesMount(t) \/ Remove(t) \/ (Setattr(t) /\ Return(t))
  <2>1. /\ Return(t) /\ UNCHANGED <<refs, priv>>
        /\ op[t].kind \notin {"link", "rename"}
    BY <1>2 DEF LookFails, LookLosesMount, Remove, Setattr, UnlockDir, UpperInv, StageOf, DentryInv, CallOf
  <2>2. \A w \in Uppers : ~Holds(t, w)
    BY <2>1 DEF Holds
  <2> QED
    BY <2>1, <2>2, HoldsAtReturn, RefsStay
<1>3. CASE MiddleStep(t)
  <2>1. UNCHANGED <<refs, priv>>
    BY <1>3 DEF MiddleStep, Lock, Iget, IgetOfNothing, Make, Link, ActOnMoved
  <2>2. \A s \in Tasks, w \in Uppers : Holds(s, w)' <=> Holds(s, w)
    BY <1>3, MiddleCall DEF Alone, Holds
  <2> QED
    BY <2>1, <2>2, RefsStay
<1>4. CASE LookupFails(t)
  <2>1. /\ pc[t] \notin {"idle", "look"} /\ op[t].kind = "lookup" /\ Return(t)
        /\ priv' = [priv EXCEPT ![u] = None] /\ Put({u})
    BY <1>4 DEF LookupFails
  <2>2. u \in Uppers /\ priv[u] \in Lowers /\ priv \in [Uppers -> Lowers \cup {None}]
    BY <2>1, CallDentries DEF Types
  <2>3. \A s \in Tasks, w \in Uppers : Holds(s, w) => w # u /\ s # t
    BY <2>1 DEF Holds, DentryInv, OwnDentry
  <2>4. \A k \in Lowers : Holders(k)' = Holders(k)
    BY <2>1, <2>2, <2>3, HoldsAtReturn, HoldStays
  <2> QED
    BY <2>1, <2>2, <2>4, RefsUnlinked
<1>5. CASE ActFails(t) \/ InterposeFails(t) \/ Interpose(t) \/ Rename(t)
  <2>1. pc[t] \notin {"idle", "look"} /\ Return(t) /\ PutOld(t) /\ priv' = priv
    BY <1>5 DEF ActFails, InterposeFails, Interpose, Rename, UnlockDir
  <2> QED
    BY <2>1, PutOldKeepsRefs
<1>6. CASE Setattr(t) /\ ~Return(t)
  <2>1. UNCHANGED <<op, refs, priv>>
    BY <1>6 DEF Setattr
  <2> QED
    BY <2>1, RefsStay DEF Holds
<1> QED
  BY <1>1, <1>2, <1>3, <1>4, <1>5, <1>6 DEF LookStep, EndStep

LEMMA OutsideKeepsRefs ==
  ASSUME Types, DentryInv, UpperInv, DentryRefs, OutsideStep
  PROVE  DentryRefs'
<1> USE DEF upperVars, lowerVars, lockVars, inodeVars
<1>1. ASSUME NEW u \in Uppers, Release(u)
      PROVE  DentryRefs'
  <2>1. /\ op' = op /\ priv' = [priv EXCEPT ![u] = None] /\ Put({u})
        /\ \A s \in Tasks : u \notin {op[s].u, op[s].u2}
    BY <1>1 DEF Release, Used
  <2>2. priv[u] \in Lowers /\ priv \in [Uppers -> Lowers \cup {None}]
    <3>1. uat[u] # "none" /\ uat[u] # "new"
      BY <1>1, <2>1 DEF Release, UpperInv
    <3> QED
      BY <3>1 DEF Types, DentryInv, DentryOf
  <2>3. \A s \in Tasks, w \in Uppers : (Holds(s, w)' <=> Holds(s, w)) /\ (Holds(s, w) => w # u)
    BY <2>1 DEF Holds
  <2>4. \A k \in Lowers : Holders(k)' = Holders(k)
    BY <2>1, <2>2, <2>3, HoldStays
  <2> QED
    BY <2>1, <2>2, <2>4, RefsUnlinked
<1>2. CASE UNCHANGED <<op, refs, priv>>
  BY <1>2, RefsStay DEF Holds
<1> QED
  BY <1>1, <1>2 DEF OutsideStep, ClearInode, OutsideRename, OutsideUnlink

-----------------------------------------------------------------------------
(* The mount, the parents and the inodes.                                   *)

ATaskStep(t) == BeginStep(t) \/ LookStep(t) \/ MiddleStep(t) \/ EndStep(t)

\* A call begins with the lower tree, the inodes and the ghosts as they are.
LEMMA BeginsQuietly ==
  ASSUME NEW t \in Tasks, BeginStep(t)
  PROVE  /\ UNCHANGED <<disk, par, hashed, ino, lowerLock, priv, uino, cached, isSet, grabs, mnt>>
         /\ UNCHANGED <<lostMnt, lostDirs, lostInos, losses, halfMade, outside>>
<1> USE DEF upperVars, lowerVars, inodeVars, ghosts, lostVars
<1>1. ASSUME NEW kind, NEW ds, NEW u, NEW v, CallOn(t, kind, ds, u, v)
      PROVE  /\ UNCHANGED <<disk, par, hashed, ino, lowerLock, priv, uino, cached, isSet, grabs, mnt>>
             /\ UNCHANGED <<lostMnt, lostDirs, lostInos, losses, halfMade, outside>>
  BY <1>1 DEF CallOn
<1>2. CASE \E u \in Uppers : Hold(t, u)
  BY <1>2 DEF Hold
<1>3. CASE \E u \in Uppers, d \in Dirs : StartLookup(t, d, u)
  BY <1>3 DEF StartLookup
<1>4. CASE \E u \in Uppers, d \in Dirs : StartMake(t, d, u) \/ StartRemove(t, d, u)
  BY <1>1, <1>4 DEF StartMake, StartRemove
<1>5. CASE \E u \in Uppers, d \in Dirs, v \in Uppers : StartLink(t, d, u, v)
  BY <1>1, <1>5 DEF StartLink
<1>6. CASE \E u \in Uppers, d \in Dirs, v \in Uppers, e \in Dirs : StartRename(t, d, e, u, v)
  BY <1>1, <1>6 DEF StartRename
<1> QED
  BY <1>2, <1>3, <1>4, <1>5, <1>6 DEF BeginStep

LEMMA TasksKeepLowerTypes ==
  ASSUME NamesInv, UpperInv, LowerTypes, NEW t \in Tasks, ATaskStep(t)
  PROVE  LowerTypes'
<1> USE DEF upperVars, lowerVars, lockVars, inodeVars, ghosts, lostVars, NamesInv
<1>0. SomeDir \in Dirs
  BY RootExists DEF SomeDir
<1>1. CASE BeginStep(t)
  BY <1>1, BeginsQuietly DEF LowerTypes
<1>2. CASE LookStep(t)
  <2>1. CASE \E d \in Dirs, l \in Lowers : Look(t, d, l)
    <3>1. PICK d \in Dirs, l \in Lowers : Look(t, d, l)
      BY <2>1
    <3>2. UNCHANGED <<lowerLock, lostMnt, lostDirs, lostInos, losses, halfMade, outside>>
      BY <3>1 DEF Look
    <3>3. LowerLookup(d, l)
      BY <3>1 DEF Look
    <3>4. par' \in [Lowers -> Dirs] /\ hashed' \in [Lowers -> BOOLEAN]
      BY <3>3 DEF LowerLookup, LowerTypes
    <3> QED
      BY <3>2, <3>4 DEF LowerTypes
  <2>2. CASE LookFails(t)
    BY <2>2 DEF LookFails, LowerTypes
  <2>3. CASE LookLosesMount(t)
    BY <2>3, NamesBounds DEF LookLosesMount, LoseMount, Lose, LowerTypes
  <2> QED
    BY <1>2, <2>1, <2>2, <2>3 DEF LookStep
<1>3. CASE MiddleStep(t)
  BY <1>3 DEF MiddleStep, Lock, Iget, IgetOfNothing, Make, Link, ActOnMoved, Enter, LowerTypes
<1>4. CASE EndStep(t)
  <2>1. CASE LookupFails(t)
    BY <1>0, <2>1, NamesBounds DEF LookupFails, Shrink, LoseMount, Lose, LowerTypes
  <2>2. CASE ActFails(t)
    <3>1. /\ UNCHANGED <<par, hashed, lostMnt, lostInos, halfMade, outside>>
          /\ lowerLock' = [d \in Dirs |-> IF lowerLock[d] = t THEN None ELSE lowerLock[d]]
      BY <2>2 DEF ActFails, UnlockDir, LoseParents
    <3>2. \/ UNCHANGED <<lostDirs, losses>>
          \/ /\ lostDirs' = [d \in Dirs |-> lostDirs[d] + (IF op[t].p = d THEN 1 ELSE 0)
                                                        + (IF op[t].p2 = d THEN 1 ELSE 0)]
             /\ losses < MaxLost /\ losses' = losses + 1
      BY <2>2 DEF ActFails, LoseParents, Lose
    <3> QED
      BY <3>1, <3>2, NamesBounds DEF LowerTypes
  <2>3. CASE InterposeFails(t)
    <3>1. op[t].u \in Uppers
      BY <2>3, CallDentries DEF InterposeFails
    <3> QED
      BY <2>3, <3>1 DEF InterposeFails, UnlockDir, LowerTypes
  <2>4. CASE Interpose(t)
    <3>1. /\ UNCHANGED <<par, hashed, lostMnt, lostDirs, halfMade, outside>>
          /\ lowerLock' = [d \in Dirs |-> IF lowerLock[d] = t THEN None ELSE lowerLock[d]]
      BY <2>4 DEF Interpose, UnlockDir, LoseInode
    <3>2. \/ UNCHANGED <<lostInos, losses>>
          \/ /\ lostInos' = [lostInos EXCEPT ![op[t].i] = @ + 1]
             /\ losses < MaxLost /\ losses' = losses + 1
      BY <2>4 DEF Interpose, LoseInode, Lose
    <3> QED
      BY <3>1, <3>2, NamesBounds DEF LowerTypes
  <2>5. CASE Remove(t)
    BY <2>5 DEF Remove, UnlockDir, LowerTypes
  <2>6. CASE Rename(t)
    <3>1. op[t].u \in Uppers /\ op[t].u2 \in Uppers /\ priv[op[t].u] \in Lowers /\ priv[op[t].u2] \in Lowers
      BY <2>6, CallDentries DEF Rename
    <3>2. /\ UNCHANGED <<lostMnt, lostInos, halfMade, outside>>
          /\ lowerLock' = [d \in Dirs |-> IF lowerLock[d] = t THEN None ELSE lowerLock[d]]
      BY <2>6 DEF Rename, UnlockDir, LoseParents
    <3>3. /\ lostDirs' = [d \in Dirs |-> lostDirs[d] + (IF op[t].p = d THEN 1 ELSE 0)
                                                     + (IF op[t].p2 = d THEN 1 ELSE 0)]
          /\ losses < MaxLost /\ losses' = losses + 1
      BY <2>6 DEF Rename, LoseParents, Lose
    <3>4. par' \in [Lowers -> Dirs] /\ hashed' \in [Lowers -> BOOLEAN]
      BY <2>6, <3>1 DEF Rename, MoveLower, LowerTypes
    <3> QED
      BY <3>2, <3>3, <3>4, NamesBounds DEF LowerTypes
  <2>7. CASE Setattr(t)
    BY <2>7 DEF Setattr, LowerTypes
  <2> QED
    BY <1>4, <2>1, <2>2, <2>3, <2>4, <2>5, <2>6, <2>7 DEF EndStep
<1> QED
  BY <1>1, <1>2, <1>3, <1>4 DEF ATaskStep

LEMMA OutsideKeepsLowerTypes ==
  ASSUME LowerTypes, OutsideStep
  PROVE  LowerTypes'
<1> USE DEF upperVars, lowerVars, lockVars, inodeVars, ghosts, lostVars
<1>0. SomeDir \in Dirs
  BY RootExists DEF SomeDir
<1>1. ASSUME NEW u \in Uppers, Release(u) PROVE LowerTypes'
  BY <1>0, <1>1 DEF Release, Shrink, LowerTypes
<1>2. ASSUME NEW i \in Inos, ClearInode(i) PROVE LowerTypes'
  BY <1>2 DEF ClearInode, LowerTypes
<1>3. ASSUME NEW d \in Dirs, NEW e \in Dirs, OutsideRename(d, e) PROVE LowerTypes'
  BY <1>3, NamesBounds DEF OutsideRename, LowerTypes
<1>4. ASSUME NEW d \in Dirs, OutsideUnlink(d) PROVE LowerTypes'
  BY <1>4, NamesBounds DEF OutsideUnlink, LowerTypes
<1> QED
  BY <1>1, <1>2, <1>3, <1>4 DEF OutsideStep

\* Every dentry with private data has a reference to the lower mount.
LEMMA MountRefsKept ==
  ASSUME Types, DentryInv, UpperInv, LowerTypes, MountRefs,
         OutsideStep \/ \E t \in Tasks : ATaskStep(t)
  PROVE  MountRefs'
<1> USE DEF upperVars, lowerVars, lockVars, inodeVars, ghosts, lostVars
<1> DEFINE M == {u \in Uppers : priv[u] # None}
<1>1. IsFiniteSet(M) /\ Cardinality(M) \in Nat
  BY Counts
<1>2. CASE UNCHANGED <<mnt, lostMnt, priv>>
  BY <1>2 DEF MountRefs
<1>3. ASSUME NEW t \in Tasks, NEW d \in Dirs, NEW l \in Lowers, Look(t, d, l)
      PROVE  MountRefs'
  <2>1. /\ op[t].u \in Uppers /\ priv[op[t].u] = None /\ priv' = [priv EXCEPT ![op[t].u] = l]
        /\ mnt' = mnt + 1 /\ lostMnt' = lostMnt
    BY <1>3 DEF Look, DentryInv, CallOf
  <2>2. M' = M \cup {op[t].u} /\ op[t].u \notin M
    BY <2>1, NoneIsNothing DEF Types
  <2>3. Cardinality(M \cup {op[t].u}) = Cardinality(M) + 1
    BY <1>1, <2>2, FS_AddElement
  <2>4. Cardinality(M') = Cardinality(M) + 1
    BY <2>2, <2>3
  <2> QED
    BY <1>1, <2>1, <2>4 DEF MountRefs, LowerTypes
<1>4. ASSUME NEW t \in Tasks, LookLosesMount(t)
      PROVE  MountRefs'
  BY <1>1, <1>4 DEF LookLosesMount, LoseMount, MountRefs, LowerTypes
<1>5. ASSUME NEW u \in Uppers, priv[u] # None, priv' = [priv EXCEPT ![u] = None]
      PROVE  Cardinality(M') = Cardinality(M) - 1 /\ Cardinality(M') \in Nat
  <2>1. M' = M \ {u} /\ u \in M
    BY <1>5, NoneIsNothing DEF Types
  <2>2. Cardinality(M \ {u}) = Cardinality(M) - 1 /\ IsFiniteSet(M \ {u})
    BY <1>1, <2>1, FS_RemoveElement
  <2>3. Cardinality(M \ {u}) \in Nat
    BY <2>2, FS_CardinalityType
  <2> QED
    BY <2>1, <2>2, <2>3
<1>6. ASSUME NEW t \in Tasks, LookupFails(t)
      PROVE  MountRefs'
  <2>1. /\ op[t].u \in Uppers /\ priv[op[t].u] # None /\ priv' = [priv EXCEPT ![op[t].u] = None]
        /\ mnt' = mnt /\ lostMnt' = lostMnt + 1
    BY <1>6 DEF LookupFails, LoseMount, DentryInv, CallOf
  <2>2. Cardinality(M') = Cardinality(M) - 1 /\ Cardinality(M') \in Nat
    BY <1>5, <2>1
  <2> QED
    BY <1>1, <2>1, <2>2 DEF MountRefs, LowerTypes
<1>7. ASSUME NEW u \in Uppers, Release(u)
      PROVE  MountRefs'
  <2>1. priv[u] # None /\ priv' = [priv EXCEPT ![u] = None] /\ mnt' = mnt - 1 /\ lostMnt' = lostMnt
    BY <1>7 DEF Release, Used, UpperInv, Types, DentryInv, DentryOf
  <2>2. Cardinality(M') = Cardinality(M) - 1 /\ Cardinality(M') \in Nat
    BY <1>5, <2>1
  <2> QED
    BY <1>1, <2>1, <2>2 DEF MountRefs, LowerTypes
<1>8. ASSUME NEW t \in Tasks, BeginStep(t) \/ MiddleStep(t)
      PROVE  UNCHANGED <<mnt, lostMnt, priv>>
  BY <1>8, BeginsQuietly DEF MiddleStep, Lock, Iget, IgetOfNothing, Make, Link, ActOnMoved
<1>9. ASSUME NEW t \in Tasks, EndStep(t), ~LookupFails(t)
      PROVE  UNCHANGED <<mnt, lostMnt, priv>>
  BY <1>9 DEF EndStep, ActFails, InterposeFails, Interpose, Remove, Rename, Setattr, LoseParents, LoseInode
<1>10. ASSUME NEW t \in Tasks, LookFails(t)
       PROVE  UNCHANGED <<mnt, lostMnt, priv>>
  BY <1>10 DEF LookFails
<1>11. ASSUME OutsideStep, ~\E u \in Uppers : Release(u)
       PROVE  UNCHANGED <<mnt, lostMnt, priv>>
  BY <1>11 DEF OutsideStep, ClearInode, OutsideRename, OutsideUnlink
<1> QED
  BY <1>2, <1>3, <1>4, <1>6, <1>7, <1>8, <1>9, <1>10, <1>11 DEF ATaskStep, LookStep

\* A call has a reference to each lower parent it has taken; a rename loses it.
LEMMA CountOfParents ==
  ASSUME NEW t \in Tasks, NEW S, NEW S2, S \in SUBSET Tasks, S2 \in SUBSET Tasks,
         \A s \in Tasks \ {t} : s \in S <=> s \in S2, t \notin S
  PROVE  /\ Cardinality(S) \in Nat
         /\ Cardinality(S2) = Cardinality(S) + (IF t \in S2 THEN 1 ELSE 0)
<1>1. IsFiniteSet(S) /\ Cardinality(S) \in Nat
  BY Counts
<1>2. Cardinality(S \cup {t}) = Cardinality(S) + 1
  BY <1>1, FS_AddElement
<1>3. CASE t \in S2
  <2>1. S2 = S \cup {t}
    BY <1>3
  <2> QED
    BY <1>1, <1>2, <1>3, <2>1
<1>4. CASE t \notin S2
  <2>1. S2 = S
    BY <1>4
  <2> QED
    BY <1>1, <1>4, <2>1
<1> QED
  BY <1>3, <1>4

LEMMA ParentsBegin ==
  ASSUME NEW t \in Tasks, Alone(t), op[t].p = None, op[t].p2 = None, NEW d \in Dirs
  PROVE  /\ Cardinality(By(d)) \in Nat /\ Cardinality(By2(d)) \in Nat
         /\ Cardinality(By(d)') = Cardinality(By(d)) + (IF op'[t].p = d THEN 1 ELSE 0)
         /\ Cardinality(By2(d)') = Cardinality(By2(d)) + (IF op'[t].p2 = d THEN 1 ELSE 0)
<1>1. /\ By(d) \in SUBSET Tasks /\ By(d)' \in SUBSET Tasks /\ t \notin By(d)
      /\ \A s \in Tasks \ {t} : s \in By(d) <=> s \in By(d)'
      /\ t \in By(d)' <=> op'[t].p = d
  BY NoneIsNothing DEF By, Alone
<1>2. /\ By2(d) \in SUBSET Tasks /\ By2(d)' \in SUBSET Tasks /\ t \notin By2(d)
      /\ \A s \in Tasks \ {t} : s \in By2(d) <=> s \in By2(d)'
      /\ t \in By2(d)' <=> op'[t].p2 = d
  BY NoneIsNothing DEF By2, Alone
<1>3. /\ Cardinality(By(d)) \in Nat
      /\ Cardinality(By(d)') = Cardinality(By(d)) + (IF t \in By(d)' THEN 1 ELSE 0)
  BY <1>1, CountOfParents
<1>4. /\ Cardinality(By2(d)) \in Nat
      /\ Cardinality(By2(d)') = Cardinality(By2(d)) + (IF t \in By2(d)' THEN 1 ELSE 0)
  BY <1>2, CountOfParents
<1> QED
  BY <1>1, <1>2, <1>3, <1>4

LEMMA ParentsEnd ==
  ASSUME NEW t \in Tasks, Alone(t), op'[t].p = None, op'[t].p2 = None, NEW d \in Dirs
  PROVE  /\ Cardinality(By(d)') \in Nat /\ Cardinality(By2(d)') \in Nat
         /\ Cardinality(By(d)) = Cardinality(By(d)') + (IF op[t].p = d THEN 1 ELSE 0)
         /\ Cardinality(By2(d)) = Cardinality(By2(d)') + (IF op[t].p2 = d THEN 1 ELSE 0)
<1>1. /\ By(d) \in SUBSET Tasks /\ By(d)' \in SUBSET Tasks /\ t \notin By(d)'
      /\ \A s \in Tasks \ {t} : s \in By(d)' <=> s \in By(d)
      /\ t \in By(d) <=> op[t].p = d
  BY NoneIsNothing DEF By, Alone
<1>2. /\ By2(d) \in SUBSET Tasks /\ By2(d)' \in SUBSET Tasks /\ t \notin By2(d)'
      /\ \A s \in Tasks \ {t} : s \in By2(d)' <=> s \in By2(d)
      /\ t \in By2(d) <=> op[t].p2 = d
  BY NoneIsNothing DEF By2, Alone
<1>3. /\ Cardinality(By(d)') \in Nat
      /\ Cardinality(By(d)) = Cardinality(By(d)') + (IF t \in By(d) THEN 1 ELSE 0)
  BY <1>1, CountOfParents
<1>4. /\ Cardinality(By2(d)') \in Nat
      /\ Cardinality(By2(d)) = Cardinality(By2(d)') + (IF t \in By2(d) THEN 1 ELSE 0)
  BY <1>2, CountOfParents
<1> QED
  BY <1>1, <1>2, <1>3, <1>4

LEMMA ParentRefsStay ==
  ASSUME ParentRefs, UNCHANGED <<dirRefs, lostDirs>>,
         \A s \in Tasks : op'[s].p = op[s].p /\ op'[s].p2 = op[s].p2
  PROVE  ParentRefs'
<1>1. \A d \in Dirs : By(d)' = By(d) /\ By2(d)' = By2(d)
  BY DEF By, By2
<1> QED
  BY <1>1 DEF ParentRefs

LEMMA BeginsKeepParents ==
  ASSUME Types, DentryInv, UpperInv, LowerTypes, ParentRefs, NEW t \in Tasks, BeginStep(t)
  PROVE  ParentRefs'
<1>0. /\ {} \in SUBSET Dirs /\ None \in Uppers \cup {None}
      /\ {"use", "look", "lock"} \subseteq Pcs
      /\ {"setattr", "lookup", "create", "mkdir", "link", "unlink", "rmdir", "rename"} \subseteq Kinds
  BY DEF Pcs, Kinds
<1>1. pc[t] = "idle" => op[t].p = None /\ op[t].p2 = None
  BY NoOpIsOp DEF DentryInv, CallOf
<1>2. ASSUME NEW kind \in Kinds \ Naming, NEW ds \in SUBSET Dirs, NEW u \in Uppers,
             NEW there \in Pcs, At(t, "idle", there), Call(t, kind, ds, u, None),
             UNCHANGED <<dirRefs, lostDirs>>
      PROVE  ParentRefs'
  <2>1. /\ Alone(t) /\ pc[t] = "idle"
        /\ op'[t].p = (IF kind \in OneParent \cup {"rename"} THEN Parent(u) ELSE None)
        /\ op'[t].p2 = (IF kind = "rename" THEN Parent(None) ELSE None)
    BY <1>0, <1>2, CallBegins
  <2>2. \A s \in Tasks : op'[s].p = op[s].p /\ op'[s].p2 = op[s].p2
    BY <1>1, <1>2, <2>1 DEF Alone, Naming
  <2> QED
    BY <1>2, <2>2, ParentRefsStay
<1>3. ASSUME NEW kind \in Naming, NEW ds \in SUBSET Dirs, NEW u \in Uppers,
             NEW v \in Uppers \cup {None}, CallOn(t, kind, ds, u, v),
             kind = "rename" => v \in Uppers /\ u # v
      PROVE  ParentRefs'
  <2>1. kind \in Kinds /\ At(t, "idle", "lock") /\ Call(t, kind, ds, u, v) /\ lostDirs' = lostDirs
        /\ GetParents(IF kind = "rename" THEN {u, v} ELSE {u})
    BY <1>0, <1>3 DEF CallOn, Naming, OneParent, ghosts, lostVars
  <2>2. /\ Alone(t) /\ op[t].p = None /\ op[t].p2 = None
        /\ op'[t].p = Parent(u)
        /\ op'[t].p2 = (IF kind = "rename" THEN Parent(v) ELSE None)
    <3>1. /\ Alone(t) /\ pc[t] = "idle"
          /\ op'[t].p = (IF kind \in OneParent \cup {"rename"} THEN Parent(u) ELSE None)
          /\ op'[t].p2 = (IF kind = "rename" THEN Parent(v) ELSE None)
      BY <1>0, <2>1, CallBegins
    <3> QED
      BY <1>1, <1>3, <3>1 DEF Naming
  <2>3. ASSUME NEW d \in Dirs
        PROVE  Cardinality({x \in (IF kind = "rename" THEN {u, v} ELSE {u}) : Parent(x) = d})
                  = (IF op'[t].p = d THEN 1 ELSE 0) + (IF op'[t].p2 = d THEN 1 ELSE 0)
    <3> DEFINE S == {x \in (IF kind = "rename" THEN {u, v} ELSE {u}) : Parent(x) = d}
               A == IF Parent(u) = d THEN {u} ELSE {}
               B == IF kind = "rename" /\ Parent(v) = d THEN {v} ELSE {}
    <3>1. S = A \cup B /\ A \cap B = {}
      BY <1>3
    <3>2. /\ IsFiniteSet(A) /\ Cardinality(A) = IF Parent(u) = d THEN 1 ELSE 0
          /\ IsFiniteSet(B) /\ Cardinality(B) = IF kind = "rename" /\ Parent(v) = d THEN 1 ELSE 0
      BY FS_EmptySet, FS_Singleton
    <3> HIDE DEF S, A, B
    <3>3. Cardinality(A \cup B) = Cardinality(A) + Cardinality(B) - Cardinality(A \cap B)
      BY <3>2, FS_Union
    <3>4. Cardinality(A \cap B) = 0
      BY <3>1, FS_EmptySet
    <3>5. Cardinality(S) = (IF op'[t].p = d THEN 1 ELSE 0) + (IF op'[t].p2 = d THEN 1 ELSE 0)
      BY <2>2, <3>1, <3>2, <3>3, <3>4, NoneIsNothing
    <3> QED
      BY <3>5 DEF S
  <2>4. \A d \in Dirs :
            /\ Cardinality(By(d)) \in Nat /\ Cardinality(By2(d)) \in Nat
            /\ Cardinality(By(d)') = Cardinality(By(d)) + (IF op'[t].p = d THEN 1 ELSE 0)
            /\ Cardinality(By2(d)') = Cardinality(By2(d)) + (IF op'[t].p2 = d THEN 1 ELSE 0)
    BY <2>2, ParentsBegin
  <2>5. dirRefs' = [d \in Dirs |-> dirRefs[d] + ((IF op'[t].p = d THEN 1 ELSE 0) + (IF op'[t].p2 = d THEN 1 ELSE 0))]
    BY <2>1, <2>3 DEF GetParents
  <2> QED
    BY <2>1, <2>4, <2>5 DEF ParentRefs, LowerTypes
<1>4. ASSUME NEW u \in Uppers, Hold(t, u)
      PROVE  ParentRefs'
  <2>1. At(t, "idle", "use") /\ Call(t, "setattr", {}, u, None) /\ UNCHANGED <<dirRefs, lostDirs>>
        /\ "setattr" \notin Naming
    BY <1>4 DEF Hold, ghosts, lostVars, Naming, OneParent
  <2> QED
    BY <1>0, <1>2, <2>1
<1>5. ASSUME NEW u \in Uppers, NEW d \in Dirs, StartLookup(t, d, u)
      PROVE  ParentRefs'
  <2>1. At(t, "idle", "look") /\ Call(t, "lookup", {d}, u, None) /\ UNCHANGED <<dirRefs, lostDirs>>
        /\ "lookup" \notin Naming
    BY <1>5 DEF StartLookup, ghosts, lostVars, Naming, OneParent
  <2> QED
    BY <1>0, <1>2, <2>1
<1>6. ASSUME NEW u \in Uppers, NEW d \in Dirs, StartMake(t, d, u) \/ StartRemove(t, d, u)
      PROVE  ParentRefs'
  <2>1. PICK kind \in {"create", "mkdir", "rmdir", "unlink"} : CallOn(t, kind, {d}, u, None)
    BY <1>6 DEF StartMake, StartRemove
  <2>2. kind \in Naming /\ kind # "rename" /\ {d} \in SUBSET Dirs
    BY DEF Naming, OneParent
  <2> QED
    BY <1>0, <1>3, <2>1, <2>2
<1>7. ASSUME NEW u \in Uppers, NEW d \in Dirs, NEW v \in Uppers, StartLink(t, d, u, v)
      PROVE  ParentRefs'
  <2>1. CallOn(t, "link", {d}, u, v) /\ "link" \in Naming /\ {d} \in SUBSET Dirs
    BY <1>7 DEF StartLink, Naming, OneParent
  <2> QED
    BY <1>3, <2>1
<1>8. ASSUME NEW u \in Uppers, NEW d \in Dirs, NEW v \in Uppers, NEW e \in Dirs,
             StartRename(t, d, e, u, v)
      PROVE  ParentRefs'
  <2>1. CallOn(t, "rename", {d, e}, u, v) /\ "rename" \in Naming /\ {d, e} \in SUBSET Dirs /\ u # v
    BY <1>8 DEF StartRename, Naming, OneParent
  <2> QED
    BY <1>3, <2>1
<1> QED
  BY <1>4, <1>5, <1>6, <1>7, <1>8 DEF BeginStep

LEMMA TasksKeepParents ==
  ASSUME Types, DentryInv, UpperInv, LowerTypes, ParentRefs, NEW t \in Tasks,
         LookStep(t) \/ MiddleStep(t) \/ EndStep(t)
  PROVE  ParentRefs'
<1> USE DEF ghosts, lostVars, lockVars
<1>1. StageOf(t)
  BY DEF UpperInv
<1>2. ASSUME Return(t), UNCHANGED lostDirs, op[t].kind # "rename",
             dirRefs' = IF op[t].kind \in OneParent THEN [dirRefs EXCEPT ![op[t].p] = @ - 1] ELSE dirRefs
      PROVE  ParentRefs'
  <2>1. Alone(t) /\ op'[t].p = None /\ op'[t].p2 = None
    BY <1>2, CallEnds, NoOpIsOp
  <2>2. \A d \in Dirs :
            /\ Cardinality(By(d)') \in Nat /\ Cardinality(By2(d)') \in Nat
            /\ Cardinality(By(d)) = Cardinality(By(d)') + (IF op[t].p = d THEN 1 ELSE 0)
            /\ Cardinality(By2(d)) = Cardinality(By2(d)') + (IF op[t].p2 = d THEN 1 ELSE 0)
    BY <2>1, ParentsEnd
  <2>3. /\ op[t].p2 = None /\ None \notin Dirs
        /\ op[t].kind \in OneParent => op[t].p \in Dirs
        /\ op[t].kind \notin OneParent => op[t].p = None
    BY <1>1, <1>2, NoneIsNothing DEF StageOf, Naming
  <2>4. /\ \A d \in Dirs : dirRefs'[d] = dirRefs[d] - (IF op[t].p = d THEN 1 ELSE 0)
        /\ dirRefs' = [d \in Dirs |-> dirRefs'[d]]
    <3>1. dirRefs \in [Dirs -> Nat]
      BY DEF ParentRefs
    <3>2. CASE op[t].kind \in OneParent
      <4>1. PICK p \in Dirs : p = op[t].p
        BY <2>3, <3>2
      <4>2. dirRefs' = [dirRefs EXCEPT ![p] = dirRefs[p] - 1]
        BY <1>2, <3>2, <4>1
      <4>3. \A d \in Dirs : dirRefs'[d] = dirRefs[d] - (IF p = d THEN 1 ELSE 0)
        BY <3>1, <4>2
      <4>4. dirRefs' = [d \in Dirs |-> dirRefs'[d]]
        BY <3>1, <4>2
      <4> QED
        BY <4>1, <4>3, <4>4
    <3>3. CASE op[t].kind \notin OneParent
      BY <1>2, <2>3, <3>1, <3>3
    <3> QED
      BY <3>2, <3>3
  <2> QED
    BY <1>2, <2>2, <2>3, <2>4 DEF ParentRefs, LowerTypes
<1>3. ASSUME Return(t), LoseParents(t), dirRefs' = dirRefs
      PROVE  ParentRefs'
  <2>1. Alone(t) /\ op'[t].p = None /\ op'[t].p2 = None
    BY <1>3, CallEnds, NoOpIsOp
  <2>2. \A d \in Dirs :
            /\ Cardinality(By(d)') \in Nat /\ Cardinality(By2(d)') \in Nat
            /\ Cardinality(By(d)) = Cardinality(By(d)') + (IF op[t].p = d THEN 1 ELSE 0)
            /\ Cardinality(By2(d)) = Cardinality(By2(d)') + (IF op[t].p2 = d THEN 1 ELSE 0)
    BY <2>1, ParentsEnd
  <2> QED
    BY <1>3, <2>2 DEF ParentRefs, LoseParents, LowerTypes
<1>4. CASE LookStep(t)
  <2>1. UNCHANGED <<dirRefs, lostDirs>>
    BY <1>4 DEF LookStep, Look, LookFails, LookLosesMount, LoseMount
  <2>2. op[t].kind = "lookup" /\ (Return(t) \/ (op' = op))
    BY <1>4 DEF LookStep, Look, LookFails, LookLosesMount, DentryInv, CallOf
  <2>3. "lookup" \notin OneParent /\ op[t].kind # "rename"
    BY <2>2 DEF OneParent
  <2> QED
    BY <1>2, <2>1, <2>2, <2>3, ParentRefsStay
<1>5. CASE MiddleStep(t)
  <2>1. UNCHANGED <<dirRefs, lostDirs>>
    BY <1>5 DEF MiddleStep, Lock, Iget, IgetOfNothing, Make, Link, ActOnMoved
  <2>2. \A s \in Tasks : op'[s].p = op[s].p /\ op'[s].p2 = op[s].p2
    BY <1>5, MiddleCall DEF Alone
  <2> QED
    BY <2>1, <2>2, ParentRefsStay
<1>6. CASE LookupFails(t)
  <2>1. UNCHANGED <<dirRefs, lostDirs>> /\ Return(t) /\ op[t].kind = "lookup"
    BY <1>6 DEF LookupFails, LoseMount
  <2> QED
    BY <1>2, <2>1 DEF OneParent
<1>7. CASE ActFails(t) /\ op[t].kind = "rename"
  <2>1. Return(t) /\ LoseParents(t) /\ dirRefs' = dirRefs
    BY <1>7 DEF ActFails, UnlockDir, OneParent
  <2> QED
    BY <1>3, <2>1
<1>8. CASE Rename(t)
  <2>1. Return(t) /\ LoseParents(t) /\ dirRefs' = dirRefs
    BY <1>8 DEF Rename, UnlockDir, OneParent
  <2> QED
    BY <1>3, <2>1
<1>9. CASE (ActFails(t) /\ op[t].kind # "rename") \/ InterposeFails(t) \/ Interpose(t) \/ Remove(t)
  <2>1. UnlockDir(t) /\ lostDirs' = lostDirs
    BY <1>9 DEF ActFails, InterposeFails, Interpose, Remove, LoseInode
  <2>2. op[t].kind # "rename"
    BY <1>1, <1>9 DEF InterposeFails, Interpose, Remove, StageOf, Making
  <2> QED
    BY <1>2, <2>1, <2>2 DEF UnlockDir
<1>10. CASE Setattr(t)
  <2>1. UNCHANGED <<dirRefs, lostDirs>> /\ (Return(t) \/ op' = op) /\ op[t].kind = "setattr"
    BY <1>1, <1>10 DEF Setattr, StageOf
  <2>2. "setattr" \notin OneParent
    BY DEF OneParent
  <2> QED
    BY <1>2, <2>1, <2>2, ParentRefsStay
<1> QED
  BY <1>4, <1>5, <1>6, <1>7, <1>8, <1>9, <1>10 DEF EndStep

LEMMA OutsideKeepsParents ==
  ASSUME ParentRefs, OutsideStep
  PROVE  ParentRefs'
<1>1. UNCHANGED <<op, dirRefs, lostDirs>>
  BY DEF OutsideStep, Release, ClearInode, OutsideRename, OutsideUnlink, ghosts, lostVars, lockVars
<1> QED
  BY <1>1, ParentRefsStay

\* A linked inode has its reference; those that were taken twice are the lost ones.
LEMMA InodeRefsKept ==
  ASSUME NamesInv, UpperInv, LowerTypes, InodeRefs,
         OutsideStep \/ \E t \in Tasks : ATaskStep(t)
  PROVE  InodeRefs'
<1> USE DEF upperVars, lowerVars, lockVars, inodeVars, ghosts, lostVars, NamesInv
<1>1. CASE UNCHANGED <<grabs, isSet, lostInos>>
  BY <1>1 DEF InodeRefs
<1>2. ASSUME NEW t \in Tasks, Interpose(t)
      PROVE  InodeRefs'
  <2> DEFINE i == op[t].i
  <2>1. i \in Inos /\ isSet[i] \in BOOLEAN /\ (op[t].fresh \/ isSet[i]) /\ op[t].fresh \in BOOLEAN
    BY <1>2 DEF Interpose, InodeInv, Types, IsOp
  <2>2. /\ isSet' = [isSet EXCEPT ![i] = TRUE]
        /\ grabs' = IF op[t].fresh THEN Grab(i) ELSE grabs
        /\ lostInos' = IF op[t].fresh /\ isSet[i] THEN [lostInos EXCEPT ![i] = @ + 1] ELSE lostInos
    BY <1>2 DEF Interpose, LoseInode
  <2> HIDE DEF i
  <2>3. /\ isSet'[i] /\ \A j \in Inos \ {i} : isSet'[j] = isSet[j]
        /\ \A j \in Inos \ {i} : grabs'[j] = grabs[j] /\ lostInos'[j] = lostInos[j]
        /\ grabs'[i] = grabs[i] + IF op[t].fresh THEN 1 ELSE 0
        /\ lostInos'[i] = lostInos[i] + IF op[t].fresh /\ isSet[i] THEN 1 ELSE 0
    BY <2>1, <2>2 DEF Grab, Types, LowerTypes
  <2>4. grabs'[i] = 1 + lostInos'[i]
    BY <2>1, <2>3 DEF InodeRefs, Types, LowerTypes
  <2> QED
    BY <2>1, <2>3, <2>4 DEF InodeRefs
<1>3. ASSUME NEW i \in Inos, ClearInode(i)
      PROVE  InodeRefs'
  <2>1. isSet[i]
    BY <1>3 DEF ClearInode, InodeInv
  <2> QED
    BY <1>3, <2>1 DEF ClearInode, InodeRefs, Types, LowerTypes
<1>4. ASSUME NEW t \in Tasks, LookStep(t) \/ MiddleStep(t)
      PROVE  UNCHANGED <<grabs, isSet, lostInos>>
  BY <1>4 DEF LookStep, Look, LookFails, LookLosesMount, LoseMount,
     MiddleStep, Lock, Iget, IgetOfNothing, Make, Link, ActOnMoved
<1>5. ASSUME NEW t \in Tasks, EndStep(t), ~Interpose(t)
      PROVE  UNCHANGED <<grabs, isSet, lostInos>>
  BY <1>5 DEF EndStep, LookupFails, ActFails, InterposeFails, Remove, Rename, Setattr,
     LoseParents, LoseMount
<1>6. ASSUME OutsideStep, ~\E i \in Inos : ClearInode(i)
      PROVE  UNCHANGED <<grabs, isSet, lostInos>>
  BY <1>6 DEF OutsideStep, Release, OutsideRename, OutsideUnlink
<1> QED
  BY <1>1, <1>2, <1>3, <1>4, <1>5, <1>6, BeginsQuietly DEF ATaskStep

-----------------------------------------------------------------------------
(* The references always.                                                   *)

AccountInv == NamesInv /\ UpperInv /\ RefsInv

LEMMA AccountInit == Init => AccountInv
<1> SUFFICES ASSUME Init PROVE AccountInv
  OBVIOUS
<1>0. /\ NoOp.kind = "none" /\ NoOp.p = None /\ NoOp.p2 = None /\ SomeDir \in Dirs
      /\ {"new", "dropped", "none"} \cap Dirs = {} /\ None \notin Dirs \cup Tasks \cup Lowers
  BY NoOpIsOp, RootExists, NoneIsNothing DEF SomeDir
<1>1. UpperInv
  BY <1>0 DEF Init, UpperInv, StageOf, LocksOf, ArgsOf, Naming, OneParent, Making, Removing
<1>2. LowerTypes
  BY <1>0, NamesBounds DEF Init, LowerTypes
<1>3. DentryRefs
  <2>1. \A l \in Lowers : Referrers(l) = {} /\ Holders(l) = {}
    BY <1>0 DEF Init, Referrers, Holders, Holds
  <2>2. \A l \in Lowers : Cardinality(Referrers(l)) = 0 /\ Cardinality(Holders(l)) = 0
    BY <2>1, FS_EmptySet
  <2> QED
    BY <2>1, <2>2 DEF Init, DentryRefs
<1>4. MountRefs
  <2>1. {u \in Uppers : priv[u] # None} = {}
    BY DEF Init
  <2>2. Cardinality({u \in Uppers : priv[u] # None}) = 0
    BY <2>1, FS_EmptySet
  <2> QED
    BY <2>2 DEF Init, MountRefs
<1>5. ParentRefs
  <2>1. \A d \in Dirs : By(d) = {} /\ By2(d) = {}
    BY <1>0 DEF Init, By, By2
  <2>2. \A d \in Dirs : Cardinality(By(d)) = 0 /\ Cardinality(By2(d)) = 0
    BY <2>1, FS_EmptySet
  <2> QED
    BY <2>1, <2>2 DEF Init, ParentRefs
<1>6. InodeRefs
  BY DEF Init, InodeRefs
<1> QED
  BY <1>1, <1>2, <1>3, <1>4, <1>5, <1>6, NamesInit DEF AccountInv, RefsInv

LEMMA AccountNext == AccountInv /\ [Next]_vars => AccountInv'
<1> SUFFICES ASSUME AccountInv, [Next]_vars PROVE AccountInv'
  OBVIOUS
<1> USE DEF AccountInv
<1>1. NamesInv' /\ Types /\ DentryInv /\ UpperInv
      /\ LowerTypes /\ DentryRefs /\ MountRefs /\ ParentRefs /\ InodeRefs
  BY NamesNext DEF NamesInv, RefsInv
<1>2. ASSUME NEW t \in Tasks, TaskStep(t)
      PROVE  UpperInv' /\ RefsInv'
  <2>1. ATaskStep(t) /\ (BeginStep(t) \/ LookStep(t) \/ MiddleStep(t) \/ EndStep(t))
    BY <1>2 DEF TaskStep, BeginStep, LookStep, MiddleStep, EndStep, ATaskStep
  <2>2. UpperInv'
    BY <1>1, <2>1, BeginsKeepUpper, LooksKeepUpper, MiddlesKeepUpper, EndsKeepUpper DEF LowerTypes
  <2>3. LowerTypes'
    BY <1>1, <2>1, TasksKeepLowerTypes
  <2>4. DentryRefs'
    BY <1>1, <2>1, BeginsKeepRefs, TasksKeepRefs
  <2>5. MountRefs' /\ InodeRefs'
    BY <1>1, <2>1, MountRefsKept, InodeRefsKept
  <2>6. ParentRefs'
    BY <1>1, <2>1, BeginsKeepParents, TasksKeepParents
  <2> QED
    BY <2>2, <2>3, <2>4, <2>5, <2>6 DEF RefsInv
<1>3. CASE OutsideStep
  BY <1>1, <1>3, OutsideKeepsUpper, OutsideKeepsLowerTypes, OutsideKeepsRefs, MountRefsKept,
     OutsideKeepsParents, InodeRefsKept DEF RefsInv
<1>4. CASE UNCHANGED vars
  <2> USE <1>4 DEF vars, lowerVars, upperVars, inodeVars, lockVars, ghosts, lostVars
  <2>1. UpperInv'
    BY <1>1 DEF UpperInv, StageOf, LocksOf, ArgsOf
  <2>2. LowerTypes' /\ InodeRefs' /\ MountRefs'
    BY <1>1 DEF LowerTypes, InodeRefs, MountRefs
  <2>3. DentryRefs'
    <3>1. \A l \in Lowers : Referrers(l)' = Referrers(l) /\ Holders(l)' = Holders(l)
      BY DEF Referrers, Holders, Holds
    <3> QED
      BY <1>1, <3>1 DEF DentryRefs
  <2>4. ParentRefs'
    BY <1>1, ParentRefsStay
  <2> QED
    BY <1>1, <2>1, <2>2, <2>3, <2>4 DEF RefsInv
<1> QED
  BY <1>1, <1>2, <1>3, <1>4 DEF Next, OutsideStep

LEMMA AccountAlways == Spec => []AccountInv
BY AccountInit, AccountNext, PTL DEF Spec

\* Every reference base0fs takes on a lower dentry, a lower parent, the lower
\* mount and a lower inode has an owner that will put it, or is one of those the
\* code is known to lose (src/base0fs/inode.c, dentry.c, main.c, super.c).
THEOREM ReferencesHaveOwners == Spec => []ReferencesAccounted
<1>1. ASSUME AccountInv PROVE ReferencesAccounted
  <2>1. TypeOK
    BY <1>1 DEF AccountInv, NamesInv, Types, IsOp, RefsInv, LowerTypes, DentryRefs, MountRefs,
       ParentRefs, TypeOK
  <2>2. /\ DentryRefs /\ MountRefs /\ ParentRefs /\ InodeRefs
    BY <1>1 DEF AccountInv, RefsInv
  <2> QED
    BY <2>1, <2>2 DEF ReferencesAccounted, DentryRefs, MountRefs, ParentRefs, InodeRefs,
       Referrers, Holders, By, By2
<1> QED
  BY <1>1, AccountAlways, PTL

-----------------------------------------------------------------------------
(* The lower tree.                                                          *)

\* The lower dentry of a positive name is positive, and a crash needs a dentry
\* that lost its name.
PositiveInv ==
    /\ \A u \in Uppers : uat[u] \in Dirs /\ uino[u] # None => ino[priv[u]] # None
    /\ \A t \in Tasks : pc[t] = "set" => ino[priv[op[t].u]] # None
    /\ \A t \in Tasks : pc[t] = "null" => uat[op[t].u] = "dropped"

\* The lower dcache shows the lower directories.
LowerDcache ==
    /\ \A l, k \in Lowers : hashed[l] /\ hashed[k] /\ par[l] = par[k] => l = k
    /\ \A l \in Lowers : hashed[l] => ino[l] = disk[par[l]]

\* A dentry of base0fs is over the lower dentry of the same name; one that lost
\* its name while positive is over one that lost its name too.
Above(u) ==
    /\ uat[u] \in Dirs => hashed[priv[u]] /\ par[priv[u]] = uat[u]
    /\ uat[u] = "dropped" /\ uino[u] # None => ~hashed[priv[u]]

\* A call that has made a file, or found one, and has not told its dentry.
Midway(t, u) == op[t].kind \in Making /\ pc[t] \in {"iget", "set"} /\ op[t].u = u

Agrees(u) ==
    uat[u] \in Dirs =>
        \/ uino[u] = ino[priv[u]]
        \/ /\ uino[u] = None /\ ino[priv[u]] # None
           /\ u \in halfMade \/ \E t \in Tasks : Midway(t, u)

\* A file made by base0fs_create that base0fs_interpose fails for, or may.
HalfMade(u) ==
    \/ u \in halfMade /\ uat[u] \in Dirs
    \/ \E t \in Tasks : op[t].kind = "create" /\ pc[t] = "iget" /\ op[t].u = u

\* Nothing else is that file.
Single(u) ==
    HalfMade(u) =>
        /\ uino[u] = None /\ ino[priv[u]] # None
        /\ \A l \in Lowers : l # priv[u] => ino[l] # ino[priv[u]]
        /\ \A d \in Dirs : d # uat[u] => disk[d] # ino[priv[u]]

LowerOf(t) ==
    /\ pc[t] # "bug"
    /\ op[t].kind \in Naming => op[t].p = uat[op[t].u]
    /\ op[t].kind = "rename" => op[t].p2 = uat[op[t].u2]
    /\ pc[t] \in {"iget", "set"} => ino[priv[op[t].u]] # None
    /\ pc[t] = "set" => ino[priv[op[t].u]] = op[t].i
    /\ op[t].kind = "lookup" /\ pc[t] \in {"iget", "set"} =>
          hashed[priv[op[t].u]] /\ upLock[par[priv[op[t].u]]] = t
    /\ \A u \in Uppers : Midway(t, u) => u \notin halfMade

TreeInv ==
    /\ LowerDcache
    /\ \A u \in Uppers : Above(u) /\ Agrees(u) /\ Single(u)
    /\ \A t \in Tasks : LowerOf(t)
    /\ \A u \in halfMade : u \in Uppers /\ uat[u] \in Linked /\ uino[u] = None

TreesInv == outside = 0 => TreeInv

-----------------------------------------------------------------------------
(* Positive dentries stay positive below.                                   *)

\* How a call begins: no dentry has moved, and the parents are those below them.
LEMMA BeginCall ==
  ASSUME Types, NEW t \in Tasks, BeginStep(t)
  PROVE  /\ Alone(t) /\ pc[t] = "idle" /\ pc'[t] \in {"look", "lock", "use"}
         /\ op'[t].u \in Uppers
         /\ op'[t].kind \in Naming => op'[t].p = Parent(op'[t].u)
         /\ op'[t].kind = "rename" => op'[t].p2 = Parent(op'[t].u2)
         /\ \A w \in Uppers : uat'[w] = uat[w] \/ (uat[w] = "none" /\ uat'[w] = "new")
         /\ \A d \in Dirs : upLock[d] \in Tasks => upLock'[d] = upLock[d]
<1> USE DEF upperVars
<1> DEFINE Goal == /\ Alone(t) /\ pc[t] = "idle" /\ pc'[t] \in {"look", "lock", "use"}
                   /\ op'[t].u \in Uppers
                   /\ op'[t].kind \in Naming => op'[t].p = Parent(op'[t].u)
                   /\ op'[t].kind = "rename" => op'[t].p2 = Parent(op'[t].u2)
                   /\ \A w \in Uppers : uat'[w] = uat[w] \/ (uat[w] = "none" /\ uat'[w] = "new")
                   /\ \A d \in Dirs : upLock[d] \in Tasks => upLock'[d] = upLock[d]
<1>0. /\ {} \in SUBSET Dirs /\ None \in Uppers \cup {None}
      /\ {"use", "look", "lock"} \subseteq Pcs
      /\ {"setattr", "lookup", "create", "mkdir", "link", "unlink", "rmdir", "rename"} \subseteq Kinds
  BY DEF Pcs, Kinds
<1>1. ASSUME NEW kind \in Kinds, NEW ds \in SUBSET Dirs, NEW u \in Uppers,
             NEW v \in Uppers \cup {None}, NEW there \in {"look", "lock", "use"},
             At(t, "idle", there), Call(t, kind, ds, u, v),
             \A w \in Uppers : uat'[w] = uat[w] \/ (uat[w] = "none" /\ uat'[w] = "new")
      PROVE  Goal
  <2>1. /\ Alone(t) /\ pc[t] = "idle" /\ pc'[t] = there
        /\ op'[t].kind = kind /\ op'[t].u = u /\ op'[t].u2 = v
        /\ op'[t].p = (IF kind \in OneParent \cup {"rename"} THEN Parent(u) ELSE None)
        /\ op'[t].p2 = (IF kind = "rename" THEN Parent(v) ELSE None)
        /\ \A d \in Dirs : upLock'[d] = IF d \in ds THEN t ELSE upLock[d]
        /\ \A d \in ds : upLock[d] = None
    BY <1>0, <1>1, CallBegins
  <2> QED
    BY <1>1, <2>1, NoneIsNothing DEF Naming
<1>2. ASSUME NEW kind \in Kinds, NEW ds \in SUBSET Dirs, NEW u \in Uppers,
             NEW v \in Uppers \cup {None}, CallOn(t, kind, ds, u, v)
      PROVE  Goal
  <2>1. At(t, "idle", "lock") /\ Call(t, kind, ds, u, v) /\ uat' = uat
    BY <1>2 DEF CallOn
  <2> QED
    BY <1>1, <2>1
<1>3. ASSUME NEW u \in Uppers, Hold(t, u)
      PROVE  Goal
  <2>1. At(t, "idle", "use") /\ Call(t, "setattr", {}, u, None) /\ uat' = uat
    BY <1>3 DEF Hold
  <2> QED
    BY <1>0, <1>1, <2>1
<1>4. ASSUME NEW u \in Uppers, NEW d \in Dirs, StartLookup(t, d, u)
      PROVE  Goal
  <2>1. At(t, "idle", "look") /\ Call(t, "lookup", {d}, u, None)
    BY <1>4 DEF StartLookup
  <2>2. \A w \in Uppers : uat'[w] = uat[w] \/ (uat[w] = "none" /\ uat'[w] = "new")
    BY <1>4 DEF StartLookup, Types
  <2> QED
    BY <1>0, <1>1, <2>1, <2>2
<1>5. ASSUME NEW u \in Uppers, NEW d \in Dirs, StartMake(t, d, u) \/ StartRemove(t, d, u)
      PROVE  Goal
  <2>1. PICK kind \in {"create", "mkdir", "rmdir", "unlink"} : CallOn(t, kind, {d}, u, None)
    BY <1>5 DEF StartMake, StartRemove
  <2> QED
    BY <1>0, <1>2, <2>1
<1>6. ASSUME NEW u \in Uppers, NEW d \in Dirs, NEW v \in Uppers, StartLink(t, d, u, v)
      PROVE  Goal
  <2>1. CallOn(t, "link", {d}, u, v) /\ {d} \in SUBSET Dirs
    BY <1>6 DEF StartLink
  <2> QED
    BY <1>0, <1>2, <2>1
<1>7. ASSUME NEW u \in Uppers, NEW d \in Dirs, NEW v \in Uppers, NEW e \in Dirs,
             StartRename(t, d, e, u, v)
      PROVE  Goal
  <2>1. CallOn(t, "rename", {d, e}, u, v) /\ {d, e} \in SUBSET Dirs
    BY <1>7 DEF StartRename
  <2> QED
    BY <1>0, <1>2, <2>1
<1> QED
  BY <1>3, <1>4, <1>5, <1>6, <1>7 DEF BeginStep

\* A lower dentry that is referred to keeps its inode, but for that of a victim.
LosesNone(us) ==
    \A w \in Uppers \ us : priv[w] # None /\ ino[priv[w]] # None => ino'[priv[w]] # None

\* The lower dentry of a victim has one reference, and no other dentry.
LEMMA OneReferrer ==
  ASSUME DentryRefs, NEW u \in Uppers, priv[u] \in Lowers, refs[priv[u]] = 1,
         NEW w \in Uppers, priv[w] = priv[u]
  PROVE  w = u
<1> DEFINE S == Referrers(priv[u])
<1>1. /\ IsFiniteSet(S) /\ Cardinality(S) \in Nat /\ Cardinality(Holders(priv[u])) \in Nat
      /\ Cardinality(S) <= 1
  BY Counts DEF DentryRefs
<1>2. u \in S /\ w \in S
  BY DEF Referrers
<1>3. {u, w} \in SUBSET S
  BY <1>2
<1> HIDE DEF S
<1>4. Cardinality({u, w}) <= 1 /\ IsFiniteSet({u, w}) /\ Cardinality({u, w}) \in Nat
  BY <1>1, <1>3, FS_Subset, FS_CardinalityType
<1>5. Cardinality({u, w}) # 0
  BY <1>4, FS_EmptySet
<1>6. PICK x : {u, w} = {x}
  BY <1>4, <1>5, FS_Singleton
<1> QED
  BY <1>6

LEMMA NoReferrer ==
  ASSUME DentryRefs, NEW l \in Lowers, refs[l] = 0, NEW w \in Uppers
  PROVE  priv[w] # l
<1>1. /\ IsFiniteSet(Referrers(l)) /\ Cardinality(Referrers(l)) \in Nat
      /\ Cardinality(Holders(l)) \in Nat /\ refs[l] = Cardinality(Referrers(l)) + Cardinality(Holders(l))
  BY Counts DEF DentryRefs
<1>2. Cardinality(Referrers(l)) = 0
  BY <1>1
<1>3. Referrers(l) = {}
  BY <1>1, <1>2, FS_EmptySet
<1> QED
  BY <1>3 DEF Referrers

LEMMA ShrinkLosesNone ==
  ASSUME Types, NEW us, Shrink(us)
  PROVE  LosesNone(us)
BY DEF Shrink, LosesNone, Types

\* What a step that goes on or ends does to positive dentries.
LEMMA TasksKeepPositive ==
  ASSUME Types, DentryInv, UpperInv, DentryRefs, PositiveInv, NEW t \in Tasks,
         ATaskStep(t), ~Crashed
  PROVE  PositiveInv'
<1> USE DEF upperVars, lowerVars, lockVars, inodeVars
<1> DEFINE u == op[t].u
<1>0. /\ \A s \in Tasks : pc[s] # "null"
      /\ \A s \in Tasks : pc[s] = "set" => /\ op[s].u \in Uppers /\ priv[op[s].u] \in Lowers
                                           /\ ino[priv[op[s].u]] # None
      /\ \A w \in Uppers : uat[w] \in Dirs => priv[w] # None
  BY CallDentries DEF Crashed, PositiveInv, DentryInv, DentryOf
<1>1. ASSUME NEW us \in SUBSET Uppers, LosesNone(us), Alone(t),
             \A w \in us : uat'[w] \notin Dirs,
             \A s \in Tasks \ {t} : pc[s] = "set" => op[s].u \notin us,
             \A w \in Uppers : uat'[w] \in Dirs /\ uino'[w] # None =>
                 \/ uat[w] \in Dirs /\ uino[w] # None
                 \/ pc[t] = "set" /\ w = op[t].u /\ op[t].u \notin us,
             \A w \in Uppers : priv[w] # None /\ uat'[w] \in Dirs => priv'[w] = priv[w],
             \A s \in Tasks \ {t} : pc[s] = "set" => priv'[op[s].u] = priv[op[s].u],
             pc'[t] \notin {"set", "null"}
      PROVE  PositiveInv'
  <2>1. \A w \in Uppers : uat'[w] \in Dirs /\ uino'[w] # None => ino'[priv'[w]] # None
    <3> SUFFICES ASSUME NEW w \in Uppers, uat'[w] \in Dirs, uino'[w] # None
                 PROVE  ino'[priv'[w]] # None
      OBVIOUS
    <3>1. CASE uat[w] \in Dirs /\ uino[w] # None
      BY <1>0, <1>1, <3>1 DEF PositiveInv, LosesNone
    <3>2. CASE pc[t] = "set" /\ w = op[t].u /\ op[t].u \notin us
      BY <1>0, <1>1, <3>2, NoneIsNothing DEF LosesNone
    <3> QED
      BY <1>1, <3>1, <3>2
  <2>2. \A s \in Tasks : pc'[s] = "set" => ino'[priv'[op'[s].u]] # None
    <3> SUFFICES ASSUME NEW s \in Tasks \ {t}, pc[s] = "set"
                 PROVE  ino'[priv'[op[s].u]] # None
      BY <1>1 DEF Alone
    <3> QED
      BY <1>0, <1>1, NoneIsNothing DEF LosesNone
  <2>3. \A s \in Tasks : pc'[s] # "null"
    BY <1>0, <1>1 DEF Alone
  <2> QED
    BY <2>1, <2>2, <2>3 DEF PositiveInv
<1>1a. ASSUME UNCHANGED <<ino, priv>>, Alone(t), pc'[t] \notin {"set", "null"},
              \A w \in Uppers : uat'[w] \in Dirs /\ uino'[w] # None =>
                 \/ uat[w] \in Dirs /\ uino[w] # None
                 \/ pc[t] = "set" /\ w = op[t].u
       PROVE  PositiveInv'
  <2>1. {} \in SUBSET Uppers /\ LosesNone({})
    BY <1>1a DEF LosesNone
  <2> QED
    BY <1>1, <1>1a, <2>1
<1>2. CASE BeginStep(t)
  <2>1. /\ UNCHANGED <<ino, priv, uino>>
        /\ \A w \in Uppers : uat'[w] \in Dirs => uat[w] = uat'[w]
    BY <1>2, BeginsQuietly, BeginCall, NoneIsNothing
  <2> QED
    BY <1>1a, <1>2, <2>1, BeginCall
<1>3. CASE \E d \in Dirs, l \in Lowers : Look(t, d, l)
  <2>1. PICK d \in Dirs, l \in Lowers : Look(t, d, l)
    BY <1>3
  <2>2. /\ u \in Uppers /\ priv[u] = None /\ priv' = [priv EXCEPT ![u] = l] /\ uino[u] = None
        /\ op[t].kind = "lookup" /\ uino' = uino /\ LowerLookup(d, l) /\ pc[t] = "look"
    BY <2>1 DEF Look, DentryInv, CallOf
  <2>3. \A w \in Uppers \ {u} : uat'[w] = uat[w] /\ priv'[w] = priv[w]
    BY <2>1, <2>2 DEF Look, Types
  <2>4. Alone(t) /\ pc'[t] \in {"idle", "iget"}
    <3>1. CASE Return(t)
      BY <3>1, CallEnds
    <3>2. CASE At(t, "look", "iget") /\ op' = op
      BY <3>2 DEF At, Alone, Types
    <3> QED
      BY <2>1, <3>1, <3>2 DEF Look
  <2>5. LosesNone({})
    <3>1. \A w \in Uppers : refs[l] = 0 => priv[w] # l
      BY NoReferrer
    <3> QED
      BY <2>2, <3>1 DEF LowerLookup, LosesNone, Types
  <2>6. \A s \in Tasks \ {t} : pc[s] = "set" => op[s].u # u
    BY <2>2 DEF DentryInv, OwnDentry
  <2> QED
    BY <1>0, <1>1, <2>2, <2>3, <2>4, <2>5, <2>6
<1>4. CASE LookFails(t) \/ LookLosesMount(t)
  <2>1. Return(t) /\ UNCHANGED <<ino, priv, uino>> /\ uat' = [uat EXCEPT ![u] = "none"]
    BY <1>4 DEF LookFails, LookLosesMount
  <2>2. \A w \in Uppers : uat'[w] \in Dirs => uat[w] = uat'[w]
    BY <2>1, NoneIsNothing DEF Types
  <2>3. Alone(t) /\ pc'[t] = "idle"
    BY <2>1, CallEnds
  <2> QED
    BY <1>1a, <2>1, <2>2, <2>3
<1>5. CASE MiddleStep(t) /\ ~Iget(t)
  <2>1. LosesNone({})
    <3>1. CASE Make(t)
      <4>1. PICK i \in FreeInos : Enter(op[t].p, priv[u], i)
        BY <3>1 DEF Make
      <4> QED
        BY <4>1, NoneIsNothing DEF Enter, FreeInos, LosesNone, Types
    <3>2. CASE Link(t)
      BY <3>2 DEF Link, Enter, LosesNone, Types
    <3> QED
      BY <1>5, <3>1, <3>2 DEF MiddleStep, Lock, IgetOfNothing, ActOnMoved, LosesNone
  <2>2. /\ UNCHANGED <<uat, uino, priv>> /\ Alone(t)
    BY <1>5, MiddleCall
  <2>3. pc'[t] \in {"act", "iget", "bug"}
    BY <1>5 DEF MiddleStep, Lock, IgetOfNothing, Make, Link, ActOnMoved, At, Types
  <2> QED
    BY <1>1, <2>1, <2>2, <2>3
<1>6. CASE Iget(t)
  <2>1. /\ UNCHANGED <<uat, uino, priv, ino>> /\ Alone(t) /\ op'[t].u = u /\ pc'[t] # "null"
        /\ ino[priv[u]] # None
    <3>1. UNCHANGED ino /\ pc'[t] = "set" /\ ino[priv[u]] # None
      BY <1>6 DEF Iget, At, Types
    <3> QED
      BY <1>6, <3>1, MiddleCall DEF MiddleStep
  <2> QED
    BY <1>0, <2>1 DEF PositiveInv, Alone
<1>7. CASE LookupFails(t)
  <2>1. /\ Return(t) /\ Shrink({u}) /\ uino' = uino /\ op[t].kind = "lookup"
        /\ uat' = [uat EXCEPT ![u] = "none"] /\ priv' = [priv EXCEPT ![u] = None]
        /\ pc[t] = "iget"
    BY <1>7 DEF LookupFails
  <2>2. u \in Uppers
    BY <2>1 DEF DentryInv, CallOf
  <2>3. /\ uat'[u] = "none" /\ "none" \notin Dirs
        /\ \A w \in Uppers \ {u} : uat'[w] = uat[w] /\ priv'[w] = priv[w]
    BY <2>1, <2>2, NoneIsNothing DEF Types
  <2>4. Alone(t) /\ pc'[t] = "idle"
    BY <2>1, CallEnds
  <2>5. \A s \in Tasks \ {t} : pc[s] = "set" => op[s].u # u
    BY <2>1 DEF DentryInv, OwnDentry
  <2>6. {u} \in SUBSET Uppers /\ LosesNone({u})
    BY <2>1, <2>2, ShrinkLosesNone
  <2> QED
    BY <1>0, <1>1, <2>1, <2>3, <2>4, <2>5, <2>6
<1>8. CASE ActFails(t) \/ InterposeFails(t) \/ (Setattr(t) /\ Return(t))
  <2>1. Return(t) /\ UNCHANGED <<ino, priv, uino>> /\ (uat' = uat \/ uat' = [uat EXCEPT ![u] = "dropped"])
    BY <1>8 DEF ActFails, InterposeFails, Setattr, UnlockDir, Forget, Drop
  <2>2. \A w \in Uppers : uat'[w] \in Dirs => uat[w] = uat'[w]
    BY <2>1, NoneIsNothing DEF Types, Linked
  <2>3. Alone(t) /\ pc'[t] = "idle"
    BY <2>1, CallEnds
  <2> QED
    BY <1>1a, <2>1, <2>2, <2>3
<1>9. CASE Interpose(t)
  <2>1. /\ Return(t) /\ UNCHANGED <<ino, priv>> /\ uino' = [uino EXCEPT ![u] = op[t].i]
        /\ uat' = uat \/ \E x : uat' = [uat EXCEPT ![u] = x]
        /\ pc[t] = "set"
    BY <1>9 DEF Interpose, UnlockDir
  <2>2. \A w \in Uppers \ {u} : uat'[w] = uat[w] /\ uino'[w] = uino[w]
    BY <2>1 DEF Types
  <2>3. Alone(t) /\ pc'[t] = "idle"
    BY <2>1, CallEnds
  <2> QED
    BY <1>1a, <2>1, <2>2, <2>3
<1>10. CASE Remove(t)
  <2>1. /\ Return(t) /\ UNCHANGED <<priv, uino>> /\ uat' = [uat EXCEPT ![u] = "dropped"]
        /\ op[t].kind \in Removing /\ pc[t] = "act"
        /\ ino' = IF refs[priv[u]] = 1 THEN [ino EXCEPT ![priv[u]] = None] ELSE ino
    BY <1>10 DEF Remove, UnlockDir, Drop, Removing
  <2>2. u \in Uppers /\ priv[u] \in Lowers
    BY <2>1, CallDentries
  <2>3. /\ uat'[u] = "dropped" /\ "dropped" \notin Dirs
        /\ \A w \in Uppers \ {u} : uat'[w] = uat[w]
    BY <2>1, <2>2, NoneIsNothing DEF Types
  <2>4. Alone(t) /\ pc'[t] = "idle"
    BY <2>1, CallEnds
  <2>5. \A s \in Tasks \ {t} : pc[s] = "set" => op[s].u # u
    <3>1. upLock[uat[u]] = t /\ StageOf(t)
      BY <2>1 DEF UpperInv, LocksOf, Naming, OneParent, Removing
    <3> SUFFICES ASSUME NEW s \in Tasks \ {t}, pc[s] = "set" PROVE op[s].u # u
      OBVIOUS
    <3>2. op[s].kind \in Making \cup {"lookup"}
      BY DEF UpperInv, StageOf
    <3>3. CASE op[s].kind = "lookup"
      BY <3>3 DEF DentryInv, OwnDentry
    <3>4. CASE op[s].kind \in Making
      <4>1. upLock[uat[op[s].u]] = s
        BY <3>4 DEF UpperInv, LocksOf, Naming, OneParent, Making
      <4> QED
        BY <3>1, <4>1
    <3> QED
      BY <3>2, <3>3, <3>4
  <2>6. LosesNone({u})
    <3>1. \A w \in Uppers \ {u} : refs[priv[u]] = 1 => priv[w] # priv[u]
      BY <2>2, OneReferrer
    <3> QED
      BY <2>1, <2>2, <3>1, NoneIsNothing DEF LosesNone, Types
  <2>7. {u} \in SUBSET Uppers
    BY <2>2
  <2> QED
    BY <1>1, <2>1, <2>3, <2>4, <2>5, <2>6, <2>7
<1>11. CASE Rename(t)
  <2>1. /\ Return(t) /\ UNCHANGED <<priv, uino, ino>>
        /\ uat' = [uat EXCEPT ![u] = uat[op[t].u2], ![op[t].u2] = "dropped"]
        /\ op[t].kind = "rename" /\ pc[t] = "act"
    BY <1>11 DEF Rename, UnlockDir, MoveLower
  <2>2. u \in Uppers /\ op[t].u2 \in Uppers /\ uat[u] \in Dirs
    BY <2>1, CallDentries DEF UpperInv, LocksOf, Naming
  <2>3. \A w \in Uppers : uat'[w] \in Dirs => uat[w] \in Dirs
    BY <2>1, <2>2, NoneIsNothing DEF Types
  <2>4. Alone(t) /\ pc'[t] = "idle"
    BY <2>1, CallEnds
  <2> QED
    BY <1>1a, <2>1, <2>3, <2>4
<1>12. CASE Setattr(t) /\ ~Return(t)
  <2>1. /\ UNCHANGED <<uat, uino, priv, ino, op>> /\ pc[t] = "use" /\ pc' = [pc EXCEPT ![t] = "null"]
        /\ ino[priv[u]] = None
    BY <1>12 DEF Setattr, At
  <2>2. u \in Uppers /\ uino[u] # None /\ uat[u] \in Dirs \cup {"dropped"}
    BY <2>1, CallDentries DEF UpperInv, StageOf, ArgsOf, Linked
  <2>3. uat[u] = "dropped"
    BY <2>1, <2>2 DEF PositiveInv
  <2>4. \A s \in Tasks : /\ pc'[s] = "set" => pc[s] = "set"
                         /\ pc'[s] = "null" => s = t
    BY <1>0, <2>1 DEF Types
  <2> QED
    BY <2>1, <2>3, <2>4 DEF PositiveInv
<1> QED
  BY <1>2, <1>3, <1>4, <1>5, <1>6, <1>7, <1>8, <1>9, <1>10, <1>11, <1>12
     DEF ATaskStep, LookStep, EndStep

LEMMA OutsideKeepsPositive ==
  ASSUME Types, DentryInv, PositiveInv, OutsideStep
  PROVE  PositiveInv'
<1> USE DEF upperVars, lowerVars, lockVars, inodeVars
<1>1. ASSUME NEW u \in Uppers, Release(u)
      PROVE  PositiveInv'
  <2>1. /\ UNCHANGED <<pc, op>> /\ Shrink({u})
        /\ uat' = [uat EXCEPT ![u] = "none"] /\ priv' = [priv EXCEPT ![u] = None]
        /\ uino' = [uino EXCEPT ![u] = None]
        /\ \A t \in Tasks : op[t].u # u
    BY <1>1 DEF Release, Used
  <2>2. /\ uat'[u] = "none" /\ "none" \notin Dirs
        /\ \A w \in Uppers \ {u} : uat'[w] = uat[w] /\ priv'[w] = priv[w] /\ uino'[w] = uino[w]
    BY <2>1, NoneIsNothing DEF Types
  <2>3. LosesNone({u})
    BY <2>1, ShrinkLosesNone
  <2>4. /\ \A w \in Uppers : uat[w] \in Dirs => priv[w] # None
        /\ \A t \in Tasks : pc[t] \in {"set", "null"} => op[t].u \in Uppers /\ priv[op[t].u] # None
    BY DEF DentryInv, DentryOf, CallOf
  <2> QED
    BY <2>1, <2>2, <2>3, <2>4 DEF PositiveInv, LosesNone
<1>2. CASE UNCHANGED <<pc, op, ino, priv, uino, uat>>
  BY <1>2 DEF PositiveInv
<1> QED
  BY <1>1, <1>2 DEF OutsideStep, ClearInode, OutsideRename, OutsideUnlink

-----------------------------------------------------------------------------
(* The lower tree is kept, as long as nobody changes it from outside.        *)

Grounds == Types /\ DentryInv /\ UpperInv /\ LowerTypes /\ TreeInv

\* A name is over a lower dentry of its own.
LEMMA OwnPlace ==
  ASSUME Grounds, NEW u \in Uppers, NEW w \in Uppers,
         uat[u] \in Dirs, uat[w] \in Dirs, priv[u] = priv[w]
  PROVE  u = w
BY DEF Grounds, TreeInv, Above, UpperInv

LEMMA NamePlace ==
  ASSUME Grounds, NEW u \in Uppers, uat[u] \in Dirs
  PROVE  /\ priv[u] \in Lowers /\ hashed[priv[u]] /\ par[priv[u]] = uat[u]
         /\ ino[priv[u]] = disk[uat[u]]
BY DEF Grounds, TreeInv, Above, LowerDcache, Types, DentryInv, DentryOf

\* So is a call that has found or made a file.
LEMMA CallPlace ==
  ASSUME Grounds, NEW s \in Tasks, pc[s] \in {"iget", "set"}
  PROVE  /\ op[s].u \in Uppers /\ priv[op[s].u] \in Lowers /\ par[priv[op[s].u]] \in Dirs
         /\ hashed[priv[op[s].u]] /\ upLock[par[priv[op[s].u]]] = s /\ ino[priv[op[s].u]] # None
<1> DEFINE u == op[s].u
<1>1. u \in Uppers /\ priv[u] \in Lowers /\ StageOf(s) /\ LocksOf(s) /\ LowerOf(s)
  BY DEF Grounds, Types, DentryInv, CallOf, UpperInv, TreeInv
<1>2. CASE op[s].kind = "lookup"
  BY <1>1, <1>2 DEF LowerOf, Grounds, LowerTypes
<1>3. CASE op[s].kind \in Making
  <2>1. uat[u] \in Dirs /\ upLock[uat[u]] = s
    BY <1>1, <1>3 DEF LocksOf, Naming, OneParent, Making
  <2> QED
    BY <1>1, <2>1, NamePlace DEF LowerOf
<1> QED
  BY <1>1, <1>2, <1>3 DEF StageOf

\* Two calls on names are on different ones.
LEMMA CallsApart ==
  ASSUME UpperInv, NEW s \in Tasks, NEW t \in Tasks, s # t,
         op[s].kind \in Naming, op[t].kind \in Naming
  PROVE  /\ op[s].u # op[t].u
         /\ op[t].kind = "rename" => op[s].u # op[t].u2
BY DEF UpperInv, LocksOf

\* The calls of the others keep their places.
OthersHold(t) ==
    /\ \A d \in Dirs : upLock[d] \in Tasks \ {t} => upLock'[d] = upLock[d]
    /\ \A w \in Uppers :
          uat'[w] \in Dirs /\ upLock'[uat'[w]] \in Tasks \ {t} => uat[w] = uat'[w]
    /\ \A w \in Uppers :
          /\ priv[w] \in Lowers /\ hashed[priv[w]] /\ ino[priv[w]] # None
          /\ upLock[par[priv[w]]] \in Tasks \ {t}
          => /\ priv'[w] = priv[w] /\ hashed'[priv[w]]
             /\ par'[priv[w]] = par[priv[w]] /\ ino'[priv[w]] = ino[priv[w]]

LEMMA OthersLower ==
  ASSUME Grounds, UpperInv', NEW t \in Tasks, Alone(t), OthersHold(t), NEW s \in Tasks \ {t},
         \A w \in halfMade' : w \in halfMade \/ w = op[t].u,
         halfMade' \subseteq halfMade \/ op[t].kind \in Naming
  PROVE  LowerOf(s)'
<1> DEFINE u == op[s].u
<1>1. /\ pc'[s] = pc[s] /\ op'[s] = op[s] /\ LowerOf(s) /\ StageOf(s) /\ LocksOf(s)'
      /\ op[s].u \in Uppers \cup {None} /\ op[s].u2 \in Uppers \cup {None}
  BY DEF Alone, Grounds, TreeInv, UpperInv, Types, IsOp
<1>2. op[s].kind # "none" => u \in Uppers
  BY <1>1, NoOpIsOp DEF Grounds, DentryInv, CallOf
<1>3. op[s].kind \in {"link", "rename"} => op[s].u2 \in Uppers
  BY <1>1 DEF Grounds, DentryInv, CallOf
<1>4. op[s].kind \in Naming => uat'[u] = uat[u]
  BY <1>1, <1>2 DEF LocksOf, OthersHold, Naming, OneParent
<1>5. op[s].kind = "rename" => uat'[op[s].u2] = uat[op[s].u2]
  BY <1>1, <1>3 DEF LocksOf, OthersHold
<1>6. pc[s] \in {"iget", "set"} =>
          /\ priv'[u] = priv[u] /\ hashed'[priv[u]] /\ upLock'[par'[priv[u]]] = s
          /\ ino'[priv[u]] = ino[priv[u]] /\ ino[priv[u]] # None
  BY CallPlace DEF OthersHold
<1>7. \A w \in Uppers : Midway(s, w) => w \notin halfMade'
  <2> SUFFICES ASSUME NEW w \in Uppers, Midway(s, w), w \in halfMade' PROVE FALSE
    OBVIOUS
  <2>1. w \notin halfMade /\ op[s].kind \in Naming /\ w = op[s].u
    BY <1>1 DEF LowerOf, Midway, Making, Naming, OneParent
  <2> QED
    BY <2>1, CallsApart DEF Grounds
<1> QED
  BY <1>1, <1>4, <1>5, <1>6, <1>7 DEF LowerOf, Midway

\* A step that leaves the lower tree and the inodes of the dentries alone.
LEMMA TreeStays ==
  ASSUME Grounds, UpperInv', NEW t \in Tasks, Alone(t),
         UNCHANGED <<disk, par, hashed, ino, priv, uino>>,
         \A d \in Dirs : upLock[d] \in Tasks \ {t} => upLock'[d] = upLock[d],
         \A w \in Uppers : /\ uat'[w] \in Dirs => uat[w] = uat'[w]
                           /\ uat[w] \in Linked => uat'[w] \in Linked
                           /\ uat'[w] = "dropped" /\ uino[w] # None => uat[w] = "dropped",
         \A w \in halfMade' :
             w \in halfMade \/ (w = op[t].u /\ op[t].kind = "create" /\ pc[t] = "iget"),
         halfMade \subseteq halfMade',
         \A w \in Uppers : Midway(t, w) /\ uat'[w] \in Dirs => w \in halfMade' \/ Midway(t, w)',
         pc'[t] # "iget", LowerOf(t)'
  PROVE  TreeInv'
<1>1. LowerDcache'
  BY DEF Grounds, TreeInv, LowerDcache
<1>2. \A w \in Uppers : Above(w)'
  BY DEF Grounds, TreeInv, Above
<1>3. \A w \in Uppers : Agrees(w)'
  BY DEF Grounds, TreeInv, Agrees, Midway, Alone
<1>4. ASSUME NEW w \in Uppers, HalfMade(w)'
      PROVE  HalfMade(w) /\ uat'[w] = uat[w]
  <2>1. CASE w \in halfMade' /\ uat'[w] \in Dirs
    BY <2>1 DEF HalfMade
  <2>2. CASE \E s \in Tasks : op'[s].kind = "create" /\ pc'[s] = "iget" /\ op'[s].u = w
    <3>1. PICK s \in Tasks \ {t} : op'[s].kind = "create" /\ pc'[s] = "iget" /\ op'[s].u = w
      BY <2>2
    <3>2. uat'[w] \in Dirs
      BY <3>1 DEF UpperInv, LocksOf, Naming, OneParent
    <3> QED
      BY <3>1, <3>2 DEF HalfMade, Alone
  <2> QED
    BY <1>4, <2>1, <2>2 DEF HalfMade
<1>5. \A w \in Uppers : Single(w)'
  BY <1>4 DEF Grounds, TreeInv, Single
<1>6. OthersHold(t)
  BY DEF OthersHold
<1>7. \A s \in Tasks \ {t} : LowerOf(s)'
  BY <1>6, OthersLower DEF Naming, OneParent
<1>8. ASSUME NEW w \in halfMade'
      PROVE  w \in Uppers /\ uat'[w] \in Linked /\ uino'[w] = None
  <2>1. CASE w \in halfMade
    BY <2>1 DEF Grounds, TreeInv
  <2>2. CASE w = op[t].u /\ op[t].kind = "create" /\ pc[t] = "iget"
    <3>1. w \in Uppers /\ uat[w] \in Dirs /\ uino[w] = None
      BY <2>2 DEF Grounds, Types, IsOp, DentryInv, CallOf, UpperInv, LocksOf, ArgsOf, Naming,
         OneParent, Making
    <3> QED
      BY <3>1 DEF Linked
  <2> QED
    BY <2>1, <2>2
<1> QED
  BY <1>1, <1>2, <1>3, <1>5, <1>7, <1>8 DEF TreeInv

LEMMA BeginsKeepTree ==
  ASSUME Grounds, Types', DentryInv', UpperInv', NEW t \in Tasks, BeginStep(t)
  PROVE  TreeInv'
<1>1. /\ Alone(t) /\ pc[t] = "idle" /\ pc'[t] \in {"look", "lock", "use"} /\ op'[t].u \in Uppers
      /\ op'[t].kind \in Naming => op'[t].p = Parent(op'[t].u)
      /\ op'[t].kind = "rename" => op'[t].p2 = Parent(op'[t].u2)
      /\ \A w \in Uppers : uat'[w] = uat[w] \/ (uat[w] = "none" /\ uat'[w] = "new")
      /\ \A d \in Dirs : upLock[d] \in Tasks => upLock'[d] = upLock[d]
  BY BeginCall DEF Grounds
<1>2. UNCHANGED <<disk, par, hashed, ino, priv, uino, halfMade>>
  BY BeginsQuietly
<1>3. "new" \notin Linked /\ "none" \notin Linked
  BY NoneIsNothing DEF Linked
<1>4. LowerOf(t)'
  <2>1. op'[t].kind \in Naming => op'[t].p = uat'[op'[t].u]
    <3> SUFFICES ASSUME op'[t].kind \in Naming PROVE Parent(op'[t].u) = uat'[op'[t].u]
      BY <1>1
    <3>1. uat'[op'[t].u] \in Dirs
      BY DEF UpperInv, LocksOf
    <3> QED
      BY <1>1, <1>3, <3>1, NamePlace DEF Parent, Linked
  <2>2. op'[t].kind = "rename" => op'[t].p2 = uat'[op'[t].u2]
    <3> SUFFICES ASSUME op'[t].kind = "rename" PROVE Parent(op'[t].u2) = uat'[op'[t].u2]
      BY <1>1
    <3>1. uat'[op'[t].u2] \in Dirs /\ op'[t].u2 \in Uppers
      BY DEF UpperInv, LocksOf, DentryInv, CallOf, Types, IsOp
    <3> QED
      BY <1>1, <1>3, <3>1, NamePlace DEF Parent, Linked
  <2> QED
    BY <1>1, <2>1, <2>2 DEF LowerOf, Midway
<1>5. /\ \A w \in Uppers : ~Midway(t, w)
      /\ \A w \in Uppers : /\ uat'[w] \in Dirs => uat[w] = uat'[w]
                           /\ uat[w] \in Linked => uat'[w] \in Linked
                           /\ uat'[w] = "dropped" /\ uino[w] # None => uat[w] = "dropped"
  BY <1>1, <1>3 DEF Midway, Linked
<1> QED
  BY <1>1, <1>2, <1>4, <1>5, TreeStays

\* Calls that go on, or fail, without a change of the lower tree.
LEMMA QuietsKeepTree ==
  ASSUME Grounds, UpperInv', NEW t \in Tasks,
         LookFails(t) \/ LookLosesMount(t) \/ Lock(t) \/ Iget(t) \/ ActFails(t) \/ InterposeFails(t)
         \/ Setattr(t)
  PROVE  TreeInv'
<1> USE DEF upperVars, lowerVars, lockVars, inodeVars, ghosts, lostVars
<1> DEFINE u == op[t].u
<1>0. /\ "new" \notin Linked /\ "none" \notin Linked /\ "dropped" \notin Dirs
      /\ StageOf(t) /\ LocksOf(t) /\ ArgsOf(t) /\ CallOf(t) /\ LowerOf(t) /\ Types /\ DentryInv
  BY NoneIsNothing DEF Linked, Grounds, UpperInv, DentryInv, TreeInv
<1>1. ASSUME Return(t), UNCHANGED <<disk, par, hashed, ino, priv, uino>>,
             \A w \in Uppers \ {u} : uat'[w] = uat[w],
             \/ uat'[u] = uat[u]
             \/ uat[u] = "new" /\ uat'[u] = "none"
             \/ uat[u] \in Linked /\ uat'[u] = "dropped" /\ uino[u] = None,
             \A w \in halfMade' :
                w \in halfMade \/ (w = op[t].u /\ op[t].kind = "create" /\ pc[t] = "iget"),
             halfMade \subseteq halfMade',
             \A w \in Uppers : Midway(t, w) /\ uat'[w] \in Dirs => w \in halfMade'
      PROVE  TreeInv'
  <2>1. /\ Alone(t) /\ pc'[t] = "idle" /\ op'[t] = NoOp
        /\ \A d \in Dirs : upLock'[d] = IF upLock[d] = t THEN None ELSE upLock[d]
    BY <1>0, <1>1, CallEnds
  <2>2. LowerOf(t)'
    BY <2>1, NoOpIsOp DEF LowerOf, Midway, Naming, OneParent
  <2>3. \A w \in Uppers : /\ uat'[w] \in Dirs => uat[w] = uat'[w]
                          /\ uat[w] \in Linked => uat'[w] \in Linked
                          /\ uat'[w] = "dropped" /\ uino[w] # None => uat[w] = "dropped"
    BY <1>0, <1>1 DEF Linked
  <2> QED
    BY <1>1, <2>1, <2>2, <2>3, TreeStays
<1>2. CASE LookFails(t) \/ LookLosesMount(t)
  <2>1. /\ pc[t] = "look" /\ Return(t) /\ UNCHANGED <<disk, par, hashed, ino, priv, uino, halfMade>>
        /\ uat' = [uat EXCEPT ![u] = "none"]
    BY <1>2 DEF LookFails, LookLosesMount
  <2>2. u \in Uppers /\ uat[u] = "new" /\ \A w \in Uppers : ~Midway(t, w)
    BY <1>0, <2>1 DEF CallOf, Midway
  <2>3. uat'[u] = "none" /\ \A w \in Uppers \ {u} : uat'[w] = uat[w]
    BY <1>0, <2>1, <2>2 DEF Types
  <2> QED
    BY <1>1, <2>1, <2>2, <2>3
<1>3. CASE ActFails(t) \/ InterposeFails(t)
  <2>1. /\ Return(t) /\ UNCHANGED <<disk, par, hashed, ino, priv, uino>> /\ Forget(t)
        /\ op[t].kind \in Naming
        /\ \/ pc[t] = "act" /\ halfMade' = halfMade
           \/ /\ pc[t] = "iget" /\ op[t].kind \in Making
              /\ halfMade' = IF op[t].kind = "create" THEN halfMade \cup {u} ELSE halfMade
    <3>1. CASE ActFails(t)
      BY <1>0, <3>1 DEF ActFails, UnlockDir, StageOf
    <3>2. CASE InterposeFails(t)
      <4>1. pc[t] = "iget" /\ op[t].kind \in Making
        BY <1>0, <3>2 DEF InterposeFails, StageOf
      <4> QED
        BY <3>2, <4>1 DEF InterposeFails, UnlockDir, Naming, OneParent, Making
    <3> QED
      BY <1>3, <3>1, <3>2
  <2>2. u \in Uppers /\ uat[u] \in Dirs /\ (op[t].kind \in Making => uino[u] = None)
    BY <1>0, <2>1 DEF CallOf, LocksOf, ArgsOf
  <2>3. /\ \A w \in Uppers \ {u} : uat'[w] = uat[w]
        /\ uat'[u] = IF op[t].kind \in {"mkdir", "link"} THEN "dropped" ELSE uat[u]
    BY <1>0, <2>1, <2>2 DEF Types, Forget, Drop
  <2>4. \A w \in Uppers : Midway(t, w) /\ uat'[w] \in Dirs => w \in halfMade'
    BY <1>0, <2>1, <2>3 DEF Midway, Making
  <2> QED
    BY <1>1, <2>1, <2>2, <2>3, <2>4 DEF Linked, Making
<1>4. CASE Setattr(t) /\ Return(t)
  <2>1. pc[t] = "use" /\ UNCHANGED <<disk, par, hashed, ino, priv, uino, uat, halfMade>>
    BY <1>4 DEF Setattr
  <2> QED
    BY <1>1, <1>4, <2>1 DEF Midway
<1>5. CASE Lock(t) \/ Iget(t) \/ (Setattr(t) /\ ~Return(t))
  <2>1. /\ UNCHANGED <<disk, par, hashed, ino, priv, uino, uat, halfMade, upLock>>
        /\ Alone(t) /\ op'[t].kind = op[t].kind /\ op'[t].u = op[t].u /\ op'[t].u2 = op[t].u2
        /\ op'[t].p = op[t].p /\ op'[t].p2 = op[t].p2
        /\ \/ pc[t] \in {"lock", "use"} /\ pc'[t] \in {"act", "null"}
           \/ pc[t] = "iget" /\ pc'[t] = "set" /\ op'[t].i = ino[priv[u]]
    <3>1. CASE Lock(t)
      <4>1. MiddleStep(t)
        BY <3>1 DEF MiddleStep
      <4> QED
        BY <1>0, <3>1, <4>1, MiddleCall DEF Lock, At, Types
    <3>2. CASE Iget(t)
      <4>1. MiddleStep(t)
        BY <3>2 DEF MiddleStep
      <4>2. op'[t].i = ino[priv[u]] /\ pc'[t] = "set"
        BY <1>0, <3>2 DEF Iget, At, Types, IsOp
      <4> QED
        BY <1>0, <3>2, <4>1, <4>2, MiddleCall DEF Iget, At
    <3>3. CASE Setattr(t) /\ ~Return(t)
      BY <1>0, <3>3 DEF Setattr, At, Alone, Types
    <3> QED
      BY <1>5, <3>1, <3>2, <3>3
  <2>2. LowerOf(t)'
    BY <1>0, <2>1 DEF LowerOf, Midway
  <2>3. \A w \in Uppers : Midway(t, w) => Midway(t, w)'
    BY <2>1 DEF Midway
  <2> QED
    BY <2>1, <2>2, <2>3, TreeStays
<1> QED
  BY <1>2, <1>3, <1>4, <1>5

\* Nothing is at hand that must not be.
LEMMA NoBugBelow ==
  ASSUME Grounds, NEW t \in Tasks
  PROVE  ~IgetOfNothing(t) /\ ~ActOnMoved(t)
<1>1. ~IgetOfNothing(t)
  BY CallPlace DEF IgetOfNothing, At
<1>2. ASSUME ActOnMoved(t) PROVE FALSE
  <2> DEFINE u == op[t].u
  <2>1. /\ op[t].kind \in Removing \cup {"rename"} /\ NotInPlace(t) /\ pc[t] = "act"
        /\ op[t].kind \in Naming
    BY <1>2 DEF ActOnMoved, At, NotInPlace, Removing, Naming, OneParent
  <2>2. u \in Uppers /\ uat[u] \in Dirs /\ op[t].p = uat[u]
    BY <2>1 DEF Grounds, DentryInv, CallOf, UpperInv, LocksOf, TreeInv, LowerOf
  <2>3. Parent(u) = uat[u]
    BY <2>2, NamePlace DEF Parent
  <2>4. op[t].kind = "rename" => Parent(op[t].u2) = op[t].p2
    <3>1. op[t].kind = "rename" =>
            op[t].u2 \in Uppers /\ uat[op[t].u2] \in Dirs /\ op[t].p2 = uat[op[t].u2]
      BY DEF Grounds, Types, IsOp, DentryInv, CallOf, UpperInv, LocksOf, TreeInv, LowerOf
    <3> QED
      BY <3>1, NamePlace DEF Parent
  <2> QED
    BY <2>1, <2>2, <2>3, <2>4 DEF NotInPlace
<1> QED
  BY <1>1, <1>2

\* A lookup finds the lower dentry of the name, or makes one of what is on disk.
LEMMA LookKeepsTree ==
  ASSUME Grounds, DentryRefs, UpperInv', NEW t \in Tasks, NEW d \in Dirs, NEW l \in Lowers,
         Look(t, d, l)
  PROVE  TreeInv'
<1> USE DEF upperVars, lowerVars, lockVars, ghosts, lostVars
<1> DEFINE u == op[t].u
<1>0. /\ "new" \notin Linked /\ "none" \notin Linked /\ None \notin Tasks
      /\ Types /\ DentryInv /\ UpperInv /\ LowerTypes /\ TreeInv
  BY NoneIsNothing DEF Linked, Grounds
<1>1. /\ pc[t] = "look" /\ op[t].kind = "lookup" /\ u \in Uppers /\ uat[u] = "new"
      /\ upLock[d] = t /\ uino[u] = None /\ \A w \in Uppers : uat[w] # d
      /\ \A w \in Uppers : ~Midway(t, w)
  BY <1>0 DEF Look, DentryInv, CallOf, UpperInv, LocksOf, Midway
<1>2. /\ priv' = [priv EXCEPT ![u] = l] /\ uino' = uino /\ halfMade' = halfMade /\ disk' = disk
      /\ LowerLookup(d, l)
  BY DEF Look, LowerLookup
<1>3. priv'[u] = l /\ \A w \in Uppers \ {u} : priv'[w] = priv[w]
  BY <1>0, <1>1, <1>2 DEF Types
<1>4. /\ hashed'[l] /\ par'[l] = d /\ ino'[l] = disk[d]
      /\ \A k \in Lowers \ {l} : hashed'[k] = hashed[k] /\ par'[k] = par[k] /\ ino'[k] = ino[k]
      /\ \A k \in Lowers \ {l} : hashed[k] => par[k] # d
  BY <1>0, <1>2 DEF LowerLookup, LowerTypes, Types, TreeInv, LowerDcache
<1>5. \A w \in Uppers : priv[w] = l =>
         hashed'[l] = hashed[l] /\ par'[l] = par[l] /\ ino'[l] = ino[l]
  BY <1>2, NoReferrer DEF LowerLookup
<1>6. \A w \in Uppers : priv[w] \in Lowers =>
         /\ hashed'[priv[w]] = hashed[priv[w]] /\ par'[priv[w]] = par[priv[w]]
         /\ ino'[priv[w]] = ino[priv[w]]
  BY <1>4, <1>5
<1>7. /\ Alone(t) /\ \A e \in Dirs : upLock'[e] = upLock[e] \/ (upLock[e] = t /\ upLock'[e] = None)
      /\ \A w \in Uppers \ {u} : uat'[w] = uat[w]
      /\ \/ /\ ino'[l] = None /\ uat'[u] = d /\ pc'[t] = "idle" /\ op'[t] = NoOp
         \/ /\ ino'[l] # None /\ uat'[u] = "new" /\ pc'[t] = "iget" /\ op'[t] = op[t]
            /\ upLock'[d] = t
  <2>1. CASE ino'[l] = None
    <3>1. Return(t) /\ uat' = [uat EXCEPT ![u] = d]
      BY <2>1 DEF Look
    <3> QED
      BY <1>0, <1>1, <2>1, <3>1, CallEnds DEF Types
  <2>2. CASE ino'[l] # None
    <3>1. At(t, "look", "iget") /\ UNCHANGED <<uat, upLock, op>>
      BY <2>2 DEF Look
    <3> QED
      BY <1>0, <1>1, <2>2, <3>1 DEF At, Alone, Types
  <2> QED
    BY <2>1, <2>2
<1>8. LowerDcache'
  BY <1>0, <1>2, <1>4 DEF TreeInv, LowerDcache
<1>9. ASSUME NEW w \in Uppers \ {u}
      PROVE  /\ uat'[w] = uat[w] /\ priv'[w] = priv[w] /\ uino'[w] = uino[w]
             /\ uat[w] \in Dirs \cup {"dropped"} => priv[w] \in Lowers
  BY <1>0, <1>2, <1>3, <1>7 DEF DentryInv, DentryOf, Types
<1>10. \A w \in Uppers : Above(w)'
  <2>1. \A w \in {u} : Above(w)'
    BY <1>3, <1>4, <1>7, NoneIsNothing DEF Above
  <2>2. \A w \in Uppers \ {u} : Above(w)'
    BY <1>0, <1>6, <1>9 DEF Above, TreeInv
  <2> QED
    BY <2>1, <2>2
<1>11. \A w \in Uppers : Agrees(w)'
  <2>1. \A w \in {u} : Agrees(w)'
    BY <1>0, <1>1, <1>2, <1>3, <1>7 DEF Agrees, Linked
  <2>2. ASSUME NEW w \in Uppers \ {u} PROVE Agrees(w)'
    <3>1. \A s \in Tasks : Midway(s, w) => Midway(s, w)'
      BY <1>1, <1>7 DEF Midway, Alone
    <3> QED
      BY <1>0, <1>2, <1>6, <1>9, <3>1 DEF Agrees, TreeInv
  <2> QED
    BY <2>1, <2>2
<1>12. ASSUME NEW w \in Uppers, HalfMade(w)'
       PROVE  w # u /\ HalfMade(w) /\ uat[w] \in Dirs
  <2>1. CASE w \in halfMade' /\ uat'[w] \in Dirs
    <3>1. w # u
      BY <1>0, <1>1, <1>2, <2>1 DEF TreeInv
    <3> QED
      BY <1>2, <1>9, <2>1, <3>1 DEF HalfMade
  <2>2. CASE \E s \in Tasks : op'[s].kind = "create" /\ pc'[s] = "iget" /\ op'[s].u = w
    <3>1. PICK s \in Tasks : op'[s].kind = "create" /\ pc'[s] = "iget" /\ op'[s].u = w
      BY <2>2
    <3>2. s # t /\ op'[s] = op[s] /\ pc'[s] = pc[s]
      BY <1>1, <1>7, <3>1 DEF Alone
    <3>3. uat[w] \in Dirs
      BY <1>0, <3>1, <3>2 DEF UpperInv, LocksOf, Naming, OneParent
    <3> QED
      BY <1>0, <1>1, <3>1, <3>2, <3>3 DEF HalfMade, Linked
  <2> QED
    BY <1>12, <2>1, <2>2 DEF HalfMade
<1>13. ASSUME NEW w \in Uppers PROVE Single(w)'
  <2> SUFFICES ASSUME HalfMade(w)' PROVE Single(w)'
    BY DEF Single
  <2>1. /\ w # u /\ uat[w] \in Dirs /\ uat[w] # d /\ uino[w] = None /\ ino[priv[w]] # None
        /\ \A k \in Lowers : k # priv[w] => ino[k] # ino[priv[w]]
        /\ \A e \in Dirs : e # uat[w] => disk[e] # ino[priv[w]]
    BY <1>0, <1>1, <1>12 DEF TreeInv, Single
  <2>2. priv[w] \in Lowers /\ ino'[priv[w]] = ino[priv[w]]
    BY <1>6, <1>9, <2>1
  <2>3. \A k \in Lowers : k # priv[w] => ino'[k] # ino[priv[w]]
    BY <1>4, <2>1
  <2> QED
    BY <1>2, <1>9, <2>1, <2>2, <2>3 DEF Single
<1>14. OthersHold(t)
  <2>1. \A w \in Uppers :
          uat'[w] \in Dirs /\ upLock'[uat'[w]] \in Tasks \ {t} => uat[w] = uat'[w]
    BY <1>0, <1>1, <1>7 DEF Linked
  <2>2. \A w \in Uppers : priv[w] \in Lowers => priv'[w] = priv[w]
    BY <1>0, <1>1, <1>3, NoneIsNothing DEF DentryInv, CallOf
  <2> QED
    BY <1>0, <1>6, <1>7, <2>1, <2>2 DEF OthersHold
<1>15. \A s \in Tasks \ {t} : LowerOf(s)'
  BY <1>2, <1>7, <1>14, OthersLower
<1>16. LowerOf(t)'
  <2>1. CASE pc'[t] = "idle" /\ op'[t] = NoOp
    BY <2>1, NoOpIsOp DEF LowerOf, Midway, Naming, OneParent
  <2>2. CASE pc'[t] = "iget" /\ op'[t] = op[t] /\ upLock'[d] = t /\ ino'[l] # None
    BY <1>1, <1>3, <1>4, <2>2 DEF LowerOf, Midway, Naming, OneParent, Making
  <2> QED
    BY <1>7, <2>1, <2>2
<1>17. \A w \in halfMade' : w \in Uppers /\ uat'[w] \in Linked /\ uino'[w] = None
  BY <1>0, <1>1, <1>2, <1>7 DEF TreeInv
<1> QED
  BY <1>8, <1>10, <1>11, <1>13, <1>15, <1>16, <1>17 DEF TreeInv

\* A dentry goes, and with it the lower one if it was the last.
LEMMA ShrinkKeepsTree ==
  ASSUME Grounds, NEW u \in Uppers, Shrink({u}), halfMade' = halfMade \ {u},
         uat' = [uat EXCEPT ![u] = "none"], priv' = [priv EXCEPT ![u] = None],
         \A w \in Uppers \ {u} : uino'[w] = uino[w],
         \A s \in Tasks :
            \/ op[s].u = u /\ pc'[s] = "idle" /\ op'[s] = NoOp
            \/ /\ u \notin {op[s].u, op[s].u2} /\ op'[s] = op[s] /\ pc'[s] = pc[s]
               /\ \A d \in Dirs : upLock[d] = s => upLock'[d] = s
  PROVE  TreeInv'
<1>0. /\ Types /\ DentryInv /\ UpperInv /\ LowerTypes /\ TreeInv
      /\ "none" \notin Linked /\ None \notin Lowers
  BY NoneIsNothing DEF Linked, Grounds
<1>1. /\ uat'[u] = "none" /\ priv'[u] = None
      /\ \A w \in Uppers \ {u} : uat'[w] = uat[w] /\ priv'[w] = priv[w] /\ uino'[w] = uino[w]
  BY <1>0 DEF Types
<1>2. /\ disk' = disk
      /\ \A l \in Lowers : hashed'[l] => hashed[l] /\ par'[l] = par[l] /\ ino'[l] = ino[l]
      /\ \A l \in Lowers : ino'[l] \in {ino[l], None}
  BY <1>0 DEF Shrink, LowerTypes
<1>3. \A w \in Uppers \ {u} : priv[w] \in Lowers =>
         /\ hashed'[priv[w]] = hashed[priv[w]] /\ par'[priv[w]] = par[priv[w]]
         /\ ino'[priv[w]] = ino[priv[w]]
  BY <1>0 DEF Shrink, LowerTypes
<1>4. \A w \in Uppers : uat[w] \in Dirs \cup {"dropped"} => priv[w] \in Lowers
  BY <1>0 DEF DentryInv, DentryOf, Types
<1>5. LowerDcache'
  BY <1>0, <1>2 DEF TreeInv, LowerDcache
<1>6. ASSUME NEW w \in Uppers PROVE Above(w)' /\ Agrees(w)'
  <2>1. CASE w = u
    BY <1>0, <1>1, <2>1, NoneIsNothing DEF Above, Agrees, Linked
  <2>2. CASE w # u
    <3>1. Above(w)'
      BY <1>0, <1>1, <1>3, <1>4, <2>2 DEF Above, TreeInv
    <3>2. \A s \in Tasks : Midway(s, w) => Midway(s, w)'
      BY <2>2 DEF Midway
    <3>3. Agrees(w)'
      BY <1>0, <1>1, <1>3, <1>4, <2>2, <3>2 DEF Agrees, TreeInv
    <3> QED
      BY <3>1, <3>3
  <2> QED
    BY <2>1, <2>2
<1>7. ASSUME NEW w \in Uppers, HalfMade(w)'
      PROVE  w # u /\ HalfMade(w) /\ uat[w] \in Dirs
  <2>1. CASE w \in halfMade' /\ uat'[w] \in Dirs
    BY <1>1, <2>1 DEF HalfMade
  <2>2. CASE \E s \in Tasks : op'[s].kind = "create" /\ pc'[s] = "iget" /\ op'[s].u = w
    <3>1. PICK s \in Tasks : op'[s].kind = "create" /\ pc'[s] = "iget" /\ op'[s].u = w
      BY <2>2
    <3>2. op'[s] = op[s] /\ pc'[s] = pc[s] /\ w # u
      BY <3>1
    <3>3. uat[w] \in Dirs
      BY <1>0, <3>1, <3>2 DEF UpperInv, LocksOf, Naming, OneParent
    <3> QED
      BY <3>1, <3>2, <3>3 DEF HalfMade
  <2> QED
    BY <1>7, <2>1, <2>2 DEF HalfMade
<1>8. ASSUME NEW w \in Uppers PROVE Single(w)'
  <2> SUFFICES ASSUME HalfMade(w)' PROVE Single(w)'
    BY DEF Single
  <2>1. /\ w # u /\ uat[w] \in Dirs /\ uino[w] = None /\ ino[priv[w]] # None
        /\ \A k \in Lowers : k # priv[w] => ino[k] # ino[priv[w]]
        /\ \A e \in Dirs : e # uat[w] => disk[e] # ino[priv[w]]
    BY <1>0, <1>7 DEF TreeInv, Single
  <2>2. priv[w] \in Lowers /\ ino'[priv[w]] = ino[priv[w]]
    BY <1>3, <1>4, <2>1
  <2>3. \A k \in Lowers : k # priv[w] => ino'[k] # ino[priv[w]]
    BY <1>2, <2>1
  <2> QED
    BY <1>1, <1>2, <2>1, <2>2, <2>3 DEF Single
<1>9. ASSUME NEW s \in Tasks PROVE LowerOf(s)'
  <2>1. CASE pc'[s] = "idle" /\ op'[s] = NoOp
    BY <2>1, NoOpIsOp DEF LowerOf, Midway, Naming, OneParent
  <2>2. CASE /\ u \notin {op[s].u, op[s].u2} /\ op'[s] = op[s] /\ pc'[s] = pc[s]
             /\ \A d \in Dirs : upLock[d] = s => upLock'[d] = s
    <3>1. /\ LowerOf(s) /\ StageOf(s)
          /\ op[s].kind # "none" => op[s].u \in Uppers
          /\ op[s].kind = "rename" => op[s].u2 \in Uppers
      BY <1>0, NoOpIsOp DEF TreeInv, UpperInv, Types, IsOp, DentryInv, CallOf
    <3>2. /\ op[s].kind \in Naming => uat'[op[s].u] = uat[op[s].u]
          /\ op[s].kind = "rename" => uat'[op[s].u2] = uat[op[s].u2]
      BY <1>1, <2>2, <3>1 DEF Naming, OneParent
    <3>3. pc[s] \in {"iget", "set"} =>
            /\ priv'[op[s].u] = priv[op[s].u] /\ ino'[priv[op[s].u]] = ino[priv[op[s].u]]
            /\ ino[priv[op[s].u]] # None
            /\ hashed'[priv[op[s].u]] /\ upLock'[par'[priv[op[s].u]]] = s
      BY <1>1, <1>3, <2>2, CallPlace
    <3> QED
      BY <2>2, <3>1, <3>2, <3>3 DEF LowerOf, Midway
  <2> QED
    BY <2>1, <2>2
<1>10. \A w \in halfMade' : w \in Uppers /\ uat'[w] \in Linked /\ uino'[w] = None
  BY <1>0, <1>1 DEF TreeInv
<1> QED
  BY <1>5, <1>6, <1>8, <1>9, <1>10 DEF TreeInv

LEMMA LateLookupKeepsTree ==
  ASSUME Grounds, NEW t \in Tasks, LookupFails(t)
  PROVE  TreeInv'
<1> DEFINE u == op[t].u
<1>0. Types /\ DentryInv /\ UpperInv /\ TreeInv /\ "new" \notin Linked
  BY NoneIsNothing DEF Linked, Grounds
<1>1. /\ pc[t] = "iget" /\ op[t].kind = "lookup" /\ Shrink({u}) /\ Return(t)
      /\ UNCHANGED <<uino, halfMade>>
      /\ uat' = [uat EXCEPT ![u] = "none"] /\ priv' = [priv EXCEPT ![u] = None]
  BY DEF LookupFails
<1>2. u \in Uppers /\ uat[u] = "new" /\ \A s \in Tasks \ {t} : u \notin {op[s].u, op[s].u2}
  BY <1>0, <1>1 DEF DentryInv, CallOf, OwnDentry
<1>3. halfMade' = halfMade \ {u}
  BY <1>0, <1>1, <1>2 DEF TreeInv
<1>4. /\ Alone(t) /\ pc'[t] = "idle" /\ op'[t] = NoOp
      /\ \A d \in Dirs : upLock'[d] = IF upLock[d] = t THEN None ELSE upLock[d]
  BY <1>0, <1>1, CallEnds
<1>5. \A s \in Tasks :
            \/ op[s].u = u /\ pc'[s] = "idle" /\ op'[s] = NoOp
            \/ /\ u \notin {op[s].u, op[s].u2} /\ op'[s] = op[s] /\ pc'[s] = pc[s]
               /\ \A d \in Dirs : upLock[d] = s => upLock'[d] = s
  BY <1>2, <1>4 DEF Alone
<1> HIDE DEF u
<1> QED
  BY <1>1, <1>2, <1>3, <1>5, ShrinkKeepsTree

\* What happens without a call, as long as nobody changes the lower tree.
LEMMA OutsideKeepsTree ==
  ASSUME Grounds, OutsideStep, outside' = outside
  PROVE  TreeInv'
<1> USE DEF upperVars, lowerVars, lockVars, inodeVars, ghosts, lostVars
<1>1. ASSUME NEW u \in Uppers, Release(u)
      PROVE  TreeInv'
  <2>1. /\ UNCHANGED <<pc, op, upLock>> /\ Shrink({u}) /\ halfMade' = halfMade \ {u}
        /\ uat' = [uat EXCEPT ![u] = "none"] /\ priv' = [priv EXCEPT ![u] = None]
        /\ uino' = [uino EXCEPT ![u] = None]
        /\ \A s \in Tasks : u \notin {op[s].u, op[s].u2}
    BY <1>1 DEF Release, Used
  <2>2. \A w \in Uppers \ {u} : uino'[w] = uino[w]
    BY <2>1 DEF Grounds, Types
  <2> QED
    BY <2>1, <2>2, ShrinkKeepsTree
<1>2. ASSUME NEW i \in Inos, ClearInode(i)
      PROVE  TreeInv'
  <2>1. UNCHANGED <<disk, par, hashed, ino, upLock, uat, priv, uino, pc, op, halfMade>>
    BY <1>2 DEF ClearInode
  <2>2. TreeInv
    BY DEF Grounds
  <2>3. /\ LowerDcache' /\ \A u \in Uppers : Above(u)' /\ Agrees(u)'
    BY <2>1, <2>2 DEF TreeInv, LowerDcache, Above, Agrees, Midway
  <2>4. \A u \in Uppers : Single(u)'
    BY <2>1, <2>2 DEF TreeInv, Single, HalfMade
  <2>5. \A s \in Tasks : LowerOf(s)'
    BY <2>1, <2>2 DEF TreeInv, LowerOf, Midway
  <2> QED
    BY <2>1, <2>2, <2>3, <2>4, <2>5 DEF TreeInv
<1>3. ~(\E d, e \in Dirs : OutsideRename(d, e)) /\ ~\E d \in Dirs : OutsideUnlink(d)
  BY DEF OutsideRename, OutsideUnlink, Grounds, LowerTypes
<1> QED
  BY <1>1, <1>2, <1>3 DEF OutsideStep

\* The dentry of a call gets the inode of the lower one.
LEMMA InterposeKeepsTree ==
  ASSUME Grounds, UpperInv', NEW t \in Tasks, Interpose(t)
  PROVE  TreeInv'
<1> USE DEF upperVars, lowerVars, lockVars, inodeVars, ghosts, lostVars
<1> DEFINE u == op[t].u
<1>0. /\ Types /\ DentryInv /\ UpperInv /\ LowerTypes /\ TreeInv
      /\ "new" \notin Linked /\ None \notin Tasks
      /\ StageOf(t) /\ LocksOf(t) /\ ArgsOf(t) /\ CallOf(t) /\ LowerOf(t)
  BY NoneIsNothing DEF Linked, Grounds, UpperInv, DentryInv, TreeInv
<1>1. /\ pc[t] = "set" /\ Return(t) /\ UNCHANGED <<disk, par, hashed, ino, priv, halfMade>>
      /\ uino' = [uino EXCEPT ![u] = op[t].i]
      /\ op[t].kind \in Making \cup {"lookup"}
      /\ ino[priv[u]] = op[t].i /\ op[t].i # None
  BY <1>0 DEF Interpose, UnlockDir, StageOf, LowerOf
<1>2. /\ u \in Uppers /\ hashed[priv[u]] /\ par[priv[u]] \in Dirs /\ upLock[par[priv[u]]] = t
      /\ priv[u] \in Lowers
  BY <1>1, CallPlace
<1>3. /\ Alone(t) /\ pc'[t] = "idle" /\ op'[t] = NoOp
      /\ \A d \in Dirs : upLock'[d] = IF upLock[d] = t THEN None ELSE upLock[d]
  BY <1>0, <1>1, CallEnds
<1>4. uino'[u] = ino[priv[u]] /\ \A w \in Uppers \ {u} : uino'[w] = uino[w]
  BY <1>0, <1>1, <1>2 DEF Types
<1>5. /\ uat'[u] = par[priv[u]] /\ \A w \in Uppers \ {u} : uat'[w] = uat[w]
      /\ u \notin halfMade
  <2>1. CASE op[t].kind = "lookup"
    <3>1. uat' = [uat EXCEPT ![u] = CHOOSE d \in Dirs : upLock[d] = t]
      BY <2>1 DEF Interpose
    <3>2. (CHOOSE d \in Dirs : upLock[d] = t) = par[priv[u]]
      BY <1>0, <1>2, <2>1 DEF LocksOf
    <3>3. uat[u] = "new"
      BY <1>0, <2>1 DEF CallOf
    <3> QED
      BY <1>0, <1>2, <3>1, <3>2, <3>3 DEF Types, TreeInv
  <2>2. CASE op[t].kind \in Making
    <3>1. uat' = uat /\ uat[u] \in Dirs
      BY <1>0, <2>2 DEF Interpose, LocksOf, Making, Naming, OneParent
    <3>2. u \notin halfMade
      BY <1>0, <1>1, <1>2, <2>2 DEF LowerOf, Midway
    <3> QED
      BY <1>2, <3>1, <3>2, NamePlace
  <2> QED
    BY <1>1, <2>1, <2>2
<1>6. LowerDcache'
  BY <1>0, <1>1 DEF TreeInv, LowerDcache
<1>7. ASSUME NEW w \in Uppers PROVE Above(w)' /\ Agrees(w)'
  <2>1. CASE w = u
    BY <1>1, <1>2, <1>4, <1>5, <2>1, NoneIsNothing DEF Above, Agrees
  <2>2. CASE w # u
    <3>1. Above(w)'
      BY <1>0, <1>1, <1>4, <1>5, <2>2 DEF Above, TreeInv
    <3>2. \A s \in Tasks : Midway(s, w) => Midway(s, w)'
      BY <1>3, <2>2 DEF Midway, Alone
    <3>3. Agrees(w)'
      BY <1>0, <1>1, <1>4, <1>5, <2>2, <3>2 DEF Agrees, TreeInv
    <3> QED
      BY <3>1, <3>3
  <2> QED
    BY <2>1, <2>2
<1>8. ASSUME NEW w \in Uppers, HalfMade(w)'
      PROVE  w # u /\ HalfMade(w)
  <2>1. CASE w \in halfMade' /\ uat'[w] \in Dirs
    BY <1>1, <1>5, <2>1 DEF HalfMade
  <2>2. CASE \E s \in Tasks : op'[s].kind = "create" /\ pc'[s] = "iget" /\ op'[s].u = w
    <3>1. PICK s \in Tasks : op'[s].kind = "create" /\ pc'[s] = "iget" /\ op'[s].u = w
      BY <2>2
    <3>2. s # t /\ op'[s] = op[s] /\ pc'[s] = pc[s]
      BY <1>3, <3>1 DEF Alone
    <3>3. w # u
      BY <1>0, <1>1, <3>1, <3>2, CallsApart DEF DentryInv, OwnDentry, Making, Naming, OneParent
    <3> QED
      BY <3>1, <3>2, <3>3 DEF HalfMade
  <2> QED
    BY <1>8, <2>1, <2>2 DEF HalfMade
<1>9. \A w \in Uppers : Single(w)'
  BY <1>0, <1>1, <1>4, <1>5, <1>8 DEF Single, TreeInv
<1>10. OthersHold(t)
  BY <1>0, <1>1, <1>2, <1>3, <1>5 DEF OthersHold
<1>11. \A s \in Tasks \ {t} : LowerOf(s)'
  BY <1>1, <1>3, <1>10, OthersLower
<1>12. LowerOf(t)'
  BY <1>3, NoOpIsOp DEF LowerOf, Midway, Naming, OneParent
<1>13. \A w \in halfMade' : w \in Uppers /\ uat'[w] \in Linked /\ uino'[w] = None
  BY <1>0, <1>1, <1>2, <1>4, <1>5 DEF TreeInv
<1> QED
  BY <1>6, <1>7, <1>9, <1>11, <1>12, <1>13 DEF TreeInv

\* A new name, of a new file or one more of the file i: the lower tree has it at once.
LEMMA MakeKeepsTree ==
  ASSUME Grounds, UpperInv', NEW t \in Tasks, NEW i \in Inos,
         pc[t] = "act", op[t].kind \in Making, pc'[t] = "iget", op' = op,
         \A s \in Tasks \ {t} : pc'[s] = pc[s],
         UNCHANGED <<uat, priv, uino, upLock, halfMade>>, Enter(op[t].p, priv[op[t].u], i),
         \A w \in Uppers : HalfMade(w) => i # ino[priv[w]],
         op[t].kind = "create" => /\ \A l \in Lowers : ino[l] # i
                                  /\ \A d \in Dirs : disk[d] # i
  PROVE  TreeInv'
<1> DEFINE u == op[t].u
           l == priv[u]
<1>0. /\ Types /\ DentryInv /\ UpperInv /\ LowerTypes /\ TreeInv
      /\ StageOf(t) /\ LocksOf(t) /\ ArgsOf(t) /\ CallOf(t) /\ LowerOf(t) /\ i # None
  BY NoneIsNothing DEF Grounds, UpperInv, DentryInv, TreeInv
<1>1. /\ u \in Uppers /\ uat[u] \in Dirs /\ upLock[uat[u]] = t /\ op[t].p = uat[u]
      /\ uino[u] = None
  BY <1>0 DEF CallOf, LocksOf, LowerOf, ArgsOf, Naming, OneParent, Making
<1>2. l \in Lowers /\ hashed[l] /\ par[l] = uat[u]
  BY <1>1, NamePlace
<1>3. /\ ino[l] = None /\ disk[uat[u]] = None /\ UNCHANGED <<par, hashed>>
      /\ ino'[l] = i /\ \A k \in Lowers \ {l} : ino'[k] = ino[k]
      /\ disk'[uat[u]] = i /\ \A d \in Dirs \ {uat[u]} : disk'[d] = disk[d]
  BY <1>0, <1>1, <1>2 DEF Enter, Types
<1>4. \A w \in Uppers \ {u} : uat[w] \in Dirs => priv[w] \in Lowers \ {l}
  BY <1>1, OwnPlace, NamePlace
<1>5. LowerDcache'
  BY <1>0, <1>2, <1>3 DEF TreeInv, LowerDcache, LowerTypes
<1>6. \A w \in Uppers : Above(w)'
  BY <1>0, <1>3 DEF Above, TreeInv
<1>7. ASSUME NEW w \in Uppers PROVE Agrees(w)'
  <2>1. CASE w = u
    <3>1. Midway(t, w)'
      BY <2>1 DEF Midway
    <3> QED
      BY <1>0, <1>1, <1>3, <2>1, <3>1 DEF Agrees
  <2>2. CASE w # u
    <3>1. \A s \in Tasks : Midway(s, w) => Midway(s, w)'
      BY <2>2 DEF Midway
    <3> QED
      BY <1>0, <1>3, <1>4, <2>2, <3>1 DEF Agrees, TreeInv
  <2> QED
    BY <2>1, <2>2
<1>8. u \notin halfMade
  BY <1>0, <1>1, <1>3 DEF TreeInv, Single, HalfMade
<1>9. ASSUME NEW w \in Uppers, HalfMade(w)'
      PROVE  (w # u /\ HalfMade(w) /\ uat[w] \in Dirs) \/ (w = u /\ op[t].kind = "create")
  <2>1. CASE w \in halfMade' /\ uat'[w] \in Dirs
    BY <1>8, <2>1 DEF HalfMade
  <2>2. CASE \E s \in Tasks : op'[s].kind = "create" /\ pc'[s] = "iget" /\ op'[s].u = w
    <3>1. PICK s \in Tasks : op'[s].kind = "create" /\ pc'[s] = "iget" /\ op'[s].u = w
      BY <2>2
    <3>2. CASE s = t
      BY <3>1, <3>2
    <3>3. CASE s # t
      <4>1. w # u /\ uat[w] \in Dirs
        BY <1>0, <3>1, <3>3, CallsApart DEF UpperInv, LocksOf, Naming, OneParent, Making
      <4> QED
        BY <3>1, <3>3, <4>1 DEF HalfMade
    <3> QED
      BY <3>2, <3>3
  <2> QED
    BY <1>9, <2>1, <2>2 DEF HalfMade
<1>10. ASSUME NEW w \in Uppers PROVE Single(w)'
  <2> SUFFICES ASSUME HalfMade(w)' PROVE Single(w)'
    BY DEF Single
  <2>1. CASE w = u /\ op[t].kind = "create"
    BY <1>0, <1>1, <1>3, <2>1 DEF Single
  <2>2. CASE w # u /\ HalfMade(w) /\ uat[w] \in Dirs
    <3>1. /\ uino[w] = None /\ ino[priv[w]] # None
          /\ \A k \in Lowers : k # priv[w] => ino[k] # ino[priv[w]]
          /\ \A d \in Dirs : d # uat[w] => disk[d] # ino[priv[w]]
      BY <1>0, <2>2 DEF TreeInv, Single
    <3>2. ino'[priv[w]] = ino[priv[w]] /\ i # ino[priv[w]]
      BY <1>3, <1>4, <2>2
    <3>3. /\ \A k \in Lowers : k # priv[w] => ino'[k] # ino[priv[w]]
          /\ \A d \in Dirs : d # uat[w] => disk'[d] # ino[priv[w]]
      BY <1>1, <1>3, <3>1, <3>2
    <3> QED
      BY <2>2, <3>1, <3>2, <3>3 DEF Single
  <2> QED
    BY <1>9, <2>1, <2>2
<1>11. OthersHold(t)
  <2>1. \A w \in Uppers : priv[w] \in Lowers /\ ino[priv[w]] # None => ino'[priv[w]] = ino[priv[w]]
    BY <1>3
  <2> QED
    BY <1>3, <2>1 DEF OthersHold
<1>12. Alone(t)
  BY DEF Alone
<1>13. \A s \in Tasks \ {t} : LowerOf(s)'
  BY <1>11, <1>12, OthersLower
<1>14. LowerOf(t)'
  <2>1. op[t].kind \notin {"lookup", "rename"}
    BY DEF Making
  <2>2. \A w \in Uppers : Midway(t, w)' => w \notin halfMade'
    BY <1>8 DEF Midway
  <2> QED
    BY <1>0, <1>3, <2>1, <2>2 DEF LowerOf
<1>15. \A w \in halfMade' : w \in Uppers /\ uat'[w] \in Linked /\ uino'[w] = None
  BY <1>0 DEF TreeInv
<1> QED
  BY <1>5, <1>6, <1>7, <1>10, <1>13, <1>14, <1>15 DEF TreeInv

LEMMA MakesKeepTree ==
  ASSUME Grounds, UpperInv', NEW t \in Tasks, Make(t) \/ Link(t)
  PROVE  TreeInv'
<1> USE DEF upperVars, lowerVars, lockVars, inodeVars, ghosts, lostVars
<1> DEFINE u == op[t].u
<1>0. Types /\ UpperInv /\ TreeInv /\ DentryInv
  BY DEF Grounds
<1>1. \A w \in Uppers : HalfMade(w) => priv[w] \in Lowers /\ uat[w] \in Dirs /\ uino[w] = None
  BY <1>0, NamePlace DEF HalfMade, TreeInv, Single, UpperInv, LocksOf, Naming, OneParent
<1>2. CASE Make(t)
  <2>1. PICK i \in FreeInos : Enter(op[t].p, priv[u], i)
    BY <1>2 DEF Make
  <2>2. /\ i \in Inos /\ \A l \in Lowers : ino[l] # i
        /\ \A d \in Dirs : disk[d] # i
    BY <2>1 DEF FreeInos
  <2>3. /\ pc[t] = "act" /\ op[t].kind \in Making /\ pc'[t] = "iget" /\ op' = op
        /\ \A s \in Tasks \ {t} : pc'[s] = pc[s]
        /\ UNCHANGED <<uat, priv, uino, upLock, halfMade>>
    BY <1>0, <1>2 DEF Make, At, Types, Making
  <2> QED
    BY <1>1, <2>1, <2>2, <2>3, MakeKeepsTree
<1>3. CASE Link(t)
  <2> DEFINE v == op[t].u2
             i == ino[priv[v]]
  <2>1. /\ pc[t] = "act" /\ op[t].kind = "link" /\ pc'[t] = "iget" /\ op' = op
        /\ \A s \in Tasks \ {t} : pc'[s] = pc[s]
        /\ UNCHANGED <<uat, priv, uino, upLock, halfMade>>
        /\ i # None /\ Enter(op[t].p, priv[u], i)
    BY <1>0, <1>3 DEF Link, At, Types
  <2>2. /\ v \in Uppers /\ uat[v] \in Dirs \cup {"dropped"} /\ uino[v] # None
        /\ priv[v] \in Lowers /\ i \in Inos
    BY <1>0, <2>1 DEF Types, IsOp, DentryInv, CallOf, DentryOf, UpperInv, ArgsOf
  <2>3. ASSUME NEW w \in Uppers, HalfMade(w) PROVE i # ino[priv[w]]
    <3>1. priv[v] # priv[w]
      <4>1. hashed[priv[w]] /\ uat[w] \in Dirs /\ v # w
        BY <1>1, <2>2, <2>3, NamePlace
      <4>2. uat[v] = "dropped" => ~hashed[priv[v]]
        BY <1>0, <2>2 DEF TreeInv, Above
      <4> QED
        BY <2>2, <4>1, <4>2, OwnPlace
    <3> QED
      BY <1>0, <2>2, <2>3, <3>1 DEF TreeInv, Single
  <2>4. op[t].kind \in Making /\ op[t].kind # "create"
    BY <2>1 DEF Making
  <2> HIDE DEF i
  <2> QED
    BY <2>1, <2>2, <2>3, <2>4, MakeKeepsTree
<1> QED
  BY <1>2, <1>3

\* A name goes above and below at once.
LEMMA RemoveKeepsTree ==
  ASSUME Grounds, UpperInv', NEW t \in Tasks, Remove(t)
  PROVE  TreeInv'
<1> USE DEF upperVars, lowerVars, lockVars, inodeVars, ghosts, lostVars
<1> DEFINE u == op[t].u
           l == priv[u]
<1>0. /\ Types /\ DentryInv /\ UpperInv /\ LowerTypes /\ TreeInv
      /\ "dropped" \notin Dirs /\ None \notin Tasks
      /\ StageOf(t) /\ LocksOf(t) /\ CallOf(t) /\ LowerOf(t)
  BY NoneIsNothing DEF Grounds, UpperInv, DentryInv, TreeInv
<1>1. /\ pc[t] = "act" /\ op[t].kind \in Naming /\ Return(t)
      /\ UNCHANGED <<par, priv, uino, halfMade>>
      /\ uat' = [uat EXCEPT ![u] = "dropped"] /\ hashed' = [hashed EXCEPT ![l] = FALSE]
      /\ disk' = [disk EXCEPT ![par[l]] = None]
      /\ ino' = ino \/ ino' = [ino EXCEPT ![l] = None]
  BY DEF Remove, UnlockDir, Drop, Naming, OneParent
<1>2. u \in Uppers /\ uat[u] \in Dirs /\ upLock[uat[u]] = t
  BY <1>0, <1>1 DEF CallOf, LocksOf
<1>3. l \in Lowers /\ hashed[l] /\ par[l] = uat[u]
  BY <1>2, NamePlace
<1>4. /\ uat'[u] = "dropped" /\ \A w \in Uppers \ {u} : uat'[w] = uat[w]
      /\ ~hashed'[l] /\ \A k \in Lowers \ {l} : hashed'[k] = hashed[k] /\ ino'[k] = ino[k]
      /\ \A k \in Lowers : ino'[k] \in {ino[k], None}
      /\ disk'[uat[u]] = None /\ \A d \in Dirs \ {uat[u]} : disk'[d] = disk[d]
  BY <1>0, <1>1, <1>2, <1>3 DEF Types, LowerTypes
<1>5. /\ Alone(t) /\ pc'[t] = "idle" /\ op'[t] = NoOp
      /\ \A d \in Dirs : upLock'[d] = IF upLock[d] = t THEN None ELSE upLock[d]
  BY <1>0, <1>1, CallEnds
<1>6. \A w \in Uppers \ {u} : uat[w] \in Dirs => priv[w] \in Lowers \ {l}
  BY <1>2, OwnPlace, NamePlace
<1>7. LowerDcache'
  <2>1. \A m \in Lowers : hashed'[m] =>
          /\ hashed[m] /\ m # l /\ ino'[m] = ino[m] /\ par[m] \in Dirs \ {uat[u]}
    <3>1. \A m \in Lowers : hashed[m] /\ m # l => par[m] # uat[u]
      BY <1>0, <1>3 DEF TreeInv, LowerDcache
    <3> QED
      BY <1>0, <1>4, <3>1 DEF LowerTypes
  <2> QED
    BY <1>0, <1>1, <1>4, <2>1 DEF TreeInv, LowerDcache
<1>8. \A w \in Uppers : uat[w] \in Dirs \cup {"dropped"} => priv[w] \in Lowers
  BY <1>0 DEF DentryInv, DentryOf, Types
<1>9. ASSUME NEW w \in Uppers PROVE Above(w)' /\ Agrees(w)'
  <2>1. CASE w = u
    BY <1>0, <1>1, <1>4, <2>1 DEF Above, Agrees
  <2>2. CASE w # u
    <3>1. Above(w)'
      BY <1>0, <1>1, <1>4, <1>6, <1>8, <2>2 DEF Above, TreeInv
    <3>2. \A s \in Tasks : Midway(s, w) => Midway(s, w)'
      BY <1>1, <1>5, <2>2 DEF Midway, Alone
    <3>3. Agrees(w)'
      BY <1>0, <1>1, <1>4, <1>6, <2>2, <3>2 DEF Agrees, TreeInv
    <3> QED
      BY <3>1, <3>3
  <2> QED
    BY <2>1, <2>2
<1>10. ASSUME NEW w \in Uppers, HalfMade(w)'
       PROVE  w # u /\ HalfMade(w) /\ uat[w] \in Dirs
  <2>1. CASE w \in halfMade' /\ uat'[w] \in Dirs
    BY <1>0, <1>1, <1>4, <2>1 DEF HalfMade
  <2>2. CASE \E s \in Tasks : op'[s].kind = "create" /\ pc'[s] = "iget" /\ op'[s].u = w
    <3>1. PICK s \in Tasks : op'[s].kind = "create" /\ pc'[s] = "iget" /\ op'[s].u = w
      BY <2>2
    <3>2. s # t /\ op'[s] = op[s] /\ pc'[s] = pc[s]
      BY <1>5, <3>1 DEF Alone
    <3>3. w # u /\ uat[w] \in Dirs
      BY <1>0, <1>1, <3>1, <3>2, CallsApart DEF UpperInv, LocksOf, Naming, OneParent
    <3> QED
      BY <3>1, <3>2, <3>3 DEF HalfMade
  <2> QED
    BY <1>10, <2>1, <2>2 DEF HalfMade
<1>11. ASSUME NEW w \in Uppers PROVE Single(w)'
  <2> SUFFICES ASSUME HalfMade(w)' PROVE Single(w)'
    BY DEF Single
  <2>1. /\ w # u /\ uat[w] \in Dirs /\ uino[w] = None /\ ino[priv[w]] # None
        /\ \A k \in Lowers : k # priv[w] => ino[k] # ino[priv[w]]
        /\ \A d \in Dirs : d # uat[w] => disk[d] # ino[priv[w]]
    BY <1>0, <1>10 DEF TreeInv, Single
  <2>2. ino'[priv[w]] = ino[priv[w]]
    BY <1>4, <1>6, <2>1
  <2>3. /\ \A k \in Lowers : k # priv[w] => ino'[k] # ino[priv[w]]
        /\ \A d \in Dirs : d # uat[w] => disk'[d] # ino[priv[w]]
    BY <1>2, <1>4, <2>1
  <2> QED
    BY <1>1, <1>4, <2>1, <2>2, <2>3 DEF Single
<1>12. OthersHold(t)
  <2>1. \A w \in Uppers : priv[w] \in Lowers /\ upLock[par[priv[w]]] # t => priv[w] # l
    BY <1>2, <1>3
  <2>2. \A d \in Dirs : upLock[d] \in Tasks \ {t} => upLock'[d] = upLock[d]
    BY <1>5
  <2>3. \A w \in Uppers :
          uat'[w] \in Dirs /\ upLock'[uat'[w]] \in Tasks \ {t} => uat[w] = uat'[w]
    BY <1>0, <1>1, <1>4, <1>5
  <2> HIDE DEF u, l
  <2>4. ASSUME NEW w \in Uppers, priv[w] \in Lowers, hashed[priv[w]],
               upLock[par[priv[w]]] \in Tasks \ {t}
        PROVE  /\ priv'[w] = priv[w] /\ hashed'[priv[w]]
               /\ par'[priv[w]] = par[priv[w]] /\ ino'[priv[w]] = ino[priv[w]]
    <3>1. priv[w] \in Lowers \ {l}
      BY <2>1, <2>4
    <3> QED
      BY <1>1, <1>4, <2>4, <3>1
  <2> QED
    BY <2>2, <2>3, <2>4 DEF OthersHold
<1>13. \A s \in Tasks \ {t} : LowerOf(s)'
  BY <1>1, <1>5, <1>12, OthersLower
<1>14. LowerOf(t)'
  BY <1>5, NoOpIsOp DEF LowerOf, Midway, Naming, OneParent
<1>15. \A w \in halfMade' : w \in Uppers /\ uat'[w] \in Linked /\ uino'[w] = None
  BY <1>0, <1>1, <1>4 DEF TreeInv, Linked
<1> QED
  BY <1>7, <1>9, <1>11, <1>13, <1>14, <1>15 DEF TreeInv

\* A rename never meets two names of one file: the dentries would have told the VFS.
LEMMA RenameMoves ==
  ASSUME Grounds, NEW t \in Tasks, op[t].kind = "rename"
  PROVE  LET u == op[t].u
             v == op[t].u2
         IN  /\ u \in Uppers /\ v \in Uppers /\ u # v /\ uat[u] \in Dirs /\ uat[v] \in Dirs
             /\ uat[u] # uat[v] /\ upLock[uat[u]] = t /\ upLock[uat[v]] = t
             /\ uino[u] # None /\ u \notin halfMade
             /\ priv[u] \in Lowers /\ priv[v] \in Lowers /\ priv[u] # priv[v]
             /\ hashed[priv[u]] /\ hashed[priv[v]]
             /\ par[priv[u]] = uat[u] /\ par[priv[v]] = uat[v]
             /\ uino[u] = ino[priv[u]] /\ ino[priv[u]] # ino[priv[v]]
<1> DEFINE u == op[t].u
           v == op[t].u2
<1>0. /\ Types /\ DentryInv /\ UpperInv /\ LowerTypes /\ TreeInv
  BY DEF Grounds
<1>1. /\ u \in Uppers /\ v \in Uppers /\ uat[u] \in Dirs /\ uat[v] \in Dirs
      /\ uat[u] # uat[v] /\ upLock[uat[u]] = t /\ upLock[uat[v]] = t
      /\ uino[u] # None /\ uino[u] # uino[v]
  BY <1>0, NoOpIsOp DEF Types, IsOp, DentryInv, CallOf, UpperInv, LocksOf, ArgsOf, Naming
<1>2. u # v /\ u \notin halfMade
  BY <1>0, <1>1 DEF TreeInv
<1>3. /\ priv[u] \in Lowers /\ hashed[priv[u]] /\ par[priv[u]] = uat[u]
      /\ priv[v] \in Lowers /\ hashed[priv[v]] /\ par[priv[v]] = uat[v] /\ priv[u] # priv[v]
  BY <1>1, NamePlace
<1>4. uino[u] = ino[priv[u]]
  BY <1>0, <1>1 DEF TreeInv, Agrees
<1>5. ino[priv[u]] # ino[priv[v]]
  <2> SUFFICES ASSUME ino[priv[u]] = ino[priv[v]] PROVE FALSE
    OBVIOUS
  <2>1. v \in halfMade \/ \E s \in Tasks : Midway(s, v)
    BY <1>0, <1>1, <1>4 DEF TreeInv, Agrees
  <2>2. v \notin halfMade
    BY <1>0, <1>1, <1>3 DEF TreeInv, Single, HalfMade
  <2>3. \A s \in Tasks : ~Midway(s, v)
    BY <1>0, <1>1 DEF Midway, UpperInv, LocksOf, Naming, OneParent, Making
  <2> QED
    BY <2>1, <2>2, <2>3
<1> HIDE DEF u, v
<1> QED
  BY <1>1, <1>2, <1>3, <1>4, <1>5 DEF u, v

LEMMA RenameKeepsTree ==
  ASSUME Grounds, UpperInv', NEW t \in Tasks, Rename(t)
  PROVE  TreeInv'
<1> USE DEF upperVars, lowerVars, lockVars, inodeVars, ghosts, lostVars
<1> DEFINE u == op[t].u
           v == op[t].u2
           l == priv[u]
           k == priv[v]
<1>0. /\ Types /\ DentryInv /\ UpperInv /\ LowerTypes /\ TreeInv
      /\ "dropped" \notin Dirs /\ None \notin Tasks
  BY NoneIsNothing DEF Grounds
<1>1. /\ u \in Uppers /\ v \in Uppers /\ u # v /\ uat[u] \in Dirs /\ uat[v] \in Dirs
      /\ uat[u] # uat[v] /\ upLock[uat[u]] = t /\ upLock[uat[v]] = t
      /\ uino[u] # None /\ u \notin halfMade
      /\ l \in Lowers /\ k \in Lowers /\ l # k /\ hashed[l] /\ hashed[k]
      /\ par[l] = uat[u] /\ par[k] = uat[v]
      /\ uino[u] = ino[l] /\ ino[l] # ino[k]
  BY RenameMoves DEF Rename
<1>2. /\ pc[t] = "act" /\ op[t].kind = "rename" /\ Return(t)
      /\ UNCHANGED <<priv, uino, ino, halfMade>>
      /\ uat' = [uat EXCEPT ![u] = uat[v], ![v] = "dropped"]
      /\ par' = [par EXCEPT ![l] = par[k], ![k] = par[l]]
      /\ hashed' = [hashed EXCEPT ![k] = FALSE]
      /\ disk' = [disk EXCEPT ![par[k]] = ino[l], ![par[l]] = None]
  BY <1>1 DEF Rename, UnlockDir, MoveLower
<1>3. /\ uat'[u] = uat[v] /\ uat'[v] = "dropped" /\ \A w \in Uppers \ {u, v} : uat'[w] = uat[w]
  BY <1>0, <1>1, <1>2 DEF Types
<1>4. /\ hashed'[l] /\ ~hashed'[k] /\ par'[l] = uat[v]
      /\ \A m \in Lowers \ {l, k} : hashed'[m] = hashed[m] /\ par'[m] = par[m]
      /\ \A m \in Lowers \ {l} : hashed'[m] => hashed[m] /\ m # k
  BY <1>0, <1>1, <1>2 DEF LowerTypes
<1>5. /\ disk'[uat[v]] = ino[l] /\ disk'[uat[u]] = None
      /\ \A d \in Dirs \ {uat[u], uat[v]} : disk'[d] = disk[d]
      /\ ino[l] = disk[uat[u]]
  BY <1>0, <1>1, <1>2, NamePlace DEF Types
<1>6. /\ Alone(t) /\ pc'[t] = "idle" /\ op'[t] = NoOp
      /\ \A d \in Dirs : upLock'[d] = IF upLock[d] = t THEN None ELSE upLock[d]
  BY <1>0, <1>2, CallEnds
<1>7. \A w \in Uppers \ {u, v} : uat[w] \in Dirs => priv[w] \in Lowers \ {l, k}
  BY <1>1, OwnPlace, NamePlace
<1>8. \A w \in Uppers : uat[w] \in Dirs \cup {"dropped"} => priv[w] \in Lowers
  BY <1>0 DEF DentryInv, DentryOf, Types
<1>9. LowerDcache'
  <2>1. \A m \in Lowers \ {l, k} : hashed[m] => par[m] \notin {uat[u], uat[v]} /\ par[m] \in Dirs
    BY <1>0, <1>1 DEF TreeInv, LowerDcache, LowerTypes
  <2>2. \A m \in Lowers \ {l} : hashed'[m] =>
          /\ hashed[m] /\ m # k /\ par'[m] = par[m] /\ disk'[par[m]] = disk[par[m]]
          /\ par[m] # uat[v]
    BY <1>4, <1>5, <2>1
  <2>3. \A m, n \in Lowers : hashed'[m] /\ hashed'[n] /\ par'[m] = par'[n] => m = n
    <3>1. \A m, n \in Lowers : hashed[m] /\ hashed[n] /\ par[m] = par[n] => m = n
      BY <1>0 DEF TreeInv, LowerDcache
    <3> QED
      BY <1>4, <2>2, <3>1
  <2>4. ASSUME NEW m \in Lowers, hashed'[m] PROVE ino'[m] = disk'[par'[m]]
    <3>1. CASE m = l
      BY <1>2, <1>4, <1>5, <3>1
    <3>2. CASE m # l
      <4> HIDE DEF u, v, l, k
      <4>1. ino[m] = disk[par[m]]
        BY <1>0, <2>2, <2>4, <3>2 DEF TreeInv, LowerDcache
      <4> QED
        BY <1>2, <2>2, <2>4, <3>2, <4>1
    <3> QED
      BY <3>1, <3>2
  <2> QED
    BY <2>3, <2>4 DEF LowerDcache
<1>10. ASSUME NEW w \in Uppers PROVE Above(w)' /\ Agrees(w)'
  <2>1. CASE w = u
    <3>1. uat'[w] = uat[v] /\ uat[v] # "dropped" /\ priv'[w] = l /\ uino'[w] = ino'[l]
      BY <1>0, <1>1, <1>2, <1>3, <2>1
    <3>2. hashed'[l] /\ par'[l] = uat[v]
      BY <1>4
    <3> HIDE DEF u, v, l, k
    <3> QED
      BY <3>1, <3>2 DEF Above, Agrees
  <2>2. CASE w = v
    <3>1. uat'[w] = "dropped" /\ "dropped" \notin Dirs /\ priv'[w] = k /\ ~hashed'[k]
      BY <1>0, <1>2, <1>3, <1>4, <2>2
    <3> HIDE DEF u, v, l, k
    <3> QED
      BY <3>1 DEF Above, Agrees
  <2>3. CASE w \notin {u, v}
    <3>1. Above(w)'
      <4>1. uat'[w] = uat[w] /\ priv'[w] = priv[w] /\ uino'[w] = uino[w] /\ Above(w)
        BY <1>0, <1>2, <1>3, <2>3 DEF TreeInv
      <4>2. uat[w] \in Dirs => hashed'[priv[w]] = hashed[priv[w]] /\ par'[priv[w]] = par[priv[w]]
        BY <1>4, <1>7, <2>3
      <4>3. uat[w] = "dropped" /\ ~hashed[priv[w]] => ~hashed'[priv[w]]
        BY <1>1, <1>4, <1>8
      <4> QED
        BY <4>1, <4>2, <4>3 DEF Above
    <3>2. \A s \in Tasks : Midway(s, w) => Midway(s, w)'
      BY <1>2, <1>6, <2>3 DEF Midway, Alone
    <3>3. Agrees(w)'
      BY <1>0, <1>2, <1>3, <2>3, <3>2 DEF Agrees, TreeInv
    <3> QED
      BY <3>1, <3>3
  <2> QED
    BY <2>1, <2>2, <2>3
<1>11. ASSUME NEW w \in Uppers, HalfMade(w)'
       PROVE  w \notin {u, v} /\ HalfMade(w) /\ uat[w] \in Dirs
  <2>1. CASE w \in halfMade' /\ uat'[w] \in Dirs
    BY <1>0, <1>1, <1>2, <1>3, <2>1 DEF HalfMade
  <2>2. CASE \E s \in Tasks : op'[s].kind = "create" /\ pc'[s] = "iget" /\ op'[s].u = w
    <3>1. PICK s \in Tasks : op'[s].kind = "create" /\ pc'[s] = "iget" /\ op'[s].u = w
      BY <2>2
    <3>2. s # t /\ op'[s] = op[s] /\ pc'[s] = pc[s]
      BY <1>6, <3>1 DEF Alone
    <3>3. w \notin {u, v}
      <4>1. op[s].u = w /\ op[s].kind \in Naming /\ op[t].kind \in Naming
        BY <1>2, <3>1, <3>2 DEF Naming, OneParent
      <4> QED
        BY <1>0, <1>2, <3>2, <4>1, CallsApart
    <3>4. uat[w] \in Dirs
      BY <1>0, <3>1, <3>2 DEF UpperInv, LocksOf, Naming, OneParent
    <3> QED
      BY <3>1, <3>2, <3>3, <3>4 DEF HalfMade
  <2> QED
    BY <1>11, <2>1, <2>2 DEF HalfMade
<1>12. ASSUME NEW w \in Uppers PROVE Single(w)'
  <2> SUFFICES ASSUME HalfMade(w)' PROVE Single(w)'
    BY DEF Single
  <2>1. /\ w \notin {u, v} /\ uat[w] \in Dirs /\ uino[w] = None /\ ino[priv[w]] # None
        /\ \A m \in Lowers : m # priv[w] => ino[m] # ino[priv[w]]
        /\ \A d \in Dirs : d # uat[w] => disk[d] # ino[priv[w]]
    BY <1>0, <1>11 DEF TreeInv, Single
  <2>2. ino[l] # ino[priv[w]]
    BY <1>1, <1>7, <2>1
  <2>3. \A d \in Dirs : d # uat[w] => disk'[d] # ino[priv[w]]
    BY <1>1, <1>5, <2>1, <2>2
  <2> QED
    BY <1>2, <1>3, <2>1, <2>3 DEF Single
<1>13. OthersHold(t)
  <2>1. \A w \in Uppers : priv[w] \in Lowers /\ upLock[par[priv[w]]] # t => priv[w] \notin {l, k}
    BY <1>1
  <2>2. \A w \in Uppers :
          uat'[w] \in Dirs /\ upLock'[uat'[w]] \in Tasks \ {t} => uat[w] = uat'[w]
    BY <1>0, <1>1, <1>3, <1>6
  <2>3. \A d \in Dirs : upLock[d] \in Tasks \ {t} => upLock'[d] = upLock[d]
    BY <1>6
  <2> HIDE DEF u, v, l, k
  <2>4. ASSUME NEW w \in Uppers, priv[w] \in Lowers, hashed[priv[w]],
               upLock[par[priv[w]]] \in Tasks \ {t}
        PROVE  /\ priv'[w] = priv[w] /\ hashed'[priv[w]]
               /\ par'[priv[w]] = par[priv[w]] /\ ino'[priv[w]] = ino[priv[w]]
    <3>1. priv[w] \in Lowers \ {l, k}
      BY <2>1, <2>4
    <3> QED
      BY <1>2, <1>4, <2>4, <3>1
  <2> QED
    BY <2>2, <2>3, <2>4 DEF OthersHold
<1>14. \A s \in Tasks \ {t} : LowerOf(s)'
  BY <1>2, <1>6, <1>13, OthersLower
<1>15. LowerOf(t)'
  BY <1>6, NoOpIsOp DEF LowerOf, Midway, Naming, OneParent
<1>16. \A w \in halfMade' : w \in Uppers /\ uat'[w] \in Linked /\ uino'[w] = None
  <2>1. \A w \in halfMade : w \in Uppers /\ uat[w] \in Linked /\ uino[w] = None
    BY <1>0 DEF TreeInv
  <2>2. \A w \in Uppers \ {u} : uat[w] \in Linked => uat'[w] \in Linked
    BY <1>3 DEF Linked
  <2> QED
    BY <1>1, <1>2, <2>1, <2>2
<1> QED
  BY <1>9, <1>10, <1>12, <1>14, <1>15, <1>16 DEF TreeInv

-----------------------------------------------------------------------------
(* The trees always.                                                        *)

LEMMA TasksKeepTree ==
  ASSUME Grounds, DentryRefs, Types', DentryInv', UpperInv', NEW t \in Tasks, ATaskStep(t)
  PROVE  TreeInv'
<1>1. CASE BeginStep(t)
  BY <1>1, BeginsKeepTree
<1>2. CASE LookStep(t)
  BY <1>2, LookKeepsTree, QuietsKeepTree DEF LookStep
<1>3. CASE MiddleStep(t)
  BY <1>3, MakesKeepTree, QuietsKeepTree, NoBugBelow DEF MiddleStep
<1>4. CASE EndStep(t)
  BY <1>4, LateLookupKeepsTree, QuietsKeepTree, InterposeKeepsTree, RemoveKeepsTree,
     RenameKeepsTree DEF EndStep
<1> QED
  BY <1>1, <1>2, <1>3, <1>4 DEF ATaskStep

\* Only somebody else changes the lower filesystem from outside.
LEMMA TasksAreInside ==
  ASSUME NEW t \in Tasks, ATaskStep(t)
  PROVE  outside' = outside
<1> USE DEF ghosts, lostVars
<1>1. CASE LookStep(t)
  BY <1>1 DEF LookStep, Look, LookFails, LookLosesMount
<1>2. CASE MiddleStep(t)
  BY <1>2 DEF MiddleStep, Lock, Iget, IgetOfNothing, Make, Link, ActOnMoved
<1>3. CASE EndStep(t)
  BY <1>3 DEF EndStep, LookupFails, ActFails, InterposeFails, Interpose, Remove, Rename, Setattr
<1> QED
  BY <1>1, <1>2, <1>3, BeginsQuietly DEF ATaskStep

BothTrees == AccountInv /\ PositiveInv /\ TreesInv

LEMMA BothTreesInit == Init => BothTrees
<1> SUFFICES ASSUME Init PROVE PositiveInv /\ TreesInv
  BY AccountInit DEF BothTrees
<1>0. /\ NoOp.kind = "none" /\ "none" \notin Dirs
  BY NoOpIsOp, NoneIsNothing
<1>1. PositiveInv
  BY <1>0 DEF Init, PositiveInv
<1>2. LowerDcache
  BY DEF Init, LowerDcache
<1>3. \A u \in Uppers : Above(u) /\ Agrees(u) /\ ~HalfMade(u)
  BY <1>0 DEF Init, Above, Agrees, HalfMade
<1>4. \A t \in Tasks : LowerOf(t)
  BY <1>0 DEF Init, LowerOf, Midway, Naming, OneParent
<1>5. halfMade = {}
  BY DEF Init
<1> QED
  BY <1>1, <1>2, <1>3, <1>4, <1>5 DEF TreesInv, TreeInv, Single

LEMMA BothTreesNext == BothTrees /\ [Next]_vars => BothTrees'
<1> SUFFICES ASSUME BothTrees, [Next]_vars PROVE BothTrees'
  OBVIOUS
<1>1. /\ AccountInv' /\ AccountInv /\ PositiveInv /\ TreesInv
  BY AccountNext DEF BothTrees
<1>2. /\ Types /\ DentryInv /\ UpperInv /\ LowerTypes /\ DentryRefs /\ outside \in Nat
      /\ Types' /\ DentryInv' /\ UpperInv'
      /\ outside = 0 => Grounds
  BY <1>1, NamesBounds DEF AccountInv, NamesInv, RefsInv, LowerTypes, TreesInv, Grounds
<1>3. ASSUME NEW t \in Tasks, TaskStep(t), ~Crashed
      PROVE  PositiveInv' /\ TreesInv'
  <2>1. ATaskStep(t)
    BY <1>3 DEF TaskStep, BeginStep, LookStep, MiddleStep, EndStep, ATaskStep
  <2>2. PositiveInv'
    BY <1>1, <1>2, <1>3, <2>1, TasksKeepPositive
  <2>3. outside' = outside
    BY <2>1, TasksAreInside
  <2>4. outside = 0 => TreeInv'
    BY <1>2, <2>1, TasksKeepTree
  <2> QED
    BY <2>2, <2>3, <2>4 DEF TreesInv
<1>4. CASE OutsideStep
  <2>1. PositiveInv'
    BY <1>1, <1>2, <1>4, OutsideKeepsPositive
  <2>2. outside' = outside \/ outside' = outside + 1
    BY <1>4 DEF OutsideStep, Release, ClearInode, OutsideRename, OutsideUnlink, ghosts
  <2>3. outside' = 0 => outside = 0
    BY <1>2, <2>2
  <2>4. outside' = 0 => TreeInv'
    BY <1>2, <1>4, <2>3, OutsideKeepsTree
  <2> QED
    BY <1>1, <2>1, <2>4 DEF BothTrees, TreesInv
<1>5. CASE UNCHANGED vars
  <2> USE <1>5 DEF vars, lowerVars, upperVars, inodeVars, lockVars, ghosts, lostVars
  <2>1. PositiveInv'
    BY <1>1 DEF PositiveInv
  <2>2. ASSUME TreeInv PROVE TreeInv'
    <3>1. LowerDcache' /\ \A u \in Uppers : Above(u)' /\ Agrees(u)'
      BY <2>2 DEF TreeInv, LowerDcache, Above, Agrees, Midway
    <3>2. \A u \in Uppers : Single(u)'
      BY <2>2 DEF TreeInv, Single, HalfMade
    <3>3. \A s \in Tasks : LowerOf(s)'
      BY <2>2 DEF TreeInv, LowerOf, Midway
    <3> QED
      BY <2>2, <3>1, <3>2, <3>3 DEF TreeInv
  <2> QED
    BY <1>1, <2>1, <2>2 DEF BothTrees, TreesInv
<1> QED
  BY <1>1, <1>3, <1>4, <1>5 DEF Next, OutsideStep, BothTrees

LEMMA BothTreesAlways == Spec => []BothTrees
BY BothTreesInit, BothTreesNext, PTL DEF Spec

\* As long as nobody works on the lower filesystem directly, a name in the dcache
\* of base0fs is what the lower directory has, whatever failed; but for the name
\* of a file that base0fs_create made and could not tell its dentry
\* (src/base0fs/inode.c, main.c).
THEOREM NamesAreTrue == Spec => []TreesAgree
<1>1. ASSUME BothTrees PROVE TreesAgree
  <2>1. /\ UpperInv /\ None \notin Tasks /\ (outside = 0 => Grounds)
    BY <1>1, NoneIsNothing DEF BothTrees, AccountInv, NamesInv, RefsInv, TreesInv, Grounds
  <2> SUFFICES ASSUME outside = 0, NEW u \in Uppers, uat[u] \in Dirs, upLock[uat[u]] = None,
                      u \notin halfMade
               PROVE  uino[u] = disk[uat[u]] /\ par[priv[u]] = uat[u] /\ ino[priv[u]] = uino[u]
    BY DEF TreesAgree
  <2>2. \A t \in Tasks : ~Midway(t, u)
    BY <2>1 DEF Midway, UpperInv, LocksOf, Making, Naming, OneParent
  <2>3. uino[u] = ino[priv[u]]
    BY <2>1, <2>2 DEF Grounds, TreeInv, Agrees
  <2> QED
    BY <2>1, <2>3, NamePlace
<1> QED
  BY <1>1, BothTreesAlways, PTL

\* No BUG_ON of base0fs_interpose or of the VFS is met as long as nobody works on
\* the lower filesystem directly, and notify_change meets a lower dentry without an
\* inode only under a name that was removed meanwhile (base0fs_setattr, inode.c).
THEOREM NoAssertionFails == Spec => []AssertionsHold
<1>1. BothTrees => AssertionsHold
  BY NamesBounds DEF BothTrees, AccountInv, RefsInv, LowerTypes, PositiveInv, TreesInv, TreeInv,
     LowerOf, AssertionsHold
<1> QED
  BY <1>1, BothTreesAlways, PTL
=============================================================================
