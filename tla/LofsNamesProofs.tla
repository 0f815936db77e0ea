-------------------------- MODULE LofsNamesProofs --------------------------
(***************************************************************************)
(* LofsNames: references are balanced, victims are in place and walks are  *)
(* truthful, for any tasks, directories, names, dentries, inodes, scenarios.*)
(***************************************************************************)
EXTENDS LofsNames, FiniteSetTheorems, TLAPS

\* lofs_lookup is at work on a new dentry; an operation has the lower parents.
LookPcs == {"dlookup", "lreval", "relook", "read", "add", "null_inode"}
OpPcs == {"plock", "vfs", "finish", "put", "misplaced"}
Pair == {"link", "rename"}

Types ==
    /\ scenario \in Scenarios
    /\ content \in [Entries -> Maybe]
    /\ seen \in [Tasks -> SUBSET Maybe]
    /\ low \in [Lowers -> [at : Entries \cup {<<>>}, inode : Maybe, hashed : BOOLEAN,
                           stale : BOOLEAN, refs : Int]]
    /\ up \in [Uppers -> UpperDentries]
    /\ mntRefs \in Int
    /\ dirRefs \in [Dirs -> Int]
    /\ ulock \in [Dirs -> Tasks \cup {NoOne}]
    /\ llock \in [Dirs -> Tasks \cup {NoOne}]
    /\ call \in [Tasks -> Calls]

\* The shape of a call.
CallOf(t) ==
    /\ At(t, "idle") => call[t] = Idle
    /\ ~At(t, "idle") => /\ Op(t) \in scenario.ops
                         /\ call[t].ent \in Entries \X Entries
                         /\ Op(t) \in Pair => call[t].ent[1] # call[t].ent[2]
    /\ call[t].cur = 2 => Op(t) \in Pair
    /\ call[t].cur = 2 /\ At(t, "lock") => Op(t) = "link"
    /\ call[t].dl \in Lowers <=> call[t].pc \in {"lreval", "read", "add", "null_inode"}
    /\ call[t].pc \in LookPcs \cup {"reval", "found"} => Found(t) \in Uppers
    /\ call[t].pc \in OpPcs => /\ Op(t) # "walk"
                               /\ Op(t) \in Pair => call[t].cur = 2
                               /\ DOMAIN call[t].dir = IF Op(t) = "rename" THEN 1..2 ELSE 1..1
    /\ call[t].pc \notin OpPcs => call[t].dir = <<>>
    /\ At(t, "put") => Op(t) = "rename"
    /\ At(t, "return") /\ call[t].rc /\ Op(t) = "rename" => call[t].cur = 2

\* The k-th name was looked up, or is in the dcache.
Reached(t, k) ==
    \/ k < call[t].cur
    \/ k = call[t].cur /\ call[t].pc \in {"reval", "found"} \cup OpPcs
    \/ k = call[t].cur /\ At(t, "return") /\ call[t].rc

\* The directory of the k-th name is locked to the end of the call.
LockedName(t, k) == Op(t) # "walk" /\ (Op(t) = "link" => k = 2)

Under(t, k) ==
    \/ k = call[t].cur /\ call[t].pc \in LookPcs
    \/ LockedName(t, k) /\ Reached(t, k)

LocksOf(t) ==
    /\ call[t].pc \in LookPcs => ulock[Entry(t)[1]] = t
    /\ call[t].pc \notin {"idle", "lock"} /\ (Op(t) = "link" => call[t].cur = 2) =>
          \A k \in 1..2 : LockedName(t, k) /\ (k = 1 \/ Op(t) \in Pair) => ulock[call[t].ent[k][1]] = t

\* The dentries of a call stay as long as it needs them.
UseOf(t) ==
    \A k \in 1..2 :
        /\ call[t].du[k] \in Uppers => up[call[t].du[k]].at \in Entries
        /\ Reached(t, k) => call[t].du[k] \in Uppers /\ Lower(t, k) \in Lowers

\* Nobody else knows a dentry that is looked up.
FreshOf(t) ==
    call[t].pc \in LookPcs =>
        /\ up[Found(t)].inode = NoInode /\ ~up[Found(t)].hashed
        /\ up[Found(t)].at = Entry(t)
        /\ up[Found(t)].lower = IF call[t].pc \in {"add", "null_inode"} THEN call[t].dl ELSE NoDentry
        /\ \A s \in Tasks, k \in 1..2 : call[s].du[k] = Found(t) => s = t /\ k = call[t].cur

\* In a locked directory a call's dentry is the only one of its name.
SoleOf(t) ==
    \A k \in 1..2 : Under(t, k) =>
        /\ up[call[t].du[k]].at = call[t].ent[k]
        /\ \A u \in Uppers : up[u].hashed /\ up[u].at = call[t].ent[k] => u = call[t].du[k]

UpperDcache ==
    /\ \A u \in Uppers : up[u].at = <<>> => up[u] = FreeUpper
    /\ \A u \in Uppers : up[u].hashed => up[u].lower \in Lowers
    /\ \A u, w \in Uppers : up[u].hashed /\ up[w].hashed /\ up[u].at = up[w].at => u = w

LowerDcache == \A l \in Lowers : low[l].at = <<>> => low[l] = FreeLower

-----------------------------------------------------------------------------
(* References.                                                              *)

Pointers(l) == {u \in Uppers : up[u].lower = l}
Finders(l) == {t \in Tasks : call[t].pc \in {"lreval", "read"} /\ call[t].dl = l}
Users(l) == {h \in Tasks \X (1..2) :
                call[h[1]].dir # <<>> /\ h[2] \in HeldBy(Op(h[1])) /\ Lower(h[1], h[2]) = l}
Pointing == {u \in Uppers : up[u].lower # NoDentry}
Takers(d) == {h \in Tasks \X (1..2) : h[2] \in DOMAIN call[h[1]].dir /\ call[h[1]].dir[h[2]] = d}

LowerRefs ==
    \A l \in Lowers :
        low[l].refs = Cardinality(Pointers(l)) + Cardinality(Finders(l)) + Cardinality(Users(l))
MountRefs == mntRefs = Cardinality(Pointing)
ParentRefs == \A d \in Dirs : dirRefs[d] = Cardinality(Takers(d))

RefsInv ==
    /\ Types /\ UpperDcache /\ LowerDcache /\ LowerRefs /\ MountRefs
    /\ \A t \in Tasks : CallOf(t) /\ LocksOf(t) /\ UseOf(t) /\ FreshOf(t) /\ SoleOf(t)

-----------------------------------------------------------------------------
(* Places, where nobody renames below.                                      *)

Renamed(t) == Op(t) = "rename" /\ call[t].rc /\ call[t].pc \in {"finish", "put", "return"}
EntDirs(t) ==
    IF Op(t) = "rename" THEN <<call[t].ent[1][1], call[t].ent[2][1]>>
    ELSE <<call[t].ent[Target(Op(t))][1]>>

PlaceOf(t) ==
    /\ \A k \in 1..2 : LockedName(t, k) /\ Reached(t, k) =>
          low[Lower(t, k)].at = call[t].ent[IF Renamed(t) THEN 3 - k ELSE k]
    /\ call[t].pc \in {"lreval", "read", "add"} => low[call[t].dl].at = Entry(t)
    /\ call[t].pc \in OpPcs => call[t].dir = EntDirs(t)
    /\ call[t].pc \notin {"finish", "put", "return"} => call[t].rc
    /\ ~At(t, "misplaced")

Placed(u) ==
    \/ low[up[u].lower].at = up[u].at
    \/ \E t \in Tasks, k \in 1..2 : Renamed(t) /\ u = call[t].du[k]

PlaceInv ==
    /\ \A t \in Tasks : PlaceOf(t)
    /\ \A u \in Uppers : up[u].hashed => Placed(u)

NamesInv ==
    /\ RefsInv
    /\ "rename" \notin scenario.others => PlaceInv
    /\ "rename" \notin scenario.ops \cap scenario.others => ParentRefs

-----------------------------------------------------------------------------
(* Sets, choices and dentries.                                              *)

LEMMA OneMore ==
  ASSUME NEW S, NEW T, NEW x, IsFiniteSet(S), x \notin S, T = S \cup {x}
  PROVE  Cardinality(T) = Cardinality(S) + 1 /\ IsFiniteSet(T)
BY FS_AddElement

LEMMA OneLess ==
  ASSUME NEW S, NEW T, NEW x, IsFiniteSet(S), x \in S, T = S \ {x}
  PROVE  Cardinality(T) = Cardinality(S) - 1 /\ IsFiniteSet(T)
BY FS_RemoveElement

LEMMA SomeIsIn == ASSUME NEW S, S # {} PROVE Some(S) \in S
BY DEF Some

LEMMA Numbers ==
  /\ Uppers \subseteq Nat /\ Lowers \subseteq Nat /\ Inodes \subseteq Nat
  /\ NoDentry \notin Uppers /\ NoDentry \notin Lowers /\ NoInode \notin Inodes
  /\ IsFiniteSet(Uppers) /\ IsFiniteSet(Lowers) /\ IsFiniteSet(Tasks \X (1..2)) /\ IsFiniteSet(1..2)
<1>1. IsFiniteSet(Uppers) /\ IsFiniteSet(Lowers) /\ IsFiniteSet(1..2)
  <2>1. 1 \in Int /\ 2 \in Int /\ NumUpper \in Int /\ NumLower \in Int
    BY NameBounds
  <2> QED
    BY <2>1, FS_Interval, Zenon DEF Uppers, Lowers
<1>2. IsFiniteSet(Tasks \X (1..2))
  BY <1>1, TasksAreFinite, FS_Product
<1> QED
  BY <1>1, <1>2, NameBounds DEF Uppers, Lowers, Inodes, NoDentry, NoInode

LEMMA UpperFound ==
  ASSUME NEW e
  PROVE  /\ UpperAt(e) \in Uppers \cup {NoDentry}
         /\ UpperAt(e) \in Uppers => up[UpperAt(e)].hashed /\ up[UpperAt(e)].at = e
         /\ UpperAt(e) = NoDentry => \A u \in Uppers : ~(up[u].hashed /\ up[u].at = e)
<1> DEFINE S == {u \in Uppers : up[u].hashed /\ up[u].at = e}
<1>1. UpperAt(e) = IF S = {} THEN NoDentry ELSE Some(S)
  BY DEF UpperAt, SomeOr
<1>2. S # {} => Some(S) \in S
  BY SomeIsIn
<1> QED
  BY <1>1, <1>2, Numbers

LEMMA LowerFound ==
  ASSUME NEW e
  PROVE  /\ LowerAt(e) \in Lowers \cup {NoDentry}
         /\ LowerAt(e) \in Lowers => low[LowerAt(e)].hashed /\ low[LowerAt(e)].at = e
         /\ LowerAt(e) = NoDentry => \A l \in Lowers : ~(low[l].hashed /\ low[l].at = e)
<1> DEFINE S == {l \in Lowers : low[l].hashed /\ low[l].at = e}
<1>1. LowerAt(e) = IF S = {} THEN NoDentry ELSE Some(S)
  BY DEF LowerAt, SomeOr
<1>2. S # {} => Some(S) \in S
  BY SomeIsIn
<1> QED
  BY <1>1, <1>2, Numbers

LowerRecs == [at : Entries \cup {<<>>}, inode : Maybe, hashed : BOOLEAN, stale : BOOLEAN, refs : Int]
LowFunction(f) == f \in [Lowers -> LowerRecs] /\ \A l \in Lowers : f[l].at = <<>> => f[l] = FreeLower

LEMMA FreesAreFree ==
  /\ FreeLower \in LowerRecs /\ FreeLower.at = <<>> /\ FreeLower.refs = 0 /\ ~FreeLower.hashed
  /\ FreeLower.inode = NoInode
  /\ FreeUpper \in UpperDentries /\ FreeUpper.at = <<>> /\ ~FreeUpper.hashed
  /\ FreeUpper.lower = NoDentry /\ FreeUpper.inode = NoInode
BY DEF FreeLower, FreeUpper, LowerRecs, UpperDentries, Maybe

LEMMA NoEntryIsEmpty == <<>> \notin Entries
BY DEF Entries

\* Freeing dentries changes neither references nor those that have any.
LEMMA SettledKeeps ==
  ASSUME NEW f, LowFunction(f)
  PROVE  /\ LowFunction(Settled(f))
         /\ \A l \in Lowers : /\ Settled(f)[l].refs = f[l].refs
                              /\ f[l].refs # 0 => Settled(f)[l] = f[l]
                              /\ Settled(f)[l] \in {f[l], FreeLower}
<1>1. \A l \in Lowers : Settled(f)[l] = IF f[l].refs = 0 /\ ~f[l].hashed THEN FreeLower ELSE f[l]
  BY DEF Settled
<1>2. Settled(f) = [l \in Lowers |-> Settled(f)[l]]
  BY DEF Settled
<1>3. \A l \in Lowers : f[l] \in LowerRecs /\ (f[l].at = <<>> => f[l] = FreeLower)
  BY DEF LowFunction
<1>4. \A l \in Lowers : Settled(f)[l] \in LowerRecs /\ (Settled(f)[l].at = <<>> => Settled(f)[l] = FreeLower)
  BY <1>1, <1>3, FreesAreFree
<1> QED
  BY <1>1, <1>2, <1>3, <1>4, FreesAreFree DEF LowFunction

-----------------------------------------------------------------------------
(* The calls of others.                                                     *)

Alone(t) == \A s \in Tasks \ {t} : call'[s] = call[s]

\* What a step of t may do to the dentries of the other calls.
OthersUp(t) ==
    /\ \A s \in Tasks \ {t}, k \in 1..2 : call[s].du[k] \in Uppers =>
          /\ up'[call[s].du[k]].lower = up[call[s].du[k]].lower
          /\ up'[call[s].du[k]].at \in Entries
          /\ Under(s, k) => up'[call[s].du[k]].at = up[call[s].du[k]].at
          /\ k = call[s].cur /\ call[s].pc \in LookPcs =>
                up'[call[s].du[k]].inode = NoInode /\ ~up'[call[s].du[k]].hashed
    /\ \A u \in Uppers : up'[u].hashed =>
          \/ up[u].hashed /\ up'[u].at = up[u].at
          \/ up'[u].at \in Entries /\ ulock[up'[u].at[1]] = t

OthersLock(t) == \A d \in Dirs : ulock[d] \in Tasks \ {t} => ulock'[d] = ulock[d]

\* Dentries come to a call from the dcache or are new.  (A step of nobody's
\* call is one of NoOne.)
NoTaking(t) ==
    t \in Tasks => \A k \in 1..2 : LET x == call'[t].du[k]
                       IN  x \in Uppers => up[x].hashed \/ up[x] = FreeUpper \/ \E j \in 1..2 : x = call[t].du[j]

LEMMA OthersKeep ==
  ASSUME RefsInv, NEW t, Alone(t), OthersUp(t), OthersLock(t), NoTaking(t), scenario' = scenario,
         NEW s \in Tasks \ {t}
  PROVE  CallOf(s)' /\ LocksOf(s)' /\ UseOf(s)' /\ FreshOf(s)' /\ SoleOf(s)'
<1>1. call'[s] = call[s] /\ CallOf(s) /\ LocksOf(s) /\ UseOf(s) /\ FreshOf(s) /\ SoleOf(s)
      /\ call[s] \in Calls /\ s # NoOne
  BY NoOneIsNoTask DEF Alone, RefsInv, Types
<1>2. CallOf(s)'
  BY <1>1 DEF CallOf, At, Op, Found
<1>3. \A k \in 1..2 : /\ Reached(s, k)' <=> Reached(s, k)
                      /\ LockedName(s, k)' <=> LockedName(s, k)
                      /\ Under(s, k)' <=> Under(s, k)
  BY <1>1 DEF Reached, LockedName, Under, At, Op
<1>4. call[s].pc # "idle" => call[s].ent \in Entries \X Entries
  BY <1>1 DEF CallOf, At
<1>5. LocksOf(s)'
  <2>1. call[s].pc # "idle" => \A k \in 1..2 : call[s].ent[k] \in Entries /\ call[s].ent[k][1] \in Dirs
    BY <1>4 DEF Entries
  <2>2. \A d \in Dirs : ulock[d] = s => ulock'[d] = s
    BY <1>1 DEF OthersLock
  <2>3. call[s].cur \in 1..2
    BY <1>1 DEF Calls
  <2> QED
    BY <1>1, <2>1, <2>2, <2>3 DEF LocksOf, LockedName, Entry, Op, LookPcs
<1>6. UseOf(s)'
  BY <1>1, <1>3 DEF UseOf, OthersUp, Lower
<1>7. FreshOf(s)'
  <2> SUFFICES ASSUME call[s].pc \in LookPcs PROVE FreshOf(s)'
    BY <1>1 DEF FreshOf
  <2> DEFINE u == Found(s)
  <2>1. u \in Uppers /\ u = Found(s) /\ call[s].cur \in 1..2 /\ u = call[s].du[call[s].cur] /\ Found(s)' = u
        /\ Entry(s)' = Entry(s)
    BY <1>1 DEF CallOf, Calls, Found, Entry
  <2>2. up[u].at = Entry(s) /\ ~up[u].hashed /\ up[u] # FreeUpper
        /\ \A r \in Tasks, k \in 1..2 : call[r].du[k] = u => r = s /\ k = call[s].cur
    <3>1. Entry(s) \in Entries
      BY <1>4, <2>1 DEF Entry, LookPcs
    <3> QED
      BY <1>1, <3>1, FreesAreFree, NoEntryIsEmpty DEF FreshOf
  <2> HIDE DEF u
  <2>3. \A r \in Tasks, k \in 1..2 : call'[r].du[k] = u => r = s /\ k = call[s].cur
    <3> TAKE r \in Tasks, k \in 1..2
    <3>1. CASE r = t
      BY <2>1, <2>2, <3>1 DEF NoTaking
    <3>2. CASE r # t
      BY <2>1, <2>2, <3>2 DEF Alone
    <3> QED
      BY <3>1, <3>2
  <2>4. up'[u].inode = NoInode /\ ~up'[u].hashed /\ up'[u].lower = up[u].lower /\ up'[u].at = up[u].at
    <3>1. Under(s, call[s].cur)
      BY DEF Under
    <3> QED
      BY <2>1, <3>1 DEF OthersUp
  <2>5. /\ up[u].inode = NoInode /\ ~up[u].hashed /\ up[u].at = Entry(s)
        /\ up[u].lower = IF call[s].pc \in {"add", "null_inode"} THEN call[s].dl ELSE NoDentry
    BY <1>1, <2>1 DEF FreshOf
  <2> SUFFICES /\ up'[u].inode = NoInode /\ ~up'[u].hashed /\ up'[u].at = Entry(s)
               /\ up'[u].lower = IF call[s].pc \in {"add", "null_inode"} THEN call[s].dl ELSE NoDentry
               /\ \A r \in Tasks, k \in 1..2 : call'[r].du[k] = u => r = s /\ k = call[s].cur
    BY <1>1, <2>1 DEF FreshOf
  <2> QED
    BY <2>3, <2>4, <2>5
<1>8. SoleOf(s)'
  <2> SUFFICES ASSUME NEW k \in 1..2, Under(s, k)
               PROVE  /\ up'[call[s].du[k]].at = call[s].ent[k]
                      /\ \A u \in Uppers : up'[u].hashed /\ up'[u].at = call[s].ent[k] => u = call[s].du[k]
    BY <1>1, <1>3 DEF SoleOf
  <2>1. /\ up[call[s].du[k]].at = call[s].ent[k]
        /\ \A u \in Uppers : up[u].hashed /\ up[u].at = call[s].ent[k] => u = call[s].du[k]
    BY <1>1 DEF SoleOf
  <2>2. call[s].du[k] \in Uppers
    BY <1>1 DEF Under, UseOf, CallOf, Found
  <2>3. ulock[call[s].ent[k][1]] = s
    <3>1. \/ /\ call[s].pc \notin {"idle", "lock"} /\ LockedName(s, k)
             /\ Op(s) = "link" => call[s].cur = 2
             /\ k = 1 \/ Op(s) \in Pair
          \/ k = call[s].cur /\ call[s].pc \in LookPcs
      BY <1>1 DEF Under, CallOf, LockedName, Reached, Calls, OpPcs, LookPcs, Pair, At, Idle
    <3> QED
      BY <1>1, <3>1 DEF LocksOf, Under, Entry
  <2> QED
    BY <2>1, <2>2, <2>3 DEF OthersUp
<1> QED
  BY <1>2, <1>5, <1>6, <1>7, <1>8

-----------------------------------------------------------------------------
(* What is counted.                                                         *)

\* The step leaves what the call holds as it is.
SameHolds(t) ==
    t \in Tasks =>
    /\ call'[t].dir = call[t].dir
    /\ call[t].dir # <<>> =>
          /\ call'[t].op = call[t].op /\ call'[t].du = call[t].du
          /\ \A k \in 1..2 : call[t].du[k] \in Uppers =>
                up'[call[t].du[k]].lower = up[call[t].du[k]].lower

SameFinds(t) ==
    t \in Tasks =>
    /\ call'[t].pc \in {"lreval", "read"} <=> call[t].pc \in {"lreval", "read"}
    /\ call[t].pc \in {"lreval", "read"} => call'[t].dl = call[t].dl

LEMMA HeldAreReached ==
  ASSUME NEW t \in Tasks, CallOf(t), UseOf(t), call[t] \in Calls, call[t].dir # <<>>,
         NEW k \in HeldBy(Op(t))
  PROVE  Reached(t, k) /\ k \in 1..2 /\ call[t].du[k] \in Uppers /\ Lower(t, k) \in Lowers
<1>1. call[t].pc \in OpPcs /\ (Op(t) \in Pair => call[t].cur = 2) /\ Op(t) # "walk"
  BY DEF CallOf
<1>2. k \in 1..2 /\ (k = 2 => Op(t) \in Pair) /\ call[t].cur \in 1..2
  BY DEF HeldBy, Pair, Calls
<1>3. Reached(t, k)
  BY <1>1, <1>2 DEF Reached, CallOf
<1> QED
  BY <1>2, <1>3 DEF UseOf

LEMMA UsersStay ==
  ASSUME RefsInv, NEW t, Alone(t), OthersUp(t), SameHolds(t)
  PROVE  (\A l \in Lowers : Users(l)' = Users(l)) /\ (\A d \in Dirs : Takers(d)' = Takers(d))
<1>1. \A s \in Tasks : /\ call'[s].dir = call[s].dir
                       /\ call[s].dir # <<>> => call'[s].op = call[s].op /\ call'[s].du = call[s].du
  BY DEF Alone, SameHolds
<1>2. ASSUME NEW s \in Tasks, call[s].dir # <<>>, NEW k \in HeldBy(Op(s))
      PROVE  Lower(s, k)' = Lower(s, k)
  <2>1. k \in 1..2 /\ call[s].du[k] \in Uppers
    BY <1>2, HeldAreReached DEF RefsInv, Types
  <2>2. up'[call[s].du[k]].lower = up[call[s].du[k]].lower
    BY <1>2, <2>1 DEF OthersUp, SameHolds
  <2> QED
    BY <1>1, <1>2, <2>2 DEF Lower
<1>3. \A l \in Lowers : Users(l)' = Users(l)
  <2> TAKE l \in Lowers
  <2>1. \A h \in Tasks \X (1..2) : h[1] \in Tasks
    OBVIOUS
  <2>2. \A h \in Tasks \X (1..2) : h \in Users(l)' <=> h \in Users(l)
    BY <1>1, <1>2, <2>1 DEF Users, Op
  <2> QED
    BY <2>2 DEF Users
<1>4. \A d \in Dirs : Takers(d)' = Takers(d)
  BY <1>1 DEF Takers
<1> QED
  BY <1>3, <1>4

LEMMA FindersStay ==
  ASSUME NEW t, Alone(t), SameFinds(t)
  PROVE  \A l \in Lowers : Finders(l)' = Finders(l)
BY DEF Alone, SameFinds, Finders

LEMMA CountsAreNats ==
  ASSUME NEW l
  PROVE  /\ IsFiniteSet(Pointers(l)) /\ IsFiniteSet(Finders(l)) /\ IsFiniteSet(Users(l))
         /\ Cardinality(Pointers(l)) \in Nat /\ Cardinality(Finders(l)) \in Nat
         /\ Cardinality(Users(l)) \in Nat /\ IsFiniteSet(Pointing) /\ Cardinality(Pointing) \in Nat
<1>1. /\ Pointers(l) \subseteq Uppers /\ Finders(l) \subseteq Tasks /\ Users(l) \subseteq Tasks \X (1..2)
      /\ Pointing \subseteq Uppers
  BY DEF Pointers, Finders, Users, Pointing
<1>2. IsFiniteSet(Pointers(l)) /\ IsFiniteSet(Finders(l)) /\ IsFiniteSet(Users(l)) /\ IsFiniteSet(Pointing)
  BY <1>1, Numbers, TasksAreFinite, FS_Subset
<1> QED
  BY <1>2, FS_CardinalityType

LEMMA EmptyIsNone ==
  ASSUME NEW S, IsFiniteSet(S), NEW x \in S PROVE Cardinality(S) # 0
BY FS_EmptySet

\* A lower dentry that is pointed to, found or held is not free.
LEMMA ReferredIsKept ==
  ASSUME RefsInv, NEW l \in Lowers
  PROVE  /\ (\E u \in Uppers : up[u].lower = l) => low[l].refs # 0
         /\ (\E t \in Tasks : call[t].pc \in {"lreval", "read"} /\ call[t].dl = l) => low[l].refs # 0
         /\ low[l].refs # 0 => low[l].at \in Entries
         /\ low[l].refs >= 0
<1>1. low[l].refs = Cardinality(Pointers(l)) + Cardinality(Finders(l)) + Cardinality(Users(l))
  BY DEF RefsInv, LowerRefs
<1>2. (\E u \in Uppers : up[u].lower = l) => Cardinality(Pointers(l)) # 0
  BY EmptyIsNone, CountsAreNats DEF Pointers
<1>3. (\E t \in Tasks : call[t].pc \in {"lreval", "read"} /\ call[t].dl = l) => Cardinality(Finders(l)) # 0
  BY EmptyIsNone, CountsAreNats DEF Finders
<1>4. low[l].refs # 0 => low[l].at \in Entries
  BY FreesAreFree DEF RefsInv, LowerDcache, Types
<1> QED
  BY <1>1, <1>2, <1>3, <1>4, CountsAreNats

-----------------------------------------------------------------------------
(* Steps of a call that change nothing but the call.                        *)

\* The call goes on with the dentries it has.
GoesOn(t) ==
    /\ Alone(t)
    /\ call'[t].ent = call[t].ent /\ call'[t].op = call[t].op /\ call'[t].du = call[t].du
    /\ call'[t].cur = call[t].cur /\ call'[t].dl = call[t].dl /\ call'[t].dir = call[t].dir
    /\ call[t].pc \notin {"idle", "lock"} /\ call'[t].pc \notin {"idle", "lock"}
    /\ \A k \in 1..2 : Reached(t, k)' => Reached(t, k)
    /\ call'[t].pc \in LookPcs <=> call[t].pc \in LookPcs
    /\ call'[t].pc \in {"add", "null_inode"} <=> call[t].pc \in {"add", "null_inode"}
    /\ call'[t].pc \in {"lreval", "read"} <=> call[t].pc \in {"lreval", "read"}

LEMMA QuietKeeps ==
  ASSUME RefsInv, NEW t \in Tasks, GoesOn(t), UNCHANGED <<scenario, up, low, mntRefs, ulock>>,
         Types', CallOf(t)'
  PROVE  RefsInv' /\ (\A d \in Dirs : Takers(d)' = Takers(d))
<1>1. /\ Alone(t) /\ OthersLock(t) /\ SameHolds(t) /\ SameFinds(t)
      /\ CallOf(t) /\ LocksOf(t) /\ UseOf(t) /\ FreshOf(t) /\ SoleOf(t) /\ call[t] \in Calls
  BY DEF GoesOn, OthersLock, SameHolds, SameFinds, RefsInv, Types
<1>2. NoTaking(t)
  BY DEF GoesOn, NoTaking
<1>3. OthersUp(t)
  BY DEF OthersUp, RefsInv, UseOf, FreshOf, UpperDcache, Found
<1>4. \A k \in 1..2 : /\ LockedName(t, k)' <=> LockedName(t, k)
                      /\ Under(t, k)' => Under(t, k)
  BY DEF GoesOn, LockedName, Under, Op
<1>5. LocksOf(t)'
  BY <1>1 DEF GoesOn, LocksOf, LockedName, Entry, Op
<1>6. UseOf(t)'
  BY <1>1 DEF GoesOn, UseOf, Lower
<1>7. FreshOf(t)'
  <2>1. Found(t)' = Found(t) /\ Entry(t)' = Entry(t)
    BY DEF GoesOn, Found, Entry
  <2>2. \A s \in Tasks : call'[s].du = call[s].du
    BY DEF GoesOn, Alone
  <2> QED
    BY <1>1, <2>1, <2>2 DEF GoesOn, FreshOf
<1>8. SoleOf(t)'
  BY <1>1, <1>4 DEF GoesOn, SoleOf
<1>9. \A s \in Tasks : CallOf(s)' /\ LocksOf(s)' /\ UseOf(s)' /\ FreshOf(s)' /\ SoleOf(s)'
  BY <1>1, <1>2, <1>3, <1>5, <1>6, <1>7, <1>8, OthersKeep
<1>10. LowerRefs' /\ MountRefs' /\ UpperDcache' /\ LowerDcache'
  <2>1. \A l \in Lowers : Pointers(l)' = Pointers(l) /\ Finders(l)' = Finders(l) /\ Users(l)' = Users(l)
    BY <1>1, <1>3, UsersStay, FindersStay DEF Pointers
  <2> QED
    BY <2>1 DEF RefsInv, LowerRefs, MountRefs, Pointing, UpperDcache, LowerDcache
<1> QED
  BY <1>1, <1>3, <1>9, <1>10, UsersStay DEF RefsInv

QuietStep(t) ==
    \/ RevalValid(t) \/ RevalError(t) \/ LookupLowerValid(t) \/ AddOops(t)
    \/ WalkEnds(t) \/ (LinkSource(t) /\ ~Positive(t, 1)) \/ Refused(t)
    \/ LockParents(t) \/ VfsOops(t) \/ VfsFails(t) \/ FinishRename(t)

\* The call has the same dentries and parents.
SameCall(t) ==
    /\ Alone(t) /\ call' \in [Tasks -> Calls]
    /\ call'[t].ent = call[t].ent /\ call'[t].op = call[t].op /\ call'[t].du = call[t].du
    /\ call'[t].cur = call[t].cur /\ call'[t].dl = call[t].dl /\ call'[t].dir = call[t].dir

LEMMA PcStep ==
  ASSUME call \in [Tasks -> Calls], NEW t \in Tasks, NEW p \in Pcs, call' = [call EXCEPT ![t].pc = p]
  PROVE  SameCall(t) /\ call'[t].pc = p /\ call'[t].rc = call[t].rc /\ call'[t].li = call[t].li
<1>1. call'[t] = [call[t] EXCEPT !.pc = p] /\ call[t] \in Calls /\ Alone(t)
  BY DEF Alone
<1>2. call'[t] \in Calls
  BY <1>1 DEF Calls
<1> QED
  BY <1>1, <1>2 DEF SameCall, Calls

LEMMA PcRcStep ==
  ASSUME call \in [Tasks -> Calls], NEW t \in Tasks, NEW p \in Pcs, NEW b \in BOOLEAN,
         call' = [call EXCEPT ![t].pc = p, ![t].rc = b]
  PROVE  SameCall(t) /\ call'[t].pc = p /\ call'[t].rc = b /\ call'[t].li = call[t].li
<1>1. call'[t] = [call[t] EXCEPT !.pc = p, !.rc = b] /\ call[t] \in Calls /\ Alone(t)
  BY DEF Alone
<1>2. call'[t] \in Calls
  BY <1>1 DEF Calls
<1> QED
  BY <1>1, <1>2 DEF SameCall, Calls

LEMMA PcLiStep ==
  ASSUME call \in [Tasks -> Calls], NEW t \in Tasks, NEW p \in Pcs, NEW i \in Maybe,
         call' = [call EXCEPT ![t].pc = p, ![t].li = i]
  PROVE  SameCall(t) /\ call'[t].pc = p /\ call'[t].rc = call[t].rc /\ call'[t].li = i
<1>1. call'[t] = [call[t] EXCEPT !.pc = p, !.li = i] /\ call[t] \in Calls /\ Alone(t)
  BY DEF Alone
<1>2. call'[t] \in Calls
  BY <1>1 DEF Calls
<1> QED
  BY <1>1, <1>2 DEF SameCall, Calls

\* How the program counter changes in these.
QuietCall(t) ==
    LET from == call[t].pc
        there == call'[t].pc
        same == call'[t].rc = call[t].rc
    IN  /\ SameCall(t)
        /\ UNCHANGED <<scenario, content, seen, low, up, mntRefs, dirRefs, ulock>>
        /\ \/ from = "reval" /\ there = "found" /\ same
           \/ from = "lreval" /\ there = "read" /\ same
           \/ from = "add" /\ there = "null_inode" /\ same
           \/ from = "plock" /\ there = "vfs" /\ same
           \/ from = "vfs" /\ there = "misplaced" /\ same /\ Misplaced(t)
           \/ from = "vfs" /\ there = "finish" /\ ~call'[t].rc
           \/ from = "finish" /\ there = "put" /\ same /\ Op(t) = "rename"
           \/ from = "found" /\ there = "return" /\ Op(t) = "walk"
           \/ from \in {"reval", "found"} /\ there = "return" /\ ~call'[t].rc

LEMMA QuietCalls ==
  ASSUME Types, NEW t \in Tasks, CallOf(t), QuietStep(t)
  PROVE  QuietCall(t) /\ llock' \in [Dirs -> Tasks \cup {NoOne}]
<1> USE DEF Goto, At, below, locks
<1>0. /\ call \in [Tasks -> Calls] /\ llock \in [Dirs -> Tasks \cup {NoOne}]
      /\ up \in [Uppers -> UpperDentries] /\ call[t] \in Calls
      /\ {"found", "return", "read", "null_inode", "vfs", "misplaced", "finish", "put"} \subseteq Pcs
  BY DEF Types, Pcs
<1>1. CASE RevalValid(t)
  BY <1>0, <1>1, PcStep DEF RevalValid, QuietCall
<1>2. CASE RevalError(t)
  BY <1>0, <1>2, PcRcStep DEF RevalError, QuietCall
<1>3. CASE LookupLowerValid(t)
  <2>1. call'[t] = [call[t] EXCEPT !.pc = "read", !.dl = call[t].dl] /\ Alone(t)
        /\ call' = [call EXCEPT ![t] = call'[t]]
    BY <1>0, <1>3 DEF LookupLowerValid, LookupGoesOn, Alone
  <2>2. call'[t] = [call[t] EXCEPT !.pc = "read"]
    BY <1>0, <2>1 DEF Calls
  <2>3. call' = [call EXCEPT ![t].pc = "read"]
    BY <2>1, <2>2
  <2> QED
    BY <1>0, <1>3, <2>3, PcStep DEF LookupLowerValid, LookupGoesOn, QuietCall
<1>4. CASE AddOops(t)
  BY <1>0, <1>4, PcStep DEF AddOops, QuietCall
<1>5. CASE WalkEnds(t)
  <2>1. up[Found(t)].inode \in Maybe
    BY <1>0, <1>5 DEF WalkEnds, CallOf, UpperDentries
  <2> QED
    BY <1>0, <1>5, <2>1, PcLiStep DEF WalkEnds, QuietCall
<1>6. CASE LinkSource(t) /\ ~Positive(t, 1)
  BY <1>0, <1>6, PcRcStep DEF LinkSource, QuietCall
<1>7. CASE Refused(t)
  BY <1>0, <1>7, PcRcStep DEF Refused, LastFound, QuietCall
<1>8. CASE LockParents(t)
  BY <1>0, <1>8, PcStep DEF LockParents, Locked, QuietCall
<1>9. CASE VfsOops(t)
  BY <1>0, <1>9, PcStep DEF VfsOops, QuietCall
<1>10. CASE VfsFails(t)
  BY <1>0, <1>10, PcRcStep DEF VfsFails, QuietCall
<1>11. CASE FinishRename(t)
  BY <1>0, <1>11, PcStep DEF FinishRename, Unlocked, QuietCall
<1> QED
  BY <1>1, <1>2, <1>3, <1>4, <1>5, <1>6, <1>7, <1>8, <1>9, <1>10, <1>11 DEF QuietStep

LEMMA QuietsKeep ==
  ASSUME RefsInv, NEW t \in Tasks, QuietStep(t)
  PROVE  /\ RefsInv' /\ QuietCall(t) /\ GoesOn(t)
         /\ (\A d \in Dirs : Takers(d)' = Takers(d) /\ dirRefs'[d] = dirRefs[d])
<1>1. Types /\ CallOf(t) /\ call[t] \in Calls
  BY DEF RefsInv, Types
<1>2. QuietCall(t) /\ llock' \in [Dirs -> Tasks \cup {NoOne}]
  BY <1>1, QuietCalls
<1>3. Types'
  BY <1>1, <1>2 DEF Types, QuietCall, SameCall
<1>4. GoesOn(t)
  BY <1>2 DEF QuietCall, SameCall, GoesOn, Reached, LookPcs, OpPcs, At
<1>5. CallOf(t)'
  BY <1>1, <1>2 DEF QuietCall, SameCall, CallOf, At, Op, LookPcs, OpPcs, Found
<1> QED
  BY <1>1, <1>2, <1>3, <1>4, <1>5, QuietKeeps DEF QuietCall

-----------------------------------------------------------------------------
(* Names found in the dcache.                                               *)

\* The call goes on with u as the k-th dentry.
NameCall(t, p, k, u) ==
    /\ Alone(t) /\ call' \in [Tasks -> Calls]
    /\ call'[t].ent = call[t].ent /\ call'[t].op = call[t].op /\ call'[t].dl = call[t].dl
    /\ call'[t].li = call[t].li /\ call'[t].dir = call[t].dir /\ call'[t].rc = call[t].rc
    /\ call'[t].pc = p /\ call'[t].cur = k /\ call'[t].du[k] = u
    /\ \A j \in (1..2) \ {k} : call'[t].du[j] = call[t].du[j]

LEMMA NameStep ==
  ASSUME call \in [Tasks -> Calls], NEW t \in Tasks, NEW p \in Pcs, NEW k \in 1..2,
         NEW u \in Uppers \cup {NoDentry},
         call' = [call EXCEPT ![t].pc = p, ![t].cur = k, ![t].du[k] = u]
  PROVE  NameCall(t, p, k, u)
<1>1. call'[t] = [call[t] EXCEPT !.pc = p, !.cur = k, !.du[k] = u] /\ call[t] \in Calls /\ Alone(t)
  BY DEF Alone
<1>2. [call[t].du EXCEPT ![k] = u] \in [1..2 -> Uppers \cup {NoDentry}]
  BY <1>1 DEF Calls
<1>3. call'[t] = [call[t] EXCEPT !.pc = p, !.cur = k, !.du = [call[t].du EXCEPT ![k] = u]]
  BY <1>1 DEF Calls
<1>4. call'[t] \in Calls
  BY <1>1, <1>2, <1>3 DEF Calls
<1> QED
  BY <1>1, <1>3, <1>4 DEF NameCall, Calls

LEMMA StaysKeep ==
  ASSUME RefsInv, NEW t \in Tasks, Alone(t), UNCHANGED <<scenario, up, low, mntRefs>>,
         OthersLock(t), NoTaking(t), SameHolds(t), SameFinds(t), Types',
         CallOf(t)', LocksOf(t)', UseOf(t)', FreshOf(t)', SoleOf(t)'
  PROVE  RefsInv' /\ (\A d \in Dirs : Takers(d)' = Takers(d))
<1>1. OthersUp(t)
  BY DEF OthersUp, RefsInv, UseOf, FreshOf, UpperDcache, Found
<1>2. \A s \in Tasks : CallOf(s)' /\ LocksOf(s)' /\ UseOf(s)' /\ FreshOf(s)' /\ SoleOf(s)'
  BY <1>1, OthersKeep
<1>3. LowerRefs' /\ MountRefs' /\ UpperDcache' /\ LowerDcache'
  <2>1. \A l \in Lowers : Pointers(l)' = Pointers(l) /\ Finders(l)' = Finders(l) /\ Users(l)' = Users(l)
    BY <1>1, UsersStay, FindersStay DEF Pointers
  <2> QED
    BY <2>1 DEF RefsInv, LowerRefs, MountRefs, Pointing, UpperDcache, LowerDcache
<1> QED
  BY <1>1, <1>2, <1>3, UsersStay DEF RefsInv

LEMMA EntriesInUse == Types => scenario.entries \subseteq Entries /\ scenario.ops \subseteq OpNames
BY NameScenariosAreKnown DEF Types, ScenarioSet

BegunCall(t, p, o, e, f, x) ==
    /\ Alone(t) /\ call' \in [Tasks -> Calls]
    /\ call'[t].pc = p /\ call'[t].op = o /\ call'[t].ent = <<e, f>>
    /\ call'[t].du[1] = x /\ call'[t].du[2] = NoDentry /\ call'[t].rc
    /\ call'[t].cur = 1 /\ call'[t].dl = NoDentry /\ call'[t].dir = <<>>

LEMMA BeginCall ==
  ASSUME call \in [Tasks -> Calls], NEW t \in Tasks, call[t] = Idle, NEW p \in Pcs, NEW o \in OpNames,
         NEW e \in Entries, NEW f \in Entries, NEW x \in Uppers \cup {NoDentry},
         call' = [call EXCEPT ![t].pc = p, ![t].op = o, ![t].ent = <<e, f>>, ![t].du[1] = x]
  PROVE  BegunCall(t, p, o, e, f, x)
<1>1. /\ call'[t] = [call[t] EXCEPT !.pc = p, !.op = o, !.ent = <<e, f>>, !.du[1] = x]
      /\ call[t] \in Calls /\ Alone(t)
  BY DEF Alone
<1>2. /\ call[t].du = <<NoDentry, NoDentry>> /\ call[t].cur = 1 /\ call[t].dl = NoDentry
      /\ call[t].dir = <<>> /\ call[t].du[2] = NoDentry /\ call[t].rc
  BY DEF Idle
<1>3. [call[t].du EXCEPT ![1] = x] \in [1..2 -> Uppers \cup {NoDentry}]
  BY <1>1 DEF Calls
<1>4. /\ call'[t] = [call[t] EXCEPT !.pc = p, !.op = o, !.ent = <<e, f>>,
                                  !.du = [call[t].du EXCEPT ![1] = x]]
      /\ <<e, f>> \in Entries \X Entries
  BY <1>1 DEF Calls
<1>5. call'[t] \in Calls
  <2> DEFINE g == [call[t].du EXCEPT ![1] = x]
  <2>1. call[t] = [pc |-> call[t].pc, op |-> call[t].op, ent |-> call[t].ent, du |-> call[t].du,
                   cur |-> call[t].cur, dl |-> call[t].dl, li |-> call[t].li, dir |-> call[t].dir,
                   rc |-> call[t].rc]
    BY <1>1 DEF Calls
  <2>2. g \in [1..2 -> Uppers \cup {NoDentry}]
    BY <1>3
  <2> HIDE DEF g
  <2>3. call'[t] = [pc |-> p, op |-> o, ent |-> <<e, f>>, du |-> g, cur |-> call[t].cur,
                    dl |-> call[t].dl, li |-> call[t].li, dir |-> call[t].dir, rc |-> call[t].rc]
    BY <1>4, <2>1 DEF g
  <2> QED
    BY <1>1, <1>4, <2>2, <2>3 DEF Calls
<1>6. [call[t].du EXCEPT ![1] = x][1] = x /\ [call[t].du EXCEPT ![1] = x][2] = NoDentry
  BY <1>1, <1>2 DEF Calls
<1>7. /\ call'[t].pc = p /\ call'[t].op = o /\ call'[t].ent = <<e, f>>
      /\ call'[t].du = [call[t].du EXCEPT ![1] = x]
      /\ call'[t].cur = call[t].cur /\ call'[t].dl = call[t].dl /\ call'[t].dir = call[t].dir
      /\ call'[t].rc = call[t].rc
  BY <1>1, <1>4 DEF Calls
<1>8. call' \in [Tasks -> Calls]
  BY <1>5
<1> QED
  BY <1>1, <1>2, <1>6, <1>7, <1>8 DEF BegunCall

LEMMA BeginKeeps ==
  ASSUME RefsInv, NEW t \in Tasks, NEW o \in OpNames, NEW e \in scenario.entries,
         NEW f \in scenario.entries, Begin(t, o, e, f)
  PROVE  /\ RefsInv' /\ (\A d \in Dirs : Takers(d)' = Takers(d)) /\ call[t] = Idle
         /\ \E p \in {"reval", "lock"} : /\ p = "reval" => o \in {"walk", "link"}
                                         /\ \E x : BegunCall(t, p, o, e, f, x)
<1> DEFINE path == o \in {"walk", "link"}
           u == UpperAt(e)
           x == IF path THEN u ELSE NoDentry
           p == IF path /\ u # NoDentry THEN "reval" ELSE "lock"
<1>0. /\ Types /\ UpperDcache /\ call[t] = Idle /\ e \in Entries /\ f \in Entries /\ o \in scenario.ops
      /\ o \in Pair <=> e # f
  BY EntriesInUse DEF Begin, RefsInv, CallOf, Pair
<1>1. x \in Uppers \cup {NoDentry} /\ (x \in Uppers => up[x].hashed /\ up[x].at = e) /\ p \in Pcs
      /\ p \in {"reval", "lock"} /\ (p = "reval" => path /\ x \in Uppers)
  BY UpperFound, Numbers DEF Pcs
<1> HIDE DEF x, p
<1>2. call' = [call EXCEPT ![t].pc = p, ![t].op = o, ![t].ent = <<e, f>>, ![t].du[1] = x]
  <2>1. call[t].du[1] = NoDentry
    BY <1>0 DEF Idle
  <2> QED
    BY <2>1 DEF Begin, x, p
<1>3. BegunCall(t, p, o, e, f, x)
  <2>1. /\ call \in [Tasks -> Calls] /\ call[t] = Idle /\ e \in Entries /\ f \in Entries
        /\ p \in Pcs /\ x \in Uppers \cup {NoDentry}
    BY <1>0, <1>1 DEF Types
  <2> QED
    BY <1>2, <2>1, BeginCall
<1>4. /\ Alone(t) /\ call' \in [Tasks -> Calls]
      /\ call'[t].pc = p /\ call'[t].op = o /\ call'[t].ent = <<e, f>>
      /\ call'[t].du[1] = x /\ call'[t].du[2] = NoDentry
      /\ call'[t].cur = 1 /\ call'[t].dl = NoDentry /\ call'[t].dir = <<>>
  BY <1>3 DEF BegunCall
<1>5. Types'
  <2>4. Views(e) \subseteq Maybe
    <3>1. content[e] \in Maybe /\ \A w \in Uppers : up[w].inode \in Maybe
      BY <1>0 DEF Types, UpperDentries
    <3>2. ASSUME NEW s \in Tasks, call[s].rc, Op(s) = "rename",
                 call[s].pc \in {"finish", "put", "return"}, NEW k \in 1..2
          PROVE  up[call[s].du[k]].inode \in Maybe
      <4>1. call[s].du[k] \in Uppers
        <5>1. CallOf(s) /\ UseOf(s) /\ call[s] \in Calls
          BY DEF RefsInv, Types
        <5>2. Reached(s, k)
          BY <3>2, <5>1 DEF CallOf, Reached, OpPcs, At, Pair, Calls
        <5> QED
          BY <5>1, <5>2 DEF UseOf
      <4> QED
        BY <3>1, <4>1
    <3> QED
      BY <3>1, <3>2 DEF Views
  <2>5. seen' \in [Tasks -> SUBSET Maybe]
    BY <1>0, <2>4 DEF Begin, Types
  <2> QED
    BY <1>0, <1>4, <2>5 DEF Types, Begin, locks
<1>6. CallOf(t)'
  BY <1>0, <1>1, <1>4, Numbers DEF CallOf, At, Op, Found, LookPcs, OpPcs, Begin
<1>7. LocksOf(t)'
  BY <1>1, <1>4 DEF LocksOf, At, Op, LookPcs, LockedName
<1>8. UseOf(t)'
  <2>1. up' = up /\ (x \in Uppers => up[x].lower \in Lowers)
    BY <1>0, <1>1 DEF Begin, UpperDcache
  <2> QED
    BY <1>0, <1>1, <1>4, <2>1, Numbers DEF UseOf, Reached, Lower, Begin, OpPcs, At
<1>9. FreshOf(t)' /\ SoleOf(t)'
  BY <1>1, <1>4 DEF FreshOf, SoleOf, Under, LockedName, Reached, LookPcs, OpPcs, At, Op
<1>10. NoTaking(t) /\ SameHolds(t) /\ SameFinds(t) /\ OthersLock(t)
  <2>1. p \notin {"lreval", "read"} /\ call[t].pc \notin {"lreval", "read"} /\ call[t].dir = <<>>
    BY <1>0, <1>1 DEF Idle
  <2>2. NoTaking(t)
    BY <1>1, <1>4, Numbers DEF NoTaking
  <2> QED
    BY <1>0, <1>4, <2>1, <2>2 DEF SameHolds, SameFinds, OthersLock, Begin, locks
<1>11. RefsInv' /\ (\A d \in Dirs : Takers(d)' = Takers(d))
  BY <1>4, <1>5, <1>6, <1>7, <1>8, <1>9, <1>10, StaysKeep DEF Begin
<1> QED
  BY <1>0, <1>1, <1>3, <1>11

\* The directories of the names that a call works on, once it has locked them.
NamesLocked(t, f) ==
    \A k \in 1..2 : LockedName(t, k) /\ (k = 1 \/ Op(t) \in Pair) => f[call[t].ent[k][1]] = t

LEMMA LockedDirs ==
  ASSUME NEW t \in Tasks, CallOf(t), call[t] \in Calls, ~At(t, "idle"), ~Walking(t),
         NEW f, \A d \in UpperDirs(t) : f[d] = t
  PROVE  NamesLocked(t, f)
<1>1. call[t].cur \in 1..2 /\ (call[t].cur = 2 => Op(t) \in Pair) /\ Op(t) # "walk"
      /\ (Op(t) = "link" => call[t].cur = 2) /\ call[t].ent \in Entries \X Entries
  BY DEF CallOf, Calls, Walking
<1>2. CASE Op(t) = "rename"
  BY <1>2 DEF UpperDirs, NamesLocked
<1>3. CASE Op(t) # "rename"
  BY <1>1, <1>3 DEF UpperDirs, NamesLocked, LockedName, Entry, Pair
<1> QED
  BY <1>2, <1>3

LEMMA FindKeeps ==
  ASSUME RefsInv, NEW t \in Tasks, NEW k \in 1..2, NEW u \in Uppers,
         \/ At(t, "lock") /\ k = call[t].cur
         \/ At(t, "found") /\ Op(t) = "rename" /\ call[t].cur = 1 /\ k = 2,
         u = UpperAt(call[t].ent[k]), NameCall(t, "reval", k, u),
         UNCHANGED <<scenario, content, seen, up, low, mntRefs, dirRefs, llock>>,
         OthersLock(t), ulock' \in [Dirs -> Tasks \cup {NoOne}], Walking(t) \/ NamesLocked(t, ulock')
  PROVE  RefsInv' /\ (\A d \in Dirs : Takers(d)' = Takers(d))
<1>0. /\ Types /\ UpperDcache /\ call[t] \in Calls /\ CallOf(t) /\ LocksOf(t) /\ UseOf(t) /\ SoleOf(t)
      /\ call[t].cur \in 1..2
  BY DEF RefsInv, Types, Calls
<1>1. up[u].hashed /\ up[u].at = call[t].ent[k] /\ up[u].lower \in Lowers
      /\ \A w \in Uppers : up[w].hashed /\ up[w].at = call[t].ent[k] => w = u
  BY <1>0, UpperFound DEF UpperDcache
<1>2. call[t].ent \in Entries \X Entries /\ call[t].ent[k] \in Entries /\ call[t].dir = <<>>
      /\ (k = 2 => Op(t) \in Pair)
  <2>1. call[t].pc \in {"lock", "found"} /\ (k = 2 => call[t].cur = 2 \/ Op(t) = "rename")
    BY <1>0 DEF At
  <2>2. call[t].ent \in Entries \X Entries /\ call[t].dir = <<>>
    BY <1>0, <2>1 DEF CallOf, At, OpPcs
  <2>3. call[t].ent[1] \in Entries /\ call[t].ent[2] \in Entries
    BY <2>2
  <2> QED
    BY <1>0, <2>1, <2>2, <2>3 DEF CallOf, Pair
<1>3. Types'
  BY <1>0 DEF Types, NameCall
<1>4. CallOf(t)'
  BY <1>0, <1>2 DEF CallOf, At, Op, Found, LookPcs, OpPcs, NameCall, Pair
<1>5. LocksOf(t)'
  BY <1>0, <1>2 DEF LocksOf, Op, LookPcs, LockedName, NameCall, NamesLocked, Walking, Pair
<1>6. UseOf(t)'
  <2>1. \A j \in 1..2 : j # k /\ Reached(t, j)' => Reached(t, j)
    BY <1>0 DEF Reached, NameCall, At, OpPcs
  <2> QED
    BY <1>0, <1>1, <1>2, <2>1 DEF UseOf, Lower, NameCall
<1>7. FreshOf(t)'
  BY DEF FreshOf, NameCall, LookPcs
<1>8. SoleOf(t)'
  <2> SUFFICES ASSUME NEW j \in 1..2, Under(t, j)'
               PROVE  /\ up[call'[t].du[j]].at = call[t].ent[j]
                      /\ \A w \in Uppers : up[w].hashed /\ up[w].at = call[t].ent[j] => w = call'[t].du[j]
    BY DEF SoleOf, NameCall
  <2>1. CASE j = k
    BY <1>1, <2>1 DEF NameCall
  <2>2. CASE j # k
    <3>1. Under(t, j)
      BY <1>0, <2>2 DEF Under, Reached, LockedName, NameCall, At, Op, OpPcs, LookPcs, CallOf, Pair
    <3> QED
      BY <1>0, <2>2, <3>1 DEF SoleOf, NameCall
  <2> QED
    BY <2>1, <2>2
<1>9. NoTaking(t) /\ SameHolds(t) /\ SameFinds(t)
  BY <1>1, <1>2 DEF NoTaking, SameHolds, SameFinds, NameCall, At
<1> QED
  BY <1>3, <1>4, <1>5, <1>6, <1>7, <1>8, <1>9, StaysKeep DEF NameCall

LEMMA LinkGoesOn ==
  ASSUME RefsInv, NEW t \in Tasks, LinkSource(t), Positive(t, 1)
  PROVE  RefsInv' /\ (\A d \in Dirs : Takers(d)' = Takers(d)) /\ NameCall(t, "lock", 2, call[t].du[2])
<1>0. /\ Types /\ call[t] \in Calls /\ CallOf(t) /\ LocksOf(t) /\ UseOf(t) /\ SoleOf(t)
      /\ call[t].du[2] \in Uppers \cup {NoDentry} /\ "lock" \in Pcs
  BY DEF RefsInv, Types, Calls, Pcs
<1>1. call' = [call EXCEPT ![t].pc = "lock", ![t].cur = 2, ![t].du[2] = call[t].du[2]]
  <2>1. [call[t].du EXCEPT ![2] = call[t].du[2]] = call[t].du
    BY <1>0 DEF Calls
  <2>2. [call[t] EXCEPT !.pc = "lock", !.cur = 2, !.du[2] = call[t].du[2]] = [call[t] EXCEPT !.pc = "lock", !.cur = 2]
    BY <1>0, <2>1 DEF Calls
  <2> QED
    BY <2>2 DEF LinkSource
<1>2. NameCall(t, "lock", 2, call[t].du[2])
  <2>1. call \in [Tasks -> Calls] /\ 2 \in 1..2
    BY <1>0 DEF Types
  <2> QED
    BY <1>0, <1>1, <2>1, NameStep
<1>3. call[t].pc = "found" /\ Op(t) = "link" /\ call[t].cur = 1 /\ call[t].dir = <<>>
      /\ call[t].dl \notin Lowers /\ call'[t].du[1] = call[t].du[1]
  BY <1>0, <1>2 DEF LinkSource, At, CallOf, OpPcs, NameCall
<1>4. Types'
  <2>1. UNCHANGED <<scenario, content, seen, low, up, mntRefs, dirRefs, ulock, llock>>
    BY DEF LinkSource, below, locks
  <2>2. call' \in [Tasks -> Calls]
    BY <1>2 DEF NameCall
  <2> QED
    BY <1>0, <2>1, <2>2 DEF Types
<1>5. CallOf(t)'
  <2>1. scenario' = scenario /\ Op(t) \in scenario.ops /\ call[t].ent \in Entries \X Entries
        /\ call[t].ent[1] # call[t].ent[2]
    BY <1>0, <1>3 DEF CallOf, At, Op, Pair, LinkSource, below
  <2> QED
    BY <1>0, <1>2, <1>3, <2>1 DEF CallOf, At, Op, LookPcs, OpPcs, NameCall, Pair
<1>6. LocksOf(t)' /\ FreshOf(t)' /\ SoleOf(t)'
  BY <1>2, <1>3 DEF LocksOf, FreshOf, SoleOf, Under, Reached, LockedName, LookPcs, OpPcs, NameCall, Op, At
<1>7. UseOf(t)'
  <2>1. Reached(t, 1) /\ ~Reached(t, 2)'
    BY <1>2, <1>3 DEF Reached, NameCall, At, OpPcs
  <2> QED
    BY <1>0, <1>2, <1>3, <2>1 DEF UseOf, Lower, NameCall, LinkSource
<1>8. NoTaking(t) /\ SameHolds(t) /\ SameFinds(t) /\ OthersLock(t)
  BY <1>2, <1>3 DEF NoTaking, SameHolds, SameFinds, OthersLock, NameCall, LinkSource, locks
<1> QED
  BY <1>2, <1>4, <1>5, <1>6, <1>7, <1>8, StaysKeep DEF NameCall, LinkSource, below

-----------------------------------------------------------------------------
(* Steps of a call that leave the lofs dentries alone.                      *)

\* The call goes on, or ends, with the dentries it has.
Steps(t) ==
    /\ Alone(t)
    /\ call'[t].ent = call[t].ent /\ call'[t].op = call[t].op
    /\ call'[t].du = call[t].du /\ call'[t].cur = call[t].cur
    /\ call[t].pc \notin {"idle", "lock"} /\ call'[t].pc \notin {"idle", "lock"}
    /\ \A k \in 1..2 : Reached(t, k)' => Reached(t, k)
    /\ call'[t].pc \in LookPcs =>
          /\ call[t].pc \in LookPcs
          /\ call'[t].pc \in {"add", "null_inode"} <=> call[t].pc \in {"add", "null_inode"}
          /\ call'[t].pc \in {"add", "null_inode"} => call'[t].dl = call[t].dl

LEMMA StepsKeep ==
  ASSUME RefsInv, NEW t \in Tasks, Steps(t), UNCHANGED <<scenario, up>>, OthersLock(t),
         LocksOf(t)', CallOf(t)'
  PROVE  /\ \A s \in Tasks : CallOf(s)' /\ LocksOf(s)' /\ UseOf(s)' /\ FreshOf(s)' /\ SoleOf(s)'
         /\ UpperDcache' /\ OthersUp(t)
         /\ (\A l \in Lowers : Pointers(l)' = Pointers(l)) /\ Pointing' = Pointing
<1>1. /\ Alone(t) /\ CallOf(t) /\ LocksOf(t) /\ UseOf(t) /\ FreshOf(t) /\ SoleOf(t) /\ call[t] \in Calls
  BY DEF Steps, RefsInv, Types
<1>2. NoTaking(t)
  BY DEF Steps, NoTaking
<1>3. OthersUp(t)
  BY DEF OthersUp, RefsInv, UseOf, FreshOf, UpperDcache, Found
<1>4. \A k \in 1..2 : /\ LockedName(t, k)' <=> LockedName(t, k)
                      /\ Under(t, k)' => Under(t, k)
  BY DEF Steps, LockedName, Under, Op
<1>6. UseOf(t)'
  BY <1>1 DEF Steps, UseOf, Lower
<1>7. FreshOf(t)'
  <2>1. Found(t)' = Found(t) /\ Entry(t)' = Entry(t)
    BY DEF Steps, Found, Entry
  <2>2. \A s \in Tasks : call'[s].du = call[s].du
    BY DEF Steps, Alone
  <2> QED
    BY <1>1, <2>1, <2>2 DEF Steps, FreshOf
<1>8. SoleOf(t)'
  BY <1>1, <1>4 DEF Steps, SoleOf
<1>9. \A s \in Tasks : CallOf(s)' /\ LocksOf(s)' /\ UseOf(s)' /\ FreshOf(s)' /\ SoleOf(s)'
  BY <1>1, <1>2, <1>3, <1>6, <1>7, <1>8, OthersKeep
<1> QED
  BY <1>3, <1>9 DEF RefsInv, UpperDcache, Pointers, Pointing

-----------------------------------------------------------------------------
(* Lower dentries that change, and are freed when nothing refers to them.   *)

LEMMA LowersKeep ==
  ASSUME NEW f, LowFunction(f), low' \in {f, Settled(f)},
         \A l \in Lowers : f[l].refs = Cardinality(Pointers(l)') + Cardinality(Finders(l)') + Cardinality(Users(l)')
  PROVE  low' \in [Lowers -> LowerRecs] /\ LowerDcache' /\ LowerRefs'
<1>1. LowFunction(low') /\ \A l \in Lowers : low'[l].refs = f[l].refs
  BY SettledKeeps
<1> QED
  BY <1>1 DEF LowFunction, LowerDcache, LowerRefs

LEMMA LowIsFunction == Types /\ LowerDcache => LowFunction(low)
BY DEF Types, LowerDcache, LowFunction, LowerRecs

LEMMA HashedIsNamed ==
  ASSUME NEW f, LowFunction(f), NEW l \in Lowers, f[l].hashed PROVE f[l].at # <<>>
BY FreesAreFree DEF LowFunction

LEMMA DgetKeeps ==
  ASSUME NEW f, LowFunction(f), NEW l \in Lowers, f[l].at # <<>>
  PROVE  /\ LowFunction(Dget(f, l))
         /\ \A m \in Lowers : Dget(f, l)[m].refs = IF m = l THEN f[m].refs + 1 ELSE f[m].refs
         /\ \A m \in Lowers : Dget(f, l)[m].at = f[m].at
BY DEF LowFunction, LowerRecs, Dget

LEMMA DputKeeps ==
  ASSUME NEW f, LowFunction(f), NEW l \in Lowers, f[l].at # <<>>
  PROVE  /\ LowFunction(Dput(f, l))
         /\ \A m \in Lowers : Dput(f, l)[m].refs = IF m = l THEN f[m].refs - 1 ELSE f[m].refs
         /\ \A m \in Lowers : Dput(f, l)[m].at = f[m].at
BY DEF LowFunction, LowerRecs, Dput

LEMMA UnhashKeeps ==
  ASSUME NEW f, LowFunction(f), NEW x, x \in Lowers => f[x].at # <<>>, x \in Lowers \cup {NoDentry}
  PROVE  /\ LowFunction(Unhash(f, x))
         /\ \A m \in Lowers : Unhash(f, x)[m].refs = f[m].refs
         /\ \A m \in Lowers : Unhash(f, x)[m].at = f[m].at
BY Numbers DEF LowFunction, LowerRecs, Unhash

\* A call comes to hold a reference to a lower dentry it has found, ...
LEMMA FinderComes ==
  ASSUME NEW t \in Tasks, Alone(t), call[t].pc \notin {"lreval", "read"},
         call'[t].pc \in {"lreval", "read"}, NEW l, call'[t].dl = l
  PROVE  \A m \in Lowers : Cardinality(Finders(m)') = IF m = l THEN Cardinality(Finders(m)) + 1
                                                     ELSE Cardinality(Finders(m))
<1> TAKE m \in Lowers
<1>1. \A s \in Tasks : s \in Finders(m)' <=> s \in Finders(m) \/ (s = t /\ m = l)
  BY DEF Alone, Finders
<1>2. t \notin Finders(m) /\ Finders(m)' \subseteq Tasks /\ Finders(m) \subseteq Tasks
  BY DEF Finders
<1>3. Finders(m)' = IF m = l THEN Finders(m) \cup {t} ELSE Finders(m)
  BY <1>1, <1>2
<1> QED
  BY <1>2, <1>3, OneMore, CountsAreNats

\* ... and to let go of it.
LEMMA FinderGoes ==
  ASSUME NEW t \in Tasks, Alone(t), call[t].pc \in {"lreval", "read"},
         call'[t].pc \notin {"lreval", "read"}, NEW l, call[t].dl = l
  PROVE  \A m \in Lowers : Cardinality(Finders(m)') = IF m = l THEN Cardinality(Finders(m)) - 1
                                                     ELSE Cardinality(Finders(m))
<1> TAKE m \in Lowers
<1>1. \A s \in Tasks : s \in Finders(m)' <=> s \in Finders(m) /\ ~(s = t /\ m = l)
  BY DEF Alone, Finders
<1>2. (m = l => t \in Finders(m)) /\ Finders(m)' \subseteq Tasks /\ Finders(m) \subseteq Tasks
      /\ (m # l => t \notin Finders(m))
  BY DEF Finders
<1>3. Finders(m)' = IF m = l THEN Finders(m) \ {t} ELSE Finders(m)
  BY <1>1, <1>2
<1> QED
  BY <1>2, <1>3, OneLess, CountsAreNats

-----------------------------------------------------------------------------
(* lofs_lookup finds a lower dentry, or ends.                               *)

\* The lookup goes on with l.
LookCall(t, p, l) ==
    /\ Alone(t) /\ call' \in [Tasks -> Calls]
    /\ call'[t].ent = call[t].ent /\ call'[t].op = call[t].op /\ call'[t].du = call[t].du
    /\ call'[t].cur = call[t].cur /\ call'[t].dir = call[t].dir /\ call'[t].rc = call[t].rc
    /\ call'[t].li = call[t].li /\ call'[t].pc = p /\ call'[t].dl = l

LEMMA LookStep ==
  ASSUME call \in [Tasks -> Calls], NEW t \in Tasks, NEW p \in Pcs, NEW l \in Lowers \cup {NoDentry},
         call' = [call EXCEPT ![t].pc = p, ![t].dl = l]
  PROVE  LookCall(t, p, l)
<1>1. call'[t] = [call[t] EXCEPT !.pc = p, !.dl = l] /\ call[t] \in Calls /\ Alone(t)
  BY DEF Alone
<1>2. call'[t] \in Calls
  BY <1>1 DEF Calls
<1> QED
  BY <1>1, <1>2 DEF LookCall, Calls

\* The lookup ends, b is whether well.
EndCall(t, b) ==
    /\ Alone(t) /\ call' \in [Tasks -> Calls]
    /\ call'[t].ent = call[t].ent /\ call'[t].op = call[t].op /\ call'[t].du = call[t].du
    /\ call'[t].cur = call[t].cur /\ call'[t].dir = call[t].dir /\ call'[t].rc = b
    /\ call'[t].pc = IF b THEN "found" ELSE "return"
    /\ call'[t].dl = NoDentry /\ call'[t].li = NoInode

LEMMA EndStep ==
  ASSUME call \in [Tasks -> Calls], NEW t \in Tasks, NEW b \in BOOLEAN, LookupEnds(t, b)
  PROVE  EndCall(t, b)
<1> DEFINE p == IF b THEN "found" ELSE "return"
<1>0. p \in Pcs /\ p = IF b THEN "found" ELSE "return"
  BY DEF Pcs
<1> HIDE DEF p
<1>1. /\ call'[t] = [call[t] EXCEPT !.pc = p, !.rc = b, !.dl = NoDentry, !.li = NoInode]
      /\ call[t] \in Calls /\ Alone(t)
  BY <1>0 DEF Alone, LookupEnds
<1>2. call'[t] \in Calls
  BY <1>0, <1>1 DEF Calls, Maybe
<1>3. call' \in [Tasks -> Calls]
  BY <1>2 DEF LookupEnds
<1> QED
  BY <1>0, <1>1, <1>3 DEF EndCall, Calls

LEMMA FinderKeeps ==
  ASSUME RefsInv, NEW t \in Tasks, call[t].pc \in {"dlookup", "relook"},
         NEW p \in {"lreval", "read"}, NEW l \in Lowers, LookCall(t, p, l),
         UNCHANGED <<scenario, content, seen, up, mntRefs, dirRefs, ulock, llock>>,
         NEW f, LowFunction(f), low' \in {f, Settled(f)},
         \A m \in Lowers : f[m].refs = IF m = l THEN low[m].refs + 1 ELSE low[m].refs
  PROVE  RefsInv' /\ (\A d \in Dirs : Takers(d)' = Takers(d))
<1>0. Types /\ call[t] \in Calls /\ CallOf(t) /\ LocksOf(t) /\ call[t].dir = <<>>
  BY DEF RefsInv, Types, CallOf, OpPcs
<1>1. Steps(t) /\ OthersLock(t)
  BY DEF Steps, LookCall, OthersLock, Reached, LookPcs, At, OpPcs
<1>2. CallOf(t)'
  BY <1>0, Numbers DEF CallOf, At, Op, Found, LookPcs, OpPcs, LookCall
<1>3. LocksOf(t)'
  BY <1>0 DEF LocksOf, Op, Entry, LookPcs, LockedName, LookCall
<1>4. /\ \A s \in Tasks : CallOf(s)' /\ LocksOf(s)' /\ UseOf(s)' /\ FreshOf(s)' /\ SoleOf(s)'
      /\ UpperDcache' /\ OthersUp(t)
      /\ (\A m \in Lowers : Pointers(m)' = Pointers(m)) /\ Pointing' = Pointing
  BY <1>1, <1>2, <1>3, StepsKeep
<1>5. Alone(t) /\ SameHolds(t)
  BY <1>0 DEF SameHolds, LookCall
<1>6. (\A m \in Lowers : Users(m)' = Users(m)) /\ (\A d \in Dirs : Takers(d)' = Takers(d))
  BY <1>4, <1>5, UsersStay
<1>7. \A m \in Lowers : Cardinality(Finders(m)') = IF m = l THEN Cardinality(Finders(m)) + 1
                                                  ELSE Cardinality(Finders(m))
  BY <1>5, FinderComes DEF LookCall
<1>8. low' \in [Lowers -> LowerRecs] /\ LowerDcache' /\ LowerRefs'
  <2>1. \A m \in Lowers : f[m].refs =
            Cardinality(Pointers(m)') + Cardinality(Finders(m)') + Cardinality(Users(m)')
    BY <1>4, <1>6, <1>7, CountsAreNats DEF RefsInv, LowerRefs
  <2> QED
    BY <2>1, LowersKeep
<1>9. Types'
  BY <1>0, <1>8 DEF Types, LookCall, LowerRecs
<1> QED
  BY <1>4, <1>6, <1>8, <1>9 DEF RefsInv, MountRefs

LEMMA UnlockedKeeps ==
  ASSUME Types, NEW t \in Tasks, ulock' \in {ulock, Unlocked(ulock, t)}
  PROVE  OthersLock(t) /\ ulock' \in [Dirs -> Tasks \cup {NoOne}]
BY DEF Types, Unlocked, OthersLock

LEMMA StopsKeep ==
  ASSUME RefsInv, NEW t \in Tasks, call[t].pc \in LookPcs, EndCall(t, FALSE),
         UNCHANGED <<scenario, content, seen, up, mntRefs, dirRefs, llock>>,
         ulock' = IF Walking(t) THEN Unlocked(ulock, t) ELSE ulock,
         NEW f, LowFunction(f), low' \in {f, Settled(f)},
         \A m \in Lowers : f[m].refs = IF call[t].pc \in {"lreval", "read"} /\ m = call[t].dl
                                       THEN low[m].refs - 1 ELSE low[m].refs
  PROVE  RefsInv' /\ (\A d \in Dirs : Takers(d)' = Takers(d))
<1>0. Types /\ call[t] \in Calls /\ CallOf(t) /\ LocksOf(t) /\ call[t].dir = <<>>
  BY DEF RefsInv, Types, CallOf, OpPcs, LookPcs
<1>1. OthersLock(t) /\ ulock' \in [Dirs -> Tasks \cup {NoOne}]
  BY <1>0, UnlockedKeeps
<1>2. Steps(t)
  BY DEF Steps, EndCall, Reached, LookPcs, At, OpPcs
<1>3. CallOf(t)'
  BY <1>0, Numbers DEF CallOf, At, Op, Found, LookPcs, OpPcs, EndCall
<1>4. LocksOf(t)'
  BY <1>0 DEF LocksOf, Op, Entry, LookPcs, LockedName, EndCall, Walking
<1>5. /\ \A s \in Tasks : CallOf(s)' /\ LocksOf(s)' /\ UseOf(s)' /\ FreshOf(s)' /\ SoleOf(s)'
      /\ UpperDcache' /\ OthersUp(t)
      /\ (\A m \in Lowers : Pointers(m)' = Pointers(m)) /\ Pointing' = Pointing
  BY <1>1, <1>2, <1>3, <1>4, StepsKeep
<1>6. Alone(t) /\ SameHolds(t) /\ call'[t].pc = "return"
  BY <1>0 DEF SameHolds, EndCall
<1>7. (\A m \in Lowers : Users(m)' = Users(m)) /\ (\A d \in Dirs : Takers(d)' = Takers(d))
  BY <1>5, <1>6, UsersStay
<1>8. \A m \in Lowers : Cardinality(Finders(m)') =
          IF call[t].pc \in {"lreval", "read"} /\ m = call[t].dl
          THEN Cardinality(Finders(m)) - 1 ELSE Cardinality(Finders(m))
  <2>1. CASE call[t].pc \in {"lreval", "read"}
    BY <1>6, <2>1, FinderGoes
  <2>2. CASE call[t].pc \notin {"lreval", "read"}
    BY <1>6, <2>2, FindersStay DEF SameFinds
  <2> QED
    BY <2>1, <2>2
<1>9. low' \in [Lowers -> LowerRecs] /\ LowerDcache' /\ LowerRefs'
  <2>1. \A m \in Lowers : f[m].refs =
            Cardinality(Pointers(m)') + Cardinality(Finders(m)') + Cardinality(Users(m)')
    BY <1>5, <1>7, <1>8, CountsAreNats DEF RefsInv, LowerRefs
  <2> QED
    BY <2>1, LowersKeep
<1>10. Types'
  BY <1>0, <1>1, <1>9 DEF Types, EndCall, LowerRecs
<1> QED
  BY <1>5, <1>7, <1>9, <1>10 DEF RefsInv, MountRefs

LEMMA LookupCachedKeeps ==
  ASSUME RefsInv, NEW t \in Tasks, LookupCached(t)
  PROVE  /\ RefsInv' /\ (\A d \in Dirs : Takers(d)' = Takers(d))
         /\ LookCall(t, "lreval", LowerAt(Entry(t))) /\ LowerAt(Entry(t)) \in Lowers
<1> DEFINE l == LowerAt(Entry(t))
<1>0. Types /\ call \in [Tasks -> Calls] /\ LowFunction(low) /\ "lreval" \in Pcs
  BY LowIsFunction DEF RefsInv, Types, Pcs
<1>1. l \in Lowers /\ low[l].at # <<>>
  <2>1. l \in Lowers /\ low[l].hashed
    BY LowerFound DEF LookupCached
  <2> QED
    BY <1>0, <2>1, HashedIsNamed
<1>2. /\ call' = [call EXCEPT ![t].pc = "lreval", ![t].dl = l]
      /\ low' = Dget(low, l) /\ call[t].pc = "dlookup"
      /\ UNCHANGED <<scenario, content, seen, up, mntRefs, dirRefs, ulock, llock>>
  BY DEF LookupCached, LookupGoesOn, below, locks, At
<1> HIDE DEF l
<1>3. LookCall(t, "lreval", l)
  BY <1>0, <1>1, <1>2, LookStep
<1>4. /\ LowFunction(Dget(low, l))
      /\ \A m \in Lowers : Dget(low, l)[m].refs = IF m = l THEN low[m].refs + 1 ELSE low[m].refs
  BY <1>0, <1>1, DgetKeeps
<1>5. RefsInv' /\ (\A d \in Dirs : Takers(d)' = Takers(d))
  BY <1>1, <1>2, <1>3, <1>4, FinderKeeps
<1> QED
  BY <1>1, <1>3, <1>5 DEF l

LEMMA LookupLowerErrorKeeps ==
  ASSUME RefsInv, NEW t \in Tasks, LookupLowerError(t) \/ InterposeFails(t)
  PROVE  RefsInv' /\ (\A d \in Dirs : Takers(d)' = Takers(d)) /\ EndCall(t, FALSE)
<1> DEFINE l == call[t].dl
<1>0. Types /\ call \in [Tasks -> Calls] /\ LowFunction(low) /\ CallOf(t)
  BY LowIsFunction DEF RefsInv, Types
<1>1. call[t].pc \in {"lreval", "read"} /\ l \in Lowers /\ low[l].at # <<>>
  <2>1. call[t].pc \in {"lreval", "read"} /\ l \in Lowers
    BY <1>0 DEF LookupLowerError, InterposeFails, At, CallOf
  <2> QED
    BY <2>1, ReferredIsKept, NoEntryIsEmpty
<1>2. /\ low' = Settled(Dput(low, l)) /\ LookupEnds(t, FALSE)
      /\ UNCHANGED <<scenario, content, seen, up, mntRefs, dirRefs, llock>>
      /\ ulock' = IF Walking(t) THEN Unlocked(ulock, t) ELSE ulock
  BY DEF LookupLowerError, InterposeFails, LookupEnds, below
<1>3. EndCall(t, FALSE)
  BY <1>0, <1>2, EndStep
<1>4. /\ LowFunction(Dput(low, l))
      /\ \A m \in Lowers : Dput(low, l)[m].refs = IF m = l THEN low[m].refs - 1 ELSE low[m].refs
  BY <1>0, <1>1, DputKeeps
<1>5. call[t].pc \in LookPcs
  BY <1>1 DEF LookPcs
<1> QED
  BY <1>1, <1>2, <1>3, <1>4, <1>5, StopsKeep

LEMMA AddFailsKeeps ==
  ASSUME RefsInv, NEW t \in Tasks, AddFails(t)
  PROVE  RefsInv' /\ (\A d \in Dirs : Takers(d)' = Takers(d)) /\ EndCall(t, FALSE)
<1>0. Types /\ call \in [Tasks -> Calls] /\ LowFunction(low) /\ CallOf(t)
  BY LowIsFunction DEF RefsInv, Types
<1>1. /\ low' = low /\ LookupEnds(t, FALSE) /\ call[t].pc = "add"
      /\ UNCHANGED <<scenario, content, seen, up, mntRefs, dirRefs, llock>>
      /\ ulock' = IF Walking(t) THEN Unlocked(ulock, t) ELSE ulock
  BY DEF AddFails, LookupEnds, below, At
<1>2. EndCall(t, FALSE)
  BY <1>0, <1>1, EndStep
<1>3. call[t].pc \in LookPcs
  BY <1>1 DEF LookPcs
<1> QED
  BY <1>0, <1>1, <1>2, <1>3, StopsKeep

LEMMA LookupOneLenKeeps ==
  ASSUME RefsInv, NEW t \in Tasks, call[t].pc \in {"dlookup", "relook"}, LookupOneLen(t)
  PROVE  /\ RefsInv' /\ (\A d \in Dirs : Takers(d)' = Takers(d))
         /\ \/ EndCall(t, FALSE) /\ \A m \in Lowers : low[m].refs # 0 => low'[m].at = low[m].at
            \/ \E l \in Lowers : /\ LookCall(t, "read", l) /\ low'[l].at = Entry(t)
                                 /\ \A m \in Lowers : low[m].refs # 0 => low'[m].at = low[m].at
<1> DEFINE e == Entry(t)
           c == LowerAt(e)
           n == Some(FreeLowers)
           valid == c # NoDentry /\ ~low[c].stale
           rest == IF valid THEN low ELSE Unhash(low, c)
           rec == [at |-> e, inode |-> content[e], hashed |-> TRUE, stale |-> FALSE, refs |-> 1]
<1>0. Types /\ call \in [Tasks -> Calls] /\ LowFunction(low) /\ "read" \in Pcs /\ CallOf(t) /\ LowerDcache
  BY LowIsFunction DEF RefsInv, Types, Pcs
<1>1. c \in Lowers \cup {NoDentry} /\ (c \in Lowers => low[c].hashed /\ low[c].at = e /\ low[c].at # <<>>)
  BY <1>0, LowerFound, HashedIsNamed
<1>2. e \in Entries /\ content[e] \in Maybe
  <2>1. call[t].ent \in Entries \X Entries /\ call[t].cur \in 1..2
    BY <1>0 DEF CallOf, Calls, At
  <2>2. call[t].ent[1] \in Entries /\ call[t].ent[2] \in Entries
    BY <2>1
  <2> QED
    BY <1>0, <2>1, <2>2 DEF Entry, Types
<1>3. \/ valid /\ low' = Dget(low, c) /\ LookupGoesOn(t, "read", c)
      \/ /\ ~valid /\ FreeLowers # {} /\ low' = Settled([rest EXCEPT ![n] = rec])
         /\ LookupGoesOn(t, "read", n)
      \/ low' = Settled(rest) /\ LookupEnds(t, FALSE) /\ UNCHANGED <<up, mntRefs>>
  BY DEF LookupOneLen
<1> HIDE DEF e, c, n
<1>4. LowFunction(rest) /\ \A m \in Lowers : rest[m].refs = low[m].refs /\ rest[m].at = low[m].at
  BY <1>0, <1>1, UnhashKeeps
<1> HIDE DEF rest
<1>5. CASE valid /\ low' = Dget(low, c) /\ LookupGoesOn(t, "read", c)
  <2>0. c \in Lowers
    BY <1>1, <1>5
  <2>1. /\ LowFunction(Dget(low, c))
        /\ \A m \in Lowers : Dget(low, c)[m].refs = IF m = c THEN low[m].refs + 1 ELSE low[m].refs
        /\ \A m \in Lowers : Dget(low, c)[m].at = low[m].at
    BY <1>0, <1>1, <2>0, DgetKeeps
  <2>2. LookCall(t, "read", c)
    BY <1>0, <2>0, <1>5, LookStep DEF LookupGoesOn
  <2>3. UNCHANGED <<scenario, content, seen, up, mntRefs, dirRefs, ulock, llock>>
    BY <1>5 DEF LookupGoesOn, below, locks
  <2>4. low'[c].at = e /\ \A m \in Lowers : low'[m].at = low[m].at
    BY <1>1, <1>5, <2>0, <2>1
  <2>5. RefsInv' /\ (\A d \in Dirs : Takers(d)' = Takers(d))
    BY <1>5, <2>0, <2>1, <2>2, <2>3, FinderKeeps
  <2> QED
    BY <2>0, <2>2, <2>4, <2>5 DEF e
<1>6. CASE /\ ~valid /\ FreeLowers # {} /\ low' = Settled([rest EXCEPT ![n] = rec])
           /\ LookupGoesOn(t, "read", n)
  <2> DEFINE f == [rest EXCEPT ![n] = rec]
  <2>0. n \in Lowers /\ low[n] = FreeLower /\ low[n].refs = 0
    BY <1>6, SomeIsIn, FreesAreFree DEF n, FreeLowers
  <2>1. rec \in LowerRecs /\ rec.at # <<>> /\ rec.refs = 1 /\ rec.at = e /\ rec.hashed
    BY <1>2, NoEntryIsEmpty DEF LowerRecs
  <2> HIDE DEF rec
  <2>2. f \in [Lowers -> LowerRecs] /\ \A m \in Lowers : f[m] = IF m = n THEN rec ELSE rest[m]
    BY <1>4, <2>0, <2>1 DEF LowFunction
  <2>3. low' = Settled(f)
    BY <1>6
  <2> HIDE DEF f
  <2>4. LowFunction(f) /\ \A m \in Lowers : f[m].refs = IF m = n THEN low[m].refs + 1 ELSE low[m].refs
    BY <1>4, <2>0, <2>1, <2>2 DEF LowFunction
  <2>5. LookCall(t, "read", n)
    BY <1>0, <2>0, <1>6, LookStep DEF LookupGoesOn
  <2>6. UNCHANGED <<scenario, content, seen, up, mntRefs, dirRefs, ulock, llock>>
    BY <1>6 DEF LookupGoesOn, below, locks
  <2>7. low'[n].at = e /\ \A m \in Lowers : low[m].refs # 0 => low'[m].at = low[m].at
    <3>1. \A m \in Lowers : f[m].refs # 0 => low'[m] = f[m]
      BY <2>3, <2>4, SettledKeeps
    <3>2. f[n].refs # 0 /\ f[n].at = e
      BY <2>0, <2>1, <2>2
    <3>3. \A m \in Lowers : low[m].refs # 0 => f[m].refs # 0 /\ f[m].at = low[m].at
      BY <1>4, <2>0, <2>2, <2>4
    <3> QED
      BY <2>0, <3>1, <3>2, <3>3
  <2>8. RefsInv' /\ (\A d \in Dirs : Takers(d)' = Takers(d))
    BY <2>0, <2>3, <2>4, <2>5, <2>6, FinderKeeps
  <2> QED
    BY <2>0, <2>5, <2>7, <2>8 DEF e
<1>7. CASE low' = Settled(rest) /\ LookupEnds(t, FALSE) /\ UNCHANGED <<up, mntRefs>>
  <2>1. EndCall(t, FALSE)
    BY <1>0, <1>7, EndStep
  <2>2. /\ UNCHANGED <<scenario, content, seen, up, mntRefs, dirRefs, llock>>
        /\ ulock' = IF Walking(t) THEN Unlocked(ulock, t) ELSE ulock
    BY <1>7 DEF LookupEnds, below
  <2>3. call[t].pc \in LookPcs /\ call[t].pc \notin {"lreval", "read"}
    BY DEF LookPcs
  <2>4. \A m \in Lowers : low[m].refs # 0 => low'[m].at = low[m].at
    BY <1>4, <1>7, SettledKeeps
  <2>5. RefsInv' /\ (\A d \in Dirs : Takers(d)' = Takers(d))
    BY <1>4, <1>7, <2>1, <2>2, <2>3, StopsKeep
  <2> QED
    BY <2>1, <2>4, <2>5
<1> QED
  BY <1>3, <1>5, <1>6, <1>7

LEMMA LookupLowerInvalidKeeps ==
  ASSUME RefsInv, NEW t \in Tasks, LookupLowerInvalid(t)
  PROVE  RefsInv' /\ (\A d \in Dirs : Takers(d)' = Takers(d)) /\ LookCall(t, "relook", NoDentry)
<1> DEFINE l == call[t].dl
           g == Unhash(low, l)
           f == Dput(g, l)
<1>0. /\ Types /\ call \in [Tasks -> Calls] /\ LowFunction(low) /\ CallOf(t) /\ LocksOf(t)
      /\ call[t].pc = "lreval" /\ call[t].dir = <<>> /\ "relook" \in Pcs /\ call[t] \in Calls
  BY LowIsFunction DEF RefsInv, Types, CallOf, At, OpPcs, LookupLowerInvalid, Pcs
<1>1. l \in Lowers /\ low[l].at # <<>> /\ l = call[t].dl
  <2>1. l \in Lowers
    BY <1>0 DEF CallOf
  <2> QED
    BY <1>0, <2>1, ReferredIsKept, NoEntryIsEmpty
<1>2. /\ low' = Settled(f) /\ call' = [call EXCEPT ![t].pc = "relook", ![t].dl = NoDentry]
      /\ UNCHANGED <<scenario, content, seen, up, mntRefs, dirRefs, ulock, llock>>
  BY DEF LookupLowerInvalid, LookupGoesOn, below, locks
<1> HIDE DEF l
<1>3. LookCall(t, "relook", NoDentry)
  BY <1>0, <1>2, LookStep
<1>4. /\ LowFunction(f)
      /\ \A m \in Lowers : f[m].refs = IF m = l THEN low[m].refs - 1 ELSE low[m].refs
  <2>1. LowFunction(g) /\ \A m \in Lowers : g[m].refs = low[m].refs /\ g[m].at = low[m].at
    BY <1>0, <1>1, UnhashKeeps
  <2> HIDE DEF g
  <2> QED
    BY <1>1, <2>1, DputKeeps
<1> HIDE DEF f
<1>5. Steps(t) /\ OthersLock(t) /\ Alone(t) /\ SameHolds(t)
  BY <1>0, <1>2, <1>3 DEF Steps, SameHolds, LookCall, Reached, LookPcs, OpPcs, OthersLock, At
<1>6. CallOf(t)'
  BY <1>0, <1>2, <1>3, Numbers DEF CallOf, At, Op, Found, LookPcs, OpPcs, LookCall
<1>7. LocksOf(t)'
  BY <1>0, <1>2, <1>3 DEF LocksOf, Op, Entry, LookPcs, LockedName, LookCall
<1>8. /\ \A s \in Tasks : CallOf(s)' /\ LocksOf(s)' /\ UseOf(s)' /\ FreshOf(s)' /\ SoleOf(s)'
      /\ UpperDcache' /\ OthersUp(t)
      /\ (\A m \in Lowers : Pointers(m)' = Pointers(m)) /\ Pointing' = Pointing
  BY <1>2, <1>5, <1>6, <1>7, StepsKeep
<1>9. (\A m \in Lowers : Users(m)' = Users(m)) /\ (\A d \in Dirs : Takers(d)' = Takers(d))
  BY <1>5, <1>8, UsersStay
<1>10. \A m \in Lowers : Cardinality(Finders(m)') = IF m = l THEN Cardinality(Finders(m)) - 1
                                                   ELSE Cardinality(Finders(m))
  BY <1>0, <1>1, <1>3, <1>5, FinderGoes DEF LookCall
<1>11. low' \in [Lowers -> LowerRecs] /\ LowerDcache' /\ LowerRefs'
  <2>1. \A m \in Lowers : f[m].refs =
            Cardinality(Pointers(m)') + Cardinality(Finders(m)') + Cardinality(Users(m)')
    BY <1>4, <1>8, <1>9, <1>10, CountsAreNats DEF RefsInv, LowerRefs
  <2> QED
    BY <1>2, <1>4, <2>1, LowersKeep
<1>12. Types'
  BY <1>0, <1>2, <1>3, <1>11 DEF Types, LookCall, LowerRecs
<1> QED
  BY <1>2, <1>3, <1>8, <1>9, <1>11, <1>12 DEF RefsInv, MountRefs

-----------------------------------------------------------------------------
(* The lofs dentry that is looked up.                                       *)

\* Only the dentry a call looks up changes, and keeps its place.
FreshChanges(t, u) ==
    /\ up' \in [Uppers -> UpperDentries] /\ \A w \in Uppers \ {u} : up'[w] = up[w]
    /\ up'[u].at = up[u].at

LEMMA FreshOnly ==
  ASSUME RefsInv, NEW t \in Tasks, call[t].pc \in LookPcs, Alone(t), call'[t].du = call[t].du,
         FreshChanges(t, Found(t))
  PROVE  OthersUp(t) /\ NoTaking(t)
<1> DEFINE u == Found(t)
<1>1. /\ CallOf(t) /\ LocksOf(t) /\ FreshOf(t) /\ call[t] \in Calls
  BY DEF RefsInv, Types
<1>2. u \in Uppers /\ up'[u].at = up[u].at /\ up[u].at = Entry(t) /\ Entry(t) \in Entries /\ u = Found(t)
      /\ ulock[Entry(t)[1]] = t
  <2>1. call[t].ent \in Entries \X Entries /\ call[t].cur \in 1..2
    BY <1>1 DEF CallOf, LookPcs, At, Calls
  <2>2. call[t].ent[1] \in Entries /\ call[t].ent[2] \in Entries
    BY <2>1
  <2> QED
    BY <1>1, <2>1, <2>2 DEF CallOf, FreshOf, FreshChanges, Entry, LocksOf
<1> HIDE DEF u
<1>3. \A s \in Tasks \ {t}, k \in 1..2 : call[s].du[k] # u
  BY <1>1, <1>2 DEF FreshOf
<1>4. OthersUp(t)
  <2>1. ASSUME NEW s \in Tasks \ {t}, NEW k \in 1..2, call[s].du[k] \in Uppers
        PROVE  /\ up'[call[s].du[k]].lower = up[call[s].du[k]].lower
               /\ up'[call[s].du[k]].at \in Entries
               /\ up'[call[s].du[k]].at = up[call[s].du[k]].at
               /\ k = call[s].cur /\ call[s].pc \in LookPcs =>
                     up'[call[s].du[k]].inode = NoInode /\ ~up'[call[s].du[k]].hashed
    <3>1. up'[call[s].du[k]] = up[call[s].du[k]]
      BY <1>2, <1>3, <2>1 DEF FreshChanges
    <3> QED
      BY <2>1, <3>1 DEF RefsInv, UseOf, FreshOf, Found
  <2>2. ASSUME NEW w \in Uppers, up'[w].hashed
        PROVE  \/ up[w].hashed /\ up'[w].at = up[w].at
               \/ up'[w].at \in Entries /\ ulock[up'[w].at[1]] = t
    BY <1>2, <2>2 DEF FreshChanges
  <2> QED
    BY <2>1, <2>2 DEF OthersUp
<1> QED
  BY <1>4 DEF NoTaking

LEMMA InterposeReadKeeps ==
  ASSUME RefsInv, NEW t \in Tasks, InterposeRead(t)
  PROVE  /\ RefsInv' /\ (\A d \in Dirs : Takers(d)' = Takers(d))
         /\ SameCall(t) /\ call'[t].pc = "add" /\ call'[t].rc = call[t].rc
         /\ up'[Found(t)].lower = call[t].dl /\ \A w \in Uppers \ {Found(t)} : up'[w] = up[w]
<1> DEFINE u == Found(t)
           l == call[t].dl
<1>0. /\ Types /\ call \in [Tasks -> Calls] /\ CallOf(t) /\ LocksOf(t) /\ UseOf(t) /\ FreshOf(t)
      /\ SoleOf(t) /\ call[t].pc = "read" /\ call[t].dir = <<>> /\ "add" \in Pcs /\ call[t] \in Calls
      /\ UpperDcache /\ LowerDcache /\ LowerRefs /\ MountRefs
  BY DEF RefsInv, Types, CallOf, At, OpPcs, InterposeRead, Pcs
<1>1. /\ u \in Uppers /\ l \in Lowers /\ u = Found(t) /\ l = call[t].dl /\ call[t].cur \in 1..2
      /\ u = call[t].du[call[t].cur]
  BY <1>0 DEF CallOf, Calls, Found, LookPcs
<1>2. /\ up[u].inode = NoInode /\ ~up[u].hashed /\ up[u].at = Entry(t) /\ up[u].lower = NoDentry
      /\ \A s \in Tasks, k \in 1..2 : call[s].du[k] = u => s = t /\ k = call[t].cur
  BY <1>0 DEF FreshOf, LookPcs
<1>3. /\ up' = [up EXCEPT ![u].lower = l] /\ mntRefs' = mntRefs + 1
      /\ UNCHANGED <<scenario, content, seen, low, dirRefs, ulock, llock>>
  BY DEF InterposeRead, below, locks
<1>4. SameCall(t) /\ call'[t].pc = "add" /\ call'[t].rc = call[t].rc
  <2>1. low[l].inode \in Maybe
    BY <1>0, <1>1 DEF Types
  <2> QED
    BY <1>0, <2>1, PcLiStep DEF InterposeRead
<1> HIDE DEF u, l
<1>5. /\ up' \in [Uppers -> UpperDentries] /\ up'[u].lower = l /\ up'[u].at = up[u].at
      /\ up'[u].inode = up[u].inode /\ up'[u].hashed = up[u].hashed
      /\ \A w \in Uppers \ {u} : up'[w] = up[w]
  BY <1>0, <1>1, <1>3 DEF Types, UpperDentries
<1>6. OthersUp(t) /\ NoTaking(t)
  <2>1. FreshChanges(t, Found(t)) /\ Alone(t) /\ call'[t].du = call[t].du /\ call[t].pc \in LookPcs
    BY <1>0, <1>1, <1>4, <1>5 DEF FreshChanges, SameCall, LookPcs
  <2> QED
    BY <2>1, FreshOnly
<1>7. CallOf(t)'
  BY <1>0, <1>3, <1>4 DEF CallOf, At, Op, Found, LookPcs, OpPcs, SameCall
<1>8. LocksOf(t)'
  BY <1>0, <1>3, <1>4 DEF LocksOf, Op, Entry, LookPcs, LockedName, SameCall
<1>9. \A k \in 1..2 : (Reached(t, k)' => Reached(t, k)) /\ (Under(t, k)' => Under(t, k))
  BY <1>0, <1>4 DEF Under, Reached, LockedName, SameCall, At, Op, OpPcs, LookPcs
<1>10. UseOf(t)'
  <2>1. \A k \in 1..2 : call[t].du[k] \in Uppers =>
            /\ up'[call[t].du[k]].at = up[call[t].du[k]].at
            /\ up'[call[t].du[k]].lower \in {up[call[t].du[k]].lower, l}
    BY <1>5
  <2> QED
    BY <1>0, <1>1, <1>4, <1>9, <2>1 DEF UseOf, Lower, SameCall
<1>11. FreshOf(t)'
  <2>1. Found(t)' = u /\ Entry(t)' = Entry(t)
    BY <1>1, <1>4 DEF Found, Entry, SameCall
  <2>2. \A s \in Tasks : call'[s].du = call[s].du
    BY <1>4 DEF SameCall, Alone
  <2> QED
    BY <1>1, <1>2, <1>4, <1>5, <2>1, <2>2 DEF SameCall, FreshOf
<1>12. SoleOf(t)'
  <2>1. \A w \in Uppers : up'[w].hashed = up[w].hashed /\ up'[w].at = up[w].at
    BY <1>5
  <2>2. \A k \in 1..2 : Under(t, k) => call[t].du[k] \in Uppers
    BY <1>0 DEF Under, UseOf, CallOf, Found
  <2> QED
    BY <1>0, <1>4, <1>9, <2>1, <2>2 DEF SoleOf, SameCall
<1>13. \A s \in Tasks : CallOf(s)' /\ LocksOf(s)' /\ UseOf(s)' /\ FreshOf(s)' /\ SoleOf(s)'
  <2>1. Alone(t) /\ OthersLock(t)
    BY <1>3, <1>4 DEF SameCall, OthersLock
  <2> QED
    BY <1>3, <1>6, <1>7, <1>8, <1>10, <1>11, <1>12, <2>1, OthersKeep
<1>14. UpperDcache'
  <2>1. up[u].at \in Entries
    BY <1>0, <1>1 DEF UseOf
  <2> QED
    BY <1>0, <1>2, <1>5, <2>1, NoEntryIsEmpty DEF UpperDcache
<1>15. /\ \A m \in Lowers : Users(m)' = Users(m)
       /\ \A d \in Dirs : Takers(d)' = Takers(d)
  <2>1. SameHolds(t) /\ Alone(t)
    BY <1>0, <1>4 DEF SameCall, SameHolds
  <2> QED
    BY <1>6, <2>1, UsersStay
<1>16. \A m \in Lowers : Cardinality(Finders(m)') = IF m = l THEN Cardinality(Finders(m)) - 1
                                                   ELSE Cardinality(Finders(m))
  BY <1>0, <1>1, <1>4, FinderGoes DEF SameCall
<1>17. \A m \in Lowers : Cardinality(Pointers(m)') = IF m = l THEN Cardinality(Pointers(m)) + 1
                                                    ELSE Cardinality(Pointers(m))
  <2> TAKE m \in Lowers
  <2>1. \A w \in Uppers : w \in Pointers(m)' <=> w \in Pointers(m) \/ (w = u /\ m = l)
    BY <1>1, <1>2, <1>5, Numbers DEF Pointers
  <2>2. u \notin Pointers(m) /\ Pointers(m)' \subseteq Uppers /\ Pointers(m) \subseteq Uppers
    BY <1>2, Numbers DEF Pointers
  <2>3. Pointers(m)' = IF m = l THEN Pointers(m) \cup {u} ELSE Pointers(m)
    BY <1>1, <2>1, <2>2
  <2> QED
    BY <2>2, <2>3, OneMore, CountsAreNats
<1>18. LowerRefs'
  BY <1>0, <1>3, <1>15, <1>16, <1>17, CountsAreNats DEF LowerRefs
<1>19. MountRefs'
  <2>0. NoDentry \notin Lowers
    BY Numbers
  <2>1. Pointing' = Pointing \cup {u} /\ u \notin Pointing
    BY <1>1, <1>2, <1>5, <2>0 DEF Pointing
  <2> QED
    BY <1>0, <1>3, <2>1, OneMore, CountsAreNats DEF MountRefs
<1>20. Types' /\ LowerDcache'
  BY <1>0, <1>3, <1>4, <1>5 DEF Types, SameCall, LowerDcache
<1> QED
  BY <1>4, <1>5, <1>13, <1>14, <1>15, <1>18, <1>19, <1>20 DEF RefsInv, u, l

LEMMA AddKeeps ==
  ASSUME RefsInv, NEW t \in Tasks, AddNegative(t) \/ AddPositive(t)
  PROVE  /\ RefsInv' /\ (\A d \in Dirs : Takers(d)' = Takers(d))
         /\ EndCall(t, TRUE) /\ low' = low
         /\ up'[Found(t)].lower = call[t].dl /\ up'[Found(t)].at = Entry(t)
         /\ \A w \in Uppers \ {Found(t)} : up'[w] = up[w]
<1> DEFINE u == Found(t)
           l == call[t].dl
<1>0. /\ Types /\ call \in [Tasks -> Calls] /\ CallOf(t) /\ LocksOf(t) /\ UseOf(t) /\ FreshOf(t)
      /\ SoleOf(t) /\ call[t].pc = "add" /\ call[t].dir = <<>> /\ call[t] \in Calls
      /\ UpperDcache /\ LowerDcache /\ LowerRefs /\ MountRefs
  BY DEF RefsInv, Types, CallOf, At, OpPcs, AddNegative, AddPositive
<1>1. /\ u \in Uppers /\ l \in Lowers /\ u = Found(t) /\ l = call[t].dl /\ call[t].cur \in 1..2
      /\ u = call[t].du[call[t].cur]
  BY <1>0 DEF CallOf, Calls, Found, LookPcs
<1>2. /\ up[u].at = Entry(t) /\ up[u].lower = l /\ Under(t, call[t].cur)
      /\ ulock[Entry(t)[1]] = t /\ up[u].at \in Entries
  BY <1>0, <1>1 DEF FreshOf, LookPcs, Under, LocksOf, UseOf
<1>3. /\ up' = [up EXCEPT ![u].hashed = TRUE] \/ up' = [up EXCEPT ![u].hashed = TRUE, ![u].inode = call[t].li]
      /\ UNCHANGED <<scenario, content, seen, low, mntRefs, dirRefs, llock>>
      /\ ulock' = IF Walking(t) THEN Unlocked(ulock, t) ELSE ulock
  BY DEF AddNegative, AddPositive, LookupEnds, below
<1>4. EndCall(t, TRUE)
  BY <1>0, EndStep DEF AddNegative, AddPositive
<1> HIDE DEF u, l
<1>5. /\ up' \in [Uppers -> UpperDentries] /\ up'[u].lower = l /\ up'[u].at = up[u].at
      /\ up'[u].hashed
      /\ \A w \in Uppers \ {u} : up'[w] = up[w]
  <2>1. call[t].li \in Maybe
    BY <1>0 DEF Calls
  <2>2. up[u] \in UpperDentries /\ up \in [Uppers -> UpperDentries]
    BY <1>0, <1>1 DEF Types
  <2>3. [up[u] EXCEPT !.hashed = TRUE] \in UpperDentries
        /\ [up[u] EXCEPT !.hashed = TRUE, !.inode = call[t].li] \in UpperDentries
    BY <2>1, <2>2 DEF UpperDentries
  <2>4. \E r \in UpperDentries : /\ up' = [up EXCEPT ![u] = r]
                                 /\ r.lower = up[u].lower /\ r.at = up[u].at /\ r.hashed
    <3>1. CASE up' = [up EXCEPT ![u].hashed = TRUE]
      <4>1. up' = [up EXCEPT ![u] = [up[u] EXCEPT !.hashed = TRUE]]
        BY <3>1
      <4> QED
        BY <2>2, <2>3, <4>1 DEF UpperDentries
    <3>2. CASE up' = [up EXCEPT ![u].hashed = TRUE, ![u].inode = call[t].li]
      <4>1. up' = [up EXCEPT ![u] = [up[u] EXCEPT !.hashed = TRUE, !.inode = call[t].li]]
        BY <1>1, <2>2, <3>2
      <4> QED
        BY <2>2, <2>3, <4>1 DEF UpperDentries
    <3> QED
      BY <1>3, <3>1, <3>2
  <2> QED
    BY <1>1, <1>2, <2>2, <2>4
<1>6. OthersUp(t) /\ NoTaking(t)
  <2>1. FreshChanges(t, Found(t)) /\ Alone(t) /\ call'[t].du = call[t].du /\ call[t].pc \in LookPcs
    BY <1>0, <1>1, <1>4, <1>5 DEF FreshChanges, EndCall, LookPcs
  <2> QED
    BY <2>1, FreshOnly
<1>7. CallOf(t)'
  BY <1>0, <1>1, <1>3, <1>4, Numbers DEF CallOf, At, Op, Found, LookPcs, OpPcs, EndCall
<1>8. OthersLock(t) /\ ulock' \in [Dirs -> Tasks \cup {NoOne}]
  BY <1>0, <1>3, UnlockedKeeps
<1>9. LocksOf(t)'
  BY <1>0, <1>3, <1>4 DEF LocksOf, Op, Entry, LookPcs, LockedName, EndCall, Walking
<1>10. \A k \in 1..2 : (Reached(t, k)' => Reached(t, k) \/ k = call[t].cur) /\ (Under(t, k)' => Under(t, k))
  BY <1>0, <1>2, <1>4 DEF Under, Reached, LockedName, EndCall, At, Op, OpPcs, LookPcs
<1>11. UseOf(t)'
  <2>1. \A k \in 1..2 : call[t].du[k] \in Uppers =>
            /\ up'[call[t].du[k]].at = up[call[t].du[k]].at
            /\ up'[call[t].du[k]].lower = up[call[t].du[k]].lower
    BY <1>2, <1>5
  <2> QED
    BY <1>0, <1>1, <1>2, <1>4, <1>10, <2>1 DEF UseOf, Lower, EndCall
<1>12. FreshOf(t)'
  BY <1>4 DEF FreshOf, LookPcs, EndCall
<1>13. SoleOf(t)'
  <2> SUFFICES ASSUME NEW k \in 1..2, Under(t, k)
               PROVE  /\ up'[call[t].du[k]].at = call[t].ent[k]
                      /\ \A w \in Uppers : up'[w].hashed /\ up'[w].at = call[t].ent[k] => w = call[t].du[k]
    BY <1>4, <1>10 DEF SoleOf, EndCall
  <2>1. /\ up[call[t].du[k]].at = call[t].ent[k] /\ call[t].du[k] \in Uppers
        /\ \A w \in Uppers : up[w].hashed /\ up[w].at = call[t].ent[k] => w = call[t].du[k]
    BY <1>0 DEF Under, UseOf, CallOf, Found, SoleOf
  <2>2. up'[call[t].du[k]].at = call[t].ent[k]
    BY <1>5, <2>1
  <2>3. up[u].at = call[t].ent[k] => u = call[t].du[k]
    <3>1. k = call[t].cur => u = call[t].du[k]
      BY <1>1
    <3>2. k # call[t].cur => call[t].ent[k] # Entry(t)
      BY <1>0, <1>1 DEF Under, Reached, Entry, CallOf, At, OpPcs, Pair
    <3> QED
      BY <1>2, <3>1, <3>2
  <2> QED
    BY <1>5, <2>1, <2>2, <2>3
<1>14. \A s \in Tasks : CallOf(s)' /\ LocksOf(s)' /\ UseOf(s)' /\ FreshOf(s)' /\ SoleOf(s)'
  <2>1. Alone(t)
    BY <1>4 DEF EndCall
  <2> QED
    BY <1>3, <1>6, <1>7, <1>8, <1>9, <1>11, <1>12, <1>13, <2>1, OthersKeep
<1>15. UpperDcache'
  <2>1. \A w \in Uppers : up[w].hashed /\ up[w].at = up[u].at => w = u
    BY <1>0, <1>1, <1>2 DEF SoleOf, Entry
  <2> QED
    BY <1>0, <1>1, <1>2, <1>5, <2>1, NoEntryIsEmpty DEF UpperDcache
<1>16. /\ \A m \in Lowers : Users(m)' = Users(m)
       /\ \A d \in Dirs : Takers(d)' = Takers(d)
       /\ \A m \in Lowers : Finders(m)' = Finders(m)
  <2>1. SameHolds(t) /\ Alone(t) /\ SameFinds(t)
    BY <1>0, <1>4 DEF EndCall, SameHolds, SameFinds
  <2> QED
    BY <1>6, <2>1, UsersStay, FindersStay
<1>17. \A m \in Lowers : Pointers(m)' = Pointers(m)
  BY <1>2, <1>5 DEF Pointers
<1>18. Pointing' = Pointing
  BY <1>2, <1>5 DEF Pointing
<1>19. LowerRefs' /\ MountRefs' /\ LowerDcache'
  BY <1>0, <1>3, <1>16, <1>17, <1>18 DEF LowerRefs, MountRefs, LowerDcache
<1>20. Types'
  BY <1>0, <1>3, <1>4, <1>5, <1>8 DEF Types, EndCall
<1> QED
  BY <1>2, <1>3, <1>4, <1>5, <1>14, <1>15, <1>16, <1>19, <1>20 DEF RefsInv, u, l

-----------------------------------------------------------------------------
(* The lower dentries and parents a call holds.                             *)

\* The pairs S are those of t, with the members of K, and those in A.
SplitFor(t, S, A, K) ==
    /\ IsFiniteSet(S) /\ IsFiniteSet(K) /\ S \subseteq Tasks \X (1..2)
    /\ \A k : <<t, k>> \in S <=> k \in K
    /\ \A h : h \in A <=> h \in S /\ h[1] # t

LEMMA PairsOfOne ==
  ASSUME NEW t, NEW S, NEW A, NEW K, SplitFor(t, S, A, K)
  PROVE  /\ Cardinality(S) = Cardinality(A) + Cardinality(K)
         /\ Cardinality(A) \in Nat /\ Cardinality(K) \in Nat
<1> DEFINE B == {t} \X K
<1>0. /\ IsFiniteSet(S) /\ IsFiniteSet(K) /\ S \subseteq Tasks \X (1..2)
      /\ \A k : <<t, k>> \in S <=> k \in K
      /\ \A h : h \in A <=> h \in S /\ h[1] # t
  BY DEF SplitFor
<1>1. IsFiniteSet(A) /\ Cardinality(A) \in Nat /\ Cardinality(K) \in Nat
  <2>1. A \subseteq S
    BY <1>0
  <2> QED
    BY <1>0, <2>1, FS_Subset, FS_CardinalityType
<1>2. IsFiniteSet(B) /\ Cardinality(B) = Cardinality(K)
  <2>1. IsFiniteSet({t}) /\ Cardinality({t}) = 1
    BY FS_Singleton
  <2>2. IsFiniteSet(B) /\ Cardinality(B) = Cardinality({t}) * Cardinality(K)
    BY <1>0, <2>1, FS_Product
  <2> QED
    BY <1>1, <2>1, <2>2
<1>3. S = A \cup B /\ A \cap B = {}
  <2>1. \A h \in S : h = <<h[1], h[2]>>
    BY <1>0
  <2>2. \A h \in S : h \in A \/ h \in B
    BY <1>0, <2>1
  <2>3. \A h \in B : h \in S /\ h[1] = t
    BY <1>0
  <2> QED
    BY <1>0, <2>2, <2>3
<1> HIDE DEF B
<1>4. Cardinality(A \cup B) = Cardinality(A) + Cardinality(B) - Cardinality(A \cap B)
  BY <1>0, <1>1, <1>2, FS_Union
<1>5. Cardinality(A \cap B) = 0
  BY <1>3, FS_EmptySet
<1> QED
  BY <1>1, <1>2, <1>3, <1>4, <1>5

\* Which of its dentries' lower dentries a call holds.
HoldsAt(t, l) == {k \in HeldBy(Op(t)) : call[t].dir # <<>> /\ Lower(t, k) = l}
TakenAt(t, d) == {k \in DOMAIN call[t].dir : call[t].dir[k] = d}

LEMMA UsersChange ==
  ASSUME RefsInv, NEW t \in Tasks, Alone(t), OthersUp(t), NEW l \in Lowers
  PROVE  /\ Cardinality(Users(l)') = Cardinality(Users(l)) - Cardinality(HoldsAt(t, l)) + Cardinality(HoldsAt(t, l)')
         /\ Cardinality(HoldsAt(t, l)) \in Nat /\ Cardinality(HoldsAt(t, l)') \in Nat
<1> DEFINE A == {h \in Users(l) : h[1] # t}
           B == {h \in Users(l)' : h[1] # t}
<1>1. /\ Users(l) \subseteq Tasks \X (1..2) /\ Users(l)' \subseteq Tasks \X (1..2)
      /\ \A k : k \in HoldsAt(t, l) => k \in 1..2
      /\ \A k : k \in HoldsAt(t, l)' => k \in 1..2
  BY DEF Users, HoldsAt, HeldBy
<1>2. /\ \A k : <<t, k>> \in Users(l) <=> k \in HoldsAt(t, l)
      /\ \A k : <<t, k>> \in Users(l)' <=> k \in HoldsAt(t, l)'
  BY <1>1 DEF Users, HoldsAt
<1>3. IsFiniteSet(HoldsAt(t, l)) /\ IsFiniteSet(HoldsAt(t, l)') /\ IsFiniteSet(Users(l)) /\ IsFiniteSet(Users(l)')
  <2>1. HoldsAt(t, l) \subseteq 1..2 /\ HoldsAt(t, l)' \subseteq 1..2
    BY <1>1
  <2> QED
    BY <1>1, <2>1, Numbers, FS_Subset
<1>4. A = B
  <2>1. ASSUME NEW s \in Tasks \ {t}, call[s].dir # <<>>, NEW k \in HeldBy(Op(s))
        PROVE  Lower(s, k)' = Lower(s, k)
    <3>1. k \in 1..2 /\ call[s].du[k] \in Uppers
      BY <2>1, HeldAreReached DEF RefsInv, Types
    <3>2. up'[call[s].du[k]].lower = up[call[s].du[k]].lower
      BY <2>1, <3>1 DEF OthersUp
    <3> QED
      BY <2>1, <3>2 DEF Lower, Alone
  <2>2. \A h \in Tasks \X (1..2) : h[1] \in Tasks
    OBVIOUS
  <2>3. \A s \in Tasks \ {t} : call'[s] = call[s]
    BY DEF Alone
  <2>4. \A h \in Tasks \X (1..2) : h[1] # t => (h \in Users(l)' <=> h \in Users(l))
    BY <2>1, <2>2, <2>3 DEF Users, Op
  <2> QED
    BY <1>1, <2>4
<1>5. /\ \A h : h \in A <=> h \in Users(l) /\ h[1] # t
      /\ \A h : h \in B <=> h \in Users(l)' /\ h[1] # t
  OBVIOUS
<1> HIDE DEF A, B
<1>6. Cardinality(Users(l)) = Cardinality(A) + Cardinality(HoldsAt(t, l)) /\ Cardinality(A) \in Nat
      /\ Cardinality(HoldsAt(t, l)) \in Nat
  <2>1. SplitFor(t, Users(l), A, HoldsAt(t, l))
    BY <1>1, <1>2, <1>3, <1>5 DEF SplitFor
  <2> QED
    BY <2>1, PairsOfOne
<1>7. Cardinality(Users(l)') = Cardinality(B) + Cardinality(HoldsAt(t, l)')
      /\ Cardinality(HoldsAt(t, l)') \in Nat
  <2>1. SplitFor(t, Users(l)', B, HoldsAt(t, l)')
    BY <1>1, <1>2, <1>3, <1>5 DEF SplitFor
  <2> QED
    BY <2>1, PairsOfOne
<1> QED
  BY <1>4, <1>6, <1>7

LEMMA TakersChange ==
  ASSUME call \in [Tasks -> Calls], call' \in [Tasks -> Calls], NEW t \in Tasks, Alone(t), NEW d \in Dirs
  PROVE  /\ Cardinality(Takers(d)') = Cardinality(Takers(d)) - Times(call[t].dir, d) + Times(call'[t].dir, d)
         /\ Cardinality(Takers(d)) \in Nat /\ Times(call[t].dir, d) \in Nat /\ Times(call'[t].dir, d) \in Nat
<1> DEFINE A == {h \in Takers(d) : h[1] # t}
           B == {h \in Takers(d)' : h[1] # t}
<1>0. DOMAIN call[t].dir \subseteq 1..2 /\ DOMAIN call'[t].dir \subseteq 1..2
  <2>1. \A c \in Calls : c.dir \in {<<>>} \cup [1..1 -> Dirs] \cup [1..2 -> Dirs]
    BY DEF Calls
  <2>2. \A s \in {<<>>} \cup [1..1 -> Dirs] \cup [1..2 -> Dirs] : DOMAIN s \subseteq 1..2
    OBVIOUS
  <2> QED
    BY <2>1, <2>2
<1>1. /\ Takers(d) \subseteq Tasks \X (1..2) /\ Takers(d)' \subseteq Tasks \X (1..2)
      /\ TakenAt(t, d) \subseteq 1..2 /\ TakenAt(t, d)' \subseteq 1..2
  BY <1>0 DEF Takers, TakenAt
<1>2. /\ \A k : <<t, k>> \in Takers(d) <=> k \in TakenAt(t, d)
      /\ \A k : <<t, k>> \in Takers(d)' <=> k \in TakenAt(t, d)'
  BY <1>0, <1>1 DEF Takers, TakenAt
<1>3. IsFiniteSet(TakenAt(t, d)) /\ IsFiniteSet(TakenAt(t, d)') /\ IsFiniteSet(Takers(d)) /\ IsFiniteSet(Takers(d)')
  BY <1>1, Numbers, FS_Subset
<1>4. A = B
  <2>1. \A s \in Tasks \ {t} : call'[s] = call[s]
    BY DEF Alone
  <2>2. \A h \in Tasks \X (1..2) : h[1] # t => (h \in Takers(d)' <=> h \in Takers(d))
    BY <2>1 DEF Takers
  <2> QED
    BY <1>1, <2>2
<1>5. /\ \A h : h \in A <=> h \in Takers(d) /\ h[1] # t
      /\ \A h : h \in B <=> h \in Takers(d)' /\ h[1] # t
  OBVIOUS
<1> HIDE DEF A, B
<1>6. Cardinality(Takers(d)) = Cardinality(A) + Cardinality(TakenAt(t, d)) /\ Cardinality(A) \in Nat
      /\ Cardinality(TakenAt(t, d)) \in Nat
  <2>1. SplitFor(t, Takers(d), A, TakenAt(t, d))
    BY <1>1, <1>2, <1>3, <1>5 DEF SplitFor
  <2> QED
    BY <2>1, PairsOfOne
<1>7. Cardinality(Takers(d)') = Cardinality(B) + Cardinality(TakenAt(t, d)')
      /\ Cardinality(TakenAt(t, d)') \in Nat
  <2>1. SplitFor(t, Takers(d)', B, TakenAt(t, d)')
    BY <1>1, <1>2, <1>3, <1>5 DEF SplitFor
  <2> QED
    BY <2>1, PairsOfOne
<1>8. Times(call[t].dir, d) = Cardinality(TakenAt(t, d)) /\ Times(call'[t].dir, d) = Cardinality(TakenAt(t, d)')
  BY DEF Times, TakenAt
<1> QED
  BY <1>4, <1>6, <1>7, <1>8

\* The call goes on with the parents D, b is whether well.
DirCall(t, p, b, D) ==
    /\ Alone(t) /\ call' \in [Tasks -> Calls]
    /\ call'[t].ent = call[t].ent /\ call'[t].op = call[t].op /\ call'[t].du = call[t].du
    /\ call'[t].cur = call[t].cur /\ call'[t].dl = call[t].dl /\ call'[t].li = call[t].li
    /\ call'[t].pc = p /\ call'[t].rc = b /\ call'[t].dir = D

Parentss == {<<>>} \cup [1..1 -> Dirs] \cup [1..2 -> Dirs]

\* A call with another field is a call.
LEMMA FieldsOfCalls ==
  ASSUME NEW c \in Calls, NEW p \in Pcs, NEW b \in BOOLEAN, NEW D \in Parentss
  PROVE  [c EXCEPT !.pc = p] \in Calls /\ [c EXCEPT !.rc = b] \in Calls /\ [c EXCEPT !.dir = D] \in Calls
<1>1. [c EXCEPT !.pc = p] \in Calls
  BY DEF Calls
<1>2. [c EXCEPT !.rc = b] \in Calls
  BY DEF Calls
<1>3. [c EXCEPT !.dir = D] \in Calls
  BY DEF Calls, Parentss
<1> QED
  BY <1>1, <1>2, <1>3

LEMMA DirRcStep ==
  ASSUME call \in [Tasks -> Calls], NEW t \in Tasks, NEW p \in Pcs, NEW b \in BOOLEAN, NEW D \in Parentss,
         call' = [call EXCEPT ![t].pc = p, ![t].rc = b, ![t].dir = D]
  PROVE  DirCall(t, p, b, D)
<1>1. call'[t] = [[[call[t] EXCEPT !.pc = p] EXCEPT !.rc = b] EXCEPT !.dir = D]
      /\ call[t] \in Calls /\ Alone(t)
  BY DEF Alone
<1>2. call'[t] \in Calls
  BY <1>1, FieldsOfCalls
<1> QED
  BY <1>1, <1>2 DEF DirCall, Calls

LEMMA DirStep ==
  ASSUME call \in [Tasks -> Calls], NEW t \in Tasks, NEW p \in Pcs, NEW D \in Parentss,
         call' = [call EXCEPT ![t].pc = p, ![t].dir = D]
  PROVE  DirCall(t, p, call[t].rc, D)
<1>1. call'[t] = [[call[t] EXCEPT !.pc = p] EXCEPT !.dir = D] /\ call[t] \in Calls /\ Alone(t)
  BY DEF Alone
<1>2. call'[t] \in Calls
  <2>1. [call[t] EXCEPT !.pc = p] \in Calls
    BY <1>1, FieldsOfCalls
  <2> QED
    BY <1>1, <2>1, FieldsOfCalls
<1> QED
  BY <1>1, <1>2 DEF DirCall, Calls

\* Both names are found when an operation begins its work.
LEMMA LastFoundReached ==
  ASSUME NEW t \in Tasks, call[t] \in Calls, CallOf(t), LastFound(t), Op(t) # "walk"
  PROVE  /\ Reached(t, 1) /\ (Op(t) \in Pair => Reached(t, 2)) /\ Reached(t, Target(Op(t)))
         /\ (Op(t) \in Pair => call[t].cur = 2) /\ Target(Op(t)) \in 1..2
         /\ \A k \in HeldBy(Op(t)) : Reached(t, k)
<1>1. call[t].pc = "found" /\ call[t].cur \in 1..2 /\ (Op(t) \in Pair <=> call[t].cur = 2)
  BY DEF LastFound, At, CallOf, Calls, Pair
<1>2. Reached(t, call[t].cur) /\ (call[t].cur = 2 => Reached(t, 1))
  BY <1>1 DEF Reached
<1>3. Target(Op(t)) \in 1..2 /\ (Target(Op(t)) = 2 => Op(t) \in Pair)
  BY DEF Target, Pair
<1>4. \A k \in HeldBy(Op(t)) : k = 1 \/ (k = 2 /\ Op(t) \in Pair)
  BY DEF HeldBy, Pair
<1> QED
  BY <1>1, <1>2, <1>3, <1>4

LEMMA TakenAreDirs ==
  ASSUME RefsInv, NEW t \in Tasks, LastFound(t), Op(t) # "walk"
  PROVE  /\ Taken(t) \in Parentss /\ Taken(t) # <<>>
         /\ DOMAIN Taken(t) = IF Op(t) = "rename" THEN 1..2 ELSE 1..1
<1>1. /\ Reached(t, 1) /\ (Op(t) \in Pair => Reached(t, 2)) /\ Reached(t, Target(Op(t)))
      /\ Target(Op(t)) \in 1..2 /\ UseOf(t)
  BY LastFoundReached DEF RefsInv, Types
<1>2. \A k \in 1..2 : Reached(t, k) => Parents(t)[k] \in Dirs
  <2> SUFFICES ASSUME NEW k \in 1..2, Reached(t, k) PROVE Parents(t)[k] \in Dirs
    OBVIOUS
  <2>1. Lower(t, k) \in Lowers /\ \E u \in Uppers : up[u].lower = Lower(t, k)
    BY <1>1 DEF UseOf, Lower
  <2>2. low[Lower(t, k)].at \in Entries
    BY <2>1, ReferredIsKept
  <2>3. low[Lower(t, k)].at[1] \in Dirs
    BY <2>2 DEF Entries
  <2> QED
    BY <2>3 DEF Parents
<1>3. CASE Op(t) = "rename"
  <2>1. Taken(t) = Parents(t) /\ \A k \in 1..2 : Parents(t)[k] \in Dirs
    BY <1>1, <1>2, <1>3 DEF Taken, Pair
  <2>2. Parents(t) \in [1..2 -> Dirs] /\ DOMAIN Parents(t) = 1..2
    BY <2>1 DEF Parents
  <2>3. Parents(t) # <<>>
    BY <2>2
  <2> QED
    BY <1>3, <2>1, <2>2, <2>3 DEF Parentss
<1>4. CASE Op(t) # "rename"
  <2> DEFINE d == Parents(t)[Target(Op(t))]
  <2>1. Taken(t) = <<d>> /\ d \in Dirs
    BY <1>1, <1>2, <1>4 DEF Taken
  <2> HIDE DEF d
  <2>2. <<d>> \in [1..1 -> Dirs] /\ DOMAIN <<d>> = 1..1 /\ <<d>> # <<>>
    BY <2>1
  <2> QED
    BY <1>4, <2>1, <2>2 DEF Parentss
<1> QED
  BY <1>3, <1>4

LEMMA TakeParentsKeeps ==
  ASSUME RefsInv, NEW t \in Tasks, TakeParents(t)
  PROVE  /\ RefsInv' /\ DirCall(t, "plock", call[t].rc, Taken(t)) /\ call[t].dir = <<>>
         /\ up' = up /\ dirRefs' = [d \in Dirs |-> dirRefs[d] + Times(Taken(t), d)]
         /\ \A l \in Lowers : low'[l].at = low[l].at
<1>0. /\ Types /\ call \in [Tasks -> Calls] /\ call[t] \in Calls /\ CallOf(t) /\ LocksOf(t) /\ UseOf(t)
      /\ LowFunction(low) /\ LowerRefs /\ MountRefs /\ LastFound(t) /\ "plock" \in Pcs
  BY LowIsFunction DEF RefsInv, Types, TakeParents, Pcs
<1>1. call[t].pc = "found" /\ call[t].dir = <<>> /\ Op(t) # "walk"
  BY <1>0 DEF LastFound, At, CallOf, OpPcs, TakeParents, Permitted, Making, Removing
<1>2. /\ call' = [call EXCEPT ![t].pc = "plock", ![t].dir = Taken(t)]
      /\ low' = [l \in Lowers |-> [low[l] EXCEPT !.refs = @ + Held(t, l)]]
      /\ dirRefs' = [d \in Dirs |-> dirRefs[d] + Times(Taken(t), d)]
      /\ UNCHANGED <<scenario, content, seen, up, mntRefs, ulock, llock>>
  BY DEF TakeParents, below, locks
<1>3. /\ Taken(t) \in Parentss /\ Taken(t) # <<>>
      /\ DOMAIN Taken(t) = IF Op(t) = "rename" THEN 1..2 ELSE 1..1
  BY <1>0, <1>1, TakenAreDirs
<1>4. DirCall(t, "plock", call[t].rc, Taken(t))
  BY <1>0, <1>2, <1>3, DirStep
<1>5. /\ call[t].cur \in 1..2 /\ \A k \in HeldBy(Op(t)) : Reached(t, k) /\ k \in 1..2
      /\ Op(t) \in Pair => call[t].cur = 2
  BY <1>0, <1>1, LastFoundReached DEF Calls, HeldBy
<1>6. Steps(t) /\ OthersLock(t)
  BY <1>1, <1>2, <1>4 DEF Steps, DirCall, OthersLock, Reached, LookPcs, At, OpPcs
<1>7. CallOf(t)'
  BY <1>0, <1>1, <1>2, <1>3, <1>4, <1>5 DEF CallOf, At, Op, LookPcs, OpPcs, DirCall
<1>8. LocksOf(t)'
  BY <1>0, <1>1, <1>2, <1>4 DEF LocksOf, Op, LookPcs, LockedName, DirCall
<1>9. /\ \A s \in Tasks : CallOf(s)' /\ LocksOf(s)' /\ UseOf(s)' /\ FreshOf(s)' /\ SoleOf(s)'
      /\ UpperDcache' /\ OthersUp(t) /\ Alone(t)
      /\ (\A m \in Lowers : Pointers(m)' = Pointers(m)) /\ Pointing' = Pointing
  BY <1>2, <1>4, <1>6, <1>7, <1>8, StepsKeep DEF DirCall
<1>10. \A l \in Lowers : /\ Cardinality(Users(l)') = Cardinality(Users(l)) + Held(t, l)
                         /\ Held(t, l) \in Nat
                         /\ low[l].at = <<>> => Held(t, l) = 0
  <2> TAKE l \in Lowers
  <2>1. HoldsAt(t, l) = {} /\ Cardinality(HoldsAt(t, l)) = 0
    BY <1>1, FS_EmptySet DEF HoldsAt
  <2>2. HoldsAt(t, l)' = {k \in HeldBy(Op(t)) : Lower(t, k) = l}
    BY <1>2, <1>3, <1>4 DEF HoldsAt, Lower, Op, DirCall
  <2>3. Held(t, l) = Cardinality(HoldsAt(t, l)')
    BY <2>2 DEF Held
  <2>4. low[l].at = <<>> => HoldsAt(t, l)' = {}
    <3> SUFFICES ASSUME low[l].at = <<>>, NEW k \in HeldBy(Op(t)), Lower(t, k) = l PROVE FALSE
      BY <2>2
    <3>1. call[t].du[k] \in Uppers
      BY <1>0, <1>5 DEF UseOf
    <3>2. \E u \in Uppers : up[u].lower = l
      BY <3>1 DEF Lower
    <3> QED
      BY <3>2, ReferredIsKept, NoEntryIsEmpty
  <2>5. Cardinality(Users(l)') = Cardinality(Users(l)) - Cardinality(HoldsAt(t, l)) + Cardinality(HoldsAt(t, l)')
        /\ Cardinality(HoldsAt(t, l)') \in Nat /\ Cardinality(Users(l)) \in Nat
    BY <1>9, UsersChange, CountsAreNats
  <2>6. Cardinality({}) = 0
    BY FS_EmptySet
  <2>7. low[l].at = <<>> => Held(t, l) = 0
    BY <2>3, <2>4, <2>6
  <2> QED
    BY <2>1, <2>3, <2>5, <2>7
<1>11. \A l \in Lowers : Finders(l)' = Finders(l)
  <2>1. SameFinds(t)
    BY <1>1, <1>4 DEF SameFinds, DirCall
  <2> QED
    BY <1>9, <2>1, FindersStay
<1>12. LowFunction(low') /\ (\A l \in Lowers : low'[l].refs = low[l].refs + Held(t, l) /\ low'[l].at = low[l].at)
  <2>1. \A l \in Lowers : low[l] \in LowerRecs /\ (low[l].at = <<>> => low[l] = FreeLower)
    BY <1>0 DEF LowFunction
  <2>2. \A l \in Lowers : low'[l] = [low[l] EXCEPT !.refs = low[l].refs + Held(t, l)]
    BY <1>2
  <2>3. ASSUME NEW l \in Lowers
        PROVE  /\ low'[l] \in LowerRecs /\ low'[l].at = low[l].at
               /\ low'[l].refs = low[l].refs + Held(t, l)
               /\ Held(t, l) = 0 => low'[l] = low[l]
    <3> DEFINE n == low[l].refs + Held(t, l)
    <3>0. low[l] \in LowerRecs /\ low'[l] = [low[l] EXCEPT !.refs = n]
      BY <2>1, <2>2
    <3>2. low[l].refs \in Int /\ Held(t, l) \in Nat
      BY <1>10, <3>0 DEF LowerRecs
    <3>1. low[l] \in LowerRecs /\ low'[l] = [low[l] EXCEPT !.refs = n] /\ n \in Int
      BY <3>0, <3>2
    <3>3. Held(t, l) = 0 => n = low[l].refs
      BY <3>2
    <3> HIDE DEF n
    <3>4. low'[l] \in LowerRecs /\ low'[l].at = low[l].at /\ low'[l].refs = n
      BY <3>1 DEF LowerRecs
    <3>5. n = low[l].refs => low'[l] = low[l]
      BY <3>1 DEF LowerRecs
    <3> QED
      BY <3>3, <3>4, <3>5 DEF n
  <2>4. low' \in [Lowers -> LowerRecs]
    BY <1>2, <2>3
  <2> QED
    BY <1>10, <2>1, <2>3, <2>4 DEF LowFunction
<1>13. low' \in [Lowers -> LowerRecs] /\ LowerDcache' /\ LowerRefs'
  <2>1. \A l \in Lowers : low'[l].refs =
            Cardinality(Pointers(l)') + Cardinality(Finders(l)') + Cardinality(Users(l)')
    BY <1>0, <1>9, <1>10, <1>11, <1>12, CountsAreNats DEF LowerRefs
  <2> QED
    BY <1>12, <2>1, LowersKeep
<1>14. Types'
  <2>1. \A d \in Dirs : Times(Taken(t), d) \in Nat
    BY <1>0, <1>4, TakersChange DEF DirCall
  <2>2. dirRefs' \in [Dirs -> Int]
    BY <1>0, <1>2, <2>1 DEF Types
  <2>3. call' \in [Tasks -> Calls]
    BY <1>4 DEF DirCall
  <2> QED
    BY <1>0, <1>2, <1>13, <2>2, <2>3 DEF Types, LowerRecs
<1> QED
  BY <1>0, <1>1, <1>2, <1>4, <1>9, <1>12, <1>13, <1>14 DEF RefsInv, MountRefs

\* Lower dentries that stay referred to keep their place.
AtStays == \A l \in Lowers : low[l].refs # 0 /\ low'[l].refs # 0 => low'[l].at = low[l].at

LEMMA LetGoKeeps ==
  ASSUME RefsInv, NEW t \in Tasks, Alone(t), OthersUp(t), call[t].dir # <<>>, call'[t].dir = <<>>,
         \A l \in Lowers : Pointers(l)' = Pointers(l) /\ Finders(l)' = Finders(l),
         low' = Settled([l \in Lowers |-> [low[l] EXCEPT !.refs = @ - Held(t, l)]])
  PROVE  low' \in [Lowers -> LowerRecs] /\ LowerDcache' /\ LowerRefs' /\ AtStays
<1> DEFINE f == [l \in Lowers |-> [low[l] EXCEPT !.refs = @ - Held(t, l)]]
<1>0. /\ Types /\ call[t] \in Calls /\ CallOf(t) /\ UseOf(t) /\ LowFunction(low) /\ LowerRefs
  BY LowIsFunction DEF RefsInv, Types
<1>1. \A l \in Lowers : /\ Cardinality(Users(l)') = Cardinality(Users(l)) - Held(t, l)
                        /\ Held(t, l) \in Nat
                        /\ low[l].at = <<>> => Held(t, l) = 0
  <2> TAKE l \in Lowers
  <2>0. Cardinality({}) = 0
    BY FS_EmptySet
  <2>1. HoldsAt(t, l)' = {}
    BY DEF HoldsAt
  <2>2. HoldsAt(t, l) = {k \in HeldBy(Op(t)) : Lower(t, k) = l}
    BY DEF HoldsAt
  <2>3. Held(t, l) = Cardinality(HoldsAt(t, l))
    BY <2>2 DEF Held
  <2>4. low[l].at = <<>> => HoldsAt(t, l) = {}
    <3> SUFFICES ASSUME low[l].at = <<>>, NEW k \in HeldBy(Op(t)), Lower(t, k) = l PROVE FALSE
      BY <2>2
    <3>1. call[t].du[k] \in Uppers
      BY <1>0, HeldAreReached
    <3>2. \E u \in Uppers : up[u].lower = l
      BY <3>1 DEF Lower
    <3> QED
      BY <3>2, ReferredIsKept, NoEntryIsEmpty
  <2>5. Cardinality(Users(l)') = Cardinality(Users(l)) - Cardinality(HoldsAt(t, l)) + Cardinality(HoldsAt(t, l)')
        /\ Cardinality(HoldsAt(t, l)) \in Nat /\ Cardinality(Users(l)) \in Nat
    BY UsersChange, CountsAreNats
  <2>6. low[l].at = <<>> => Held(t, l) = 0
    BY <2>0, <2>3, <2>4
  <2> QED
    BY <2>0, <2>1, <2>3, <2>5, <2>6
<1>2. \A l \in Lowers : /\ f[l] \in LowerRecs /\ f[l].at = low[l].at
                        /\ f[l].refs = low[l].refs - Held(t, l)
                        /\ Held(t, l) = 0 => f[l] = low[l]
  <2> TAKE l \in Lowers
  <2> DEFINE n == low[l].refs - Held(t, l)
  <2>0. low[l] \in LowerRecs /\ f[l] = [low[l] EXCEPT !.refs = n]
    BY <1>0 DEF LowFunction
  <2>2. low[l].refs \in Int /\ Held(t, l) \in Nat
    BY <1>1, <2>0 DEF LowerRecs
  <2>3. n \in Int /\ (Held(t, l) = 0 => n = low[l].refs)
    BY <2>2
  <2> HIDE DEF n, f
  <2>4. f[l] \in LowerRecs /\ f[l].at = low[l].at /\ f[l].refs = n
    BY <2>0, <2>3 DEF LowerRecs
  <2>5. n = low[l].refs => f[l] = low[l]
    BY <2>0 DEF LowerRecs
  <2> QED
    BY <2>3, <2>4, <2>5 DEF n
<1>3. LowFunction(f)
  <2>1. f \in [Lowers -> LowerRecs]
    BY <1>2
  <2>2. \A l \in Lowers : f[l].at = <<>> => f[l] = FreeLower
    BY <1>0, <1>1, <1>2 DEF LowFunction
  <2> HIDE DEF f
  <2> QED
    BY <2>1, <2>2 DEF LowFunction
<1>4. low' = Settled(f)
  OBVIOUS
<1> HIDE DEF f
<1>5. \A l \in Lowers : f[l].refs = Cardinality(Pointers(l)') + Cardinality(Finders(l)') + Cardinality(Users(l)')
  <2> TAKE l \in Lowers
  <2>1. /\ low[l].refs = Cardinality(Pointers(l)) + Cardinality(Finders(l)) + Cardinality(Users(l))
        /\ Cardinality(Pointers(l)) \in Nat /\ Cardinality(Finders(l)) \in Nat /\ Cardinality(Users(l)) \in Nat
    BY <1>0, CountsAreNats DEF LowerRefs
  <2>2. Pointers(l)' = Pointers(l) /\ Finders(l)' = Finders(l)
    OBVIOUS
  <2> QED
    BY <1>1, <1>2, <2>1, <2>2
<1>6. AtStays
  BY <1>2, <1>3, <1>4, SettledKeeps DEF AtStays
<1> QED
  BY <1>3, <1>4, <1>5, <1>6, LowersKeep

LEMMA RenamePutKeeps ==
  ASSUME RefsInv, NEW t \in Tasks, RenamePut(t)
  PROVE  /\ RefsInv' /\ DirCall(t, "return", call[t].rc, <<>>) /\ AtStays /\ up' = up
         /\ dirRefs' = [d \in Dirs |-> dirRefs[d] - Times(Parents(t), d)]
<1>0. /\ Types /\ call \in [Tasks -> Calls] /\ call[t] \in Calls /\ CallOf(t) /\ LocksOf(t)
      /\ MountRefs /\ "return" \in Pcs /\ call[t].pc = "put" /\ <<>> \in Parentss
  BY DEF RefsInv, Types, RenamePut, Pcs, At, Parentss
<1>1. /\ call' = [call EXCEPT ![t].pc = "return", ![t].dir = <<>>]
      /\ LetGo(t, Parents(t))
      /\ UNCHANGED <<scenario, content, seen, up, mntRefs, ulock, llock>>
  BY DEF RenamePut, below, locks
<1>2. DirCall(t, "return", call[t].rc, <<>>)
  BY <1>0, <1>1, DirStep
<1>3. Op(t) = "rename" /\ call[t].cur = 2 /\ DOMAIN call[t].dir = 1..2 /\ call[t].dir # <<>>
  <2>1. Op(t) = "rename" /\ call[t].cur = 2 /\ DOMAIN call[t].dir = 1..2
    BY <1>0 DEF CallOf, At, OpPcs, Pair
  <2>2. 1 \in 1..2 /\ DOMAIN <<>> = {}
    OBVIOUS
  <2> QED
    BY <2>1, <2>2
<1>4. Steps(t) /\ OthersLock(t) /\ Alone(t)
  BY <1>0, <1>1, <1>2 DEF Steps, DirCall, OthersLock, Reached, LookPcs, At, OpPcs
<1>5. CallOf(t)'
  BY <1>0, <1>1, <1>2, <1>3 DEF CallOf, At, Op, LookPcs, OpPcs, DirCall
<1>6. LocksOf(t)'
  BY <1>0, <1>1, <1>2 DEF LocksOf, Op, LookPcs, LockedName, DirCall
<1>7. /\ \A s \in Tasks : CallOf(s)' /\ LocksOf(s)' /\ UseOf(s)' /\ FreshOf(s)' /\ SoleOf(s)'
      /\ UpperDcache' /\ OthersUp(t)
      /\ (\A m \in Lowers : Pointers(m)' = Pointers(m)) /\ Pointing' = Pointing
  BY <1>1, <1>4, <1>5, <1>6, StepsKeep
<1>8. \A l \in Lowers : Finders(l)' = Finders(l)
  <2>1. SameFinds(t)
    BY <1>0, <1>2 DEF SameFinds, DirCall
  <2> QED
    BY <1>4, <2>1, FindersStay
<1>9. low' \in [Lowers -> LowerRecs] /\ LowerDcache' /\ LowerRefs' /\ AtStays
  BY <1>1, <1>2, <1>3, <1>4, <1>7, <1>8, LetGoKeeps DEF LetGo, DirCall
<1>10. dirRefs' \in [Dirs -> Int] /\ dirRefs' = [d \in Dirs |-> dirRefs[d] - Times(Parents(t), d)]
  <2>1. \A d \in Dirs : Times(Parents(t), d) \in Nat
    <3> TAKE d \in Dirs
    <3>1. {k \in DOMAIN Parents(t) : Parents(t)[k] = d} \subseteq 1..2
      BY DEF Parents
    <3> QED
      BY <3>1, Numbers, FS_Subset, FS_CardinalityType DEF Times
  <2> QED
    BY <1>0, <1>1, <2>1 DEF LetGo, Types
<1>11. Types'
  <2>1. call' \in [Tasks -> Calls]
    BY <1>2 DEF DirCall
  <2> QED
    BY <1>0, <1>1, <1>9, <1>10, <2>1 DEF Types, LowerRecs
<1> QED
  BY <1>0, <1>1, <1>2, <1>7, <1>9, <1>10, <1>11 DEF RefsInv, MountRefs

\* The lofs dentry u gets another inode, and may be unhashed.
Dimmed(u) ==
    /\ up' \in [Uppers -> UpperDentries] /\ \A w \in Uppers \ {u} : up'[w] = up[w]
    /\ up'[u].at = up[u].at /\ up'[u].lower = up[u].lower /\ (up'[u].hashed => up[u].hashed)

LEMMA DimStep ==
  ASSUME up \in [Uppers -> UpperDentries], NEW u \in Uppers, NEW i \in Maybe, NEW b \in BOOLEAN,
         up' = [up EXCEPT ![u].inode = i, ![u].hashed = @ /\ b]
  PROVE  Dimmed(u)
<1>1. up[u] \in UpperDentries
  OBVIOUS
<1>2. (up[u].hashed /\ b) \in BOOLEAN
  OBVIOUS
<1>3. up' = [up EXCEPT ![u] = [up[u] EXCEPT !.inode = i, !.hashed = up[u].hashed /\ b]]
  OBVIOUS
<1> DEFINE r == [up[u] EXCEPT !.inode = i, !.hashed = up[u].hashed /\ b]
<1>4. r \in UpperDentries /\ r.at = up[u].at /\ r.lower = up[u].lower /\ (r.hashed => up[u].hashed)
  BY <1>1, <1>2 DEF UpperDentries
<1>5. up' = [up EXCEPT ![u] = r]
  BY <1>3
<1> HIDE DEF r
<1>6. up' \in [Uppers -> UpperDentries] /\ up'[u] = r /\ \A w \in Uppers \ {u} : up'[w] = up[w]
  BY <1>4, <1>5
<1> QED
  BY <1>4, <1>6 DEF Dimmed

LEMMA FinishKeeps ==
  ASSUME RefsInv, NEW t \in Tasks, Finish(t)
  PROVE  /\ RefsInv' /\ AtStays /\ call[t].pc = "finish" /\ Op(t) # "rename"
         /\ Dimmed(call[t].du[Target(Op(t))])
         /\ \E b \in BOOLEAN : DirCall(t, "return", b, <<>>)
         /\ dirRefs' = [d \in Dirs |-> dirRefs[d] - Times(call[t].dir, d)]
<1> DEFINE u == call[t].du[Target(Op(t))]
<1>0. /\ Types /\ call \in [Tasks -> Calls] /\ call[t] \in Calls /\ CallOf(t) /\ LocksOf(t) /\ UseOf(t)
      /\ SoleOf(t) /\ UpperDcache /\ MountRefs /\ "return" \in Pcs /\ call[t].pc = "finish" /\ <<>> \in Parentss
      /\ Op(t) # "rename"
  BY DEF RefsInv, Types, Finish, Pcs, At, Parentss
<1>1. /\ Op(t) # "walk" /\ (Op(t) \in Pair => call[t].cur = 2) /\ DOMAIN call[t].dir = 1..1
      /\ call[t].dir # <<>> /\ call[t].cur \in 1..2
  <2>1. Op(t) # "walk" /\ (Op(t) \in Pair => call[t].cur = 2) /\ DOMAIN call[t].dir = 1..1
        /\ call[t].cur \in 1..2
    BY <1>0 DEF CallOf, OpPcs, Calls
  <2>2. 1 \in 1..1 /\ DOMAIN <<>> = {}
    OBVIOUS
  <2> QED
    BY <2>1, <2>2
<1>2. u \in Uppers /\ up[u].lower \in Lowers /\ u = call[t].du[Target(Op(t))]
  <2>1. Target(Op(t)) \in 1..2 /\ (Target(Op(t)) = 2 => Op(t) \in Pair)
    BY DEF Target, Pair
  <2>2. Reached(t, Target(Op(t)))
    BY <1>0, <1>1, <2>1 DEF Reached, OpPcs
  <2> QED
    BY <1>0, <2>1, <2>2 DEF UseOf, Lower
<1> HIDE DEF u
<1>3. PICK good \in BOOLEAN :
          /\ call' = [call EXCEPT ![t].pc = "return", ![t].rc = good, ![t].dir = <<>>]
          /\ \E i \in Maybe, b \in BOOLEAN : up' = [up EXCEPT ![u].inode = i, ![u].hashed = @ /\ b]
  <2> DEFINE made == Op(t) \in Making
  <2>1. PICK good \in {call[t].rc} \cup (IF made /\ scenario.fails THEN {FALSE} ELSE {}) :
          /\ call' = [call EXCEPT ![t].pc = "return", ![t].rc = good, ![t].dir = <<>>]
          /\ up' = [up EXCEPT ![u].inode = IF made /\ good THEN low[up[u].lower].inode ELSE @,
                              ![u].hashed = @ /\ (Op(t) \in {"mkdir", "symlink"} => good)]
    BY DEF Finish, u
  <2>2. good \in BOOLEAN
    BY <1>0, <2>1 DEF Calls
  <2>3. (IF made /\ good THEN low[up[u].lower].inode ELSE up[u].inode) \in Maybe
    BY <1>0, <1>2 DEF Types, UpperDentries
  <2>4. (Op(t) \in {"mkdir", "symlink"} => good) \in BOOLEAN
    BY <2>2
  <2> HIDE DEF made
  <2>5. up' = [up EXCEPT ![u].inode = IF made /\ good THEN low[up[u].lower].inode ELSE up[u].inode,
                         ![u].hashed = @ /\ (Op(t) \in {"mkdir", "symlink"} => good)]
    BY <2>1
  <2> QED
    BY <2>1, <2>2, <2>3, <2>4, <2>5
<1>4. /\ LetGo(t, call[t].dir) /\ llock' = Unlocked(llock, t)
      /\ UNCHANGED <<scenario, content, seen, mntRefs, ulock>>
  BY DEF Finish, below
<1>5. DirCall(t, "return", good, <<>>)
  BY <1>0, <1>3, DirRcStep
<1>6. Dimmed(u)
  BY <1>0, <1>2, <1>3, DimStep DEF Types
<1>7. OthersUp(t) /\ NoTaking(t) /\ OthersLock(t) /\ Alone(t)
  <2>1. ASSUME NEW s \in Tasks \ {t}, NEW k \in 1..2, call[s].du[k] \in Uppers,
               k = call[s].cur /\ call[s].pc \in LookPcs
        PROVE  up'[call[s].du[k]].inode = NoInode /\ ~up'[call[s].du[k]].hashed
    <3>1. FreshOf(s) /\ call[s].du[k] = Found(s)
      BY <2>1 DEF RefsInv, Found
    <3>2. u # call[s].du[k]
      <4>1. Target(Op(t)) \in 1..2
        BY DEF Target
      <4> QED
        BY <1>2, <2>1, <3>1, <4>1 DEF FreshOf
    <3> QED
      BY <1>6, <2>1, <3>1, <3>2 DEF FreshOf, Dimmed
  <2>2. \A w \in Uppers : up'[w].at = up[w].at /\ up'[w].lower = up[w].lower /\ (up'[w].hashed => up[w].hashed)
    BY <1>6 DEF Dimmed
  <2>3. OthersUp(t)
    BY <2>1, <2>2 DEF OthersUp, RefsInv, UseOf
  <2> QED
    BY <1>4, <1>5, <2>3 DEF NoTaking, OthersLock, DirCall
<1>8. CallOf(t)'
  BY <1>0, <1>1, <1>4, <1>5 DEF CallOf, At, Op, LookPcs, OpPcs, DirCall
<1>9. LocksOf(t)'
  BY <1>0, <1>4, <1>5 DEF LocksOf, Op, LookPcs, LockedName, DirCall
<1>10. UseOf(t)'
  <2>1. \A k \in 1..2 : Reached(t, k)' => Reached(t, k)
    BY <1>0, <1>5 DEF Reached, DirCall, At, OpPcs
  <2>2. \A w \in Uppers : up'[w].at = up[w].at /\ up'[w].lower = up[w].lower
    BY <1>6 DEF Dimmed
  <2> QED
    BY <1>0, <1>5, <2>1, <2>2 DEF UseOf, DirCall, Lower
<1>11. FreshOf(t)'
  BY <1>5 DEF FreshOf, DirCall, LookPcs
<1>12. SoleOf(t)'
  <2>1. \A k \in 1..2 : Under(t, k)' => Under(t, k) /\ call[t].du[k] \in Uppers
    BY <1>0, <1>5 DEF Under, Reached, DirCall, At, OpPcs, LookPcs, LockedName, Op, UseOf
  <2>2. \A w \in Uppers : up'[w].at = up[w].at /\ (up'[w].hashed => up[w].hashed)
    BY <1>6 DEF Dimmed
  <2> QED
    BY <1>0, <1>5, <2>1, <2>2 DEF SoleOf, DirCall
<1>13. \A s \in Tasks : CallOf(s)' /\ LocksOf(s)' /\ UseOf(s)' /\ FreshOf(s)' /\ SoleOf(s)'
  BY <1>4, <1>7, <1>8, <1>9, <1>10, <1>11, <1>12, OthersKeep
<1>14. UpperDcache'
  <2>1. up[u].at \in Entries
    <3>1. Target(Op(t)) \in 1..2
      BY DEF Target
    <3> QED
      BY <1>0, <1>2, <3>1 DEF UseOf
  <2>2. \A w \in Uppers : /\ up'[w].at = up[w].at /\ up'[w].lower = up[w].lower
                          /\ (up'[w].hashed => up[w].hashed) /\ (w # u => up'[w] = up[w])
    BY <1>6 DEF Dimmed
  <2> QED
    BY <1>0, <2>1, <2>2, NoEntryIsEmpty DEF UpperDcache
<1>15. \A l \in Lowers : Pointers(l)' = Pointers(l) /\ Finders(l)' = Finders(l)
  <2>1. SameFinds(t)
    BY <1>0, <1>5 DEF SameFinds, DirCall
  <2>2. \A w \in Uppers : up'[w].lower = up[w].lower
    BY <1>6 DEF Dimmed
  <2> QED
    BY <1>7, <2>1, <2>2, FindersStay DEF Pointers
<1>16. Pointing' = Pointing
  BY <1>6 DEF Pointing, Dimmed
<1>17. low' \in [Lowers -> LowerRecs] /\ LowerDcache' /\ LowerRefs' /\ AtStays
  BY <1>1, <1>4, <1>5, <1>7, <1>15, LetGoKeeps DEF LetGo, DirCall
<1>18. dirRefs' \in [Dirs -> Int] /\ dirRefs' = [d \in Dirs |-> dirRefs[d] - Times(call[t].dir, d)]
  <2>1. \A d \in Dirs : Times(call[t].dir, d) \in Nat
    BY <1>0, <1>5, TakersChange DEF DirCall
  <2> QED
    BY <1>0, <1>4, <2>1 DEF LetGo, Types
<1>19. llock' \in [Dirs -> Tasks \cup {NoOne}]
  BY <1>0, <1>4 DEF Types, Unlocked
<1>20. Types'
  <2>1. call' \in [Tasks -> Calls] /\ up' \in [Uppers -> UpperDentries]
    BY <1>5, <1>6 DEF DirCall, Dimmed
  <2> QED
    BY <1>0, <1>4, <1>17, <1>18, <1>19, <2>1 DEF Types, LowerRecs
<1> QED
  BY <1>0, <1>2, <1>4, <1>5, <1>6, <1>13, <1>14, <1>16, <1>17, <1>18, <1>20 DEF RefsInv, MountRefs

-----------------------------------------------------------------------------
(* Changes of the lower directories.                                        *)

\* References stay, and who is referred to.
RefsOf(f) == LowFunction(f) /\ \A l \in Lowers : f[l].refs = low[l].refs

LEMMA LowerIsRefsOf == RefsInv => RefsOf(low)
BY LowIsFunction DEF RefsInv, RefsOf

LEMMA RestaledKeeps ==
  ASSUME NEW f, RefsOf(f), NEW c
  PROVE  RefsOf(Restaled(f, c)) /\ \A l \in Lowers : Restaled(f, c)[l].at = f[l].at
<1>1. ASSUME NEW l \in Lowers
      PROVE  /\ Restaled(f, c)[l] \in LowerRecs /\ Restaled(f, c)[l].at = f[l].at
             /\ Restaled(f, c)[l].refs = f[l].refs /\ (f[l].at = <<>> => Restaled(f, c)[l] = FreeLower)
  <2> DEFINE b == f[l].stale \/ (f[l].hashed /\ f[l].inode # c[f[l].at])
  <2>1. f[l] \in LowerRecs /\ (f[l].at = <<>> => f[l] = FreeLower) /\ f[l].stale \in BOOLEAN
    BY DEF RefsOf, LowFunction, LowerRecs
  <2>2. Restaled(f, c)[l] = [f[l] EXCEPT !.stale = b] /\ b \in BOOLEAN
    BY <2>1 DEF Restaled
  <2>3. ~f[l].hashed => b = f[l].stale
    BY <2>1
  <2> HIDE DEF b
  <2>4. /\ Restaled(f, c)[l] \in LowerRecs /\ Restaled(f, c)[l].at = f[l].at
        /\ Restaled(f, c)[l].refs = f[l].refs
    BY <2>1, <2>2 DEF LowerRecs
  <2>5. b = f[l].stale => Restaled(f, c)[l] = f[l]
    BY <2>1, <2>2 DEF LowerRecs
  <2> QED
    BY <2>1, <2>3, <2>4, <2>5, FreesAreFree
<1>2. Restaled(f, c) \in [Lowers -> LowerRecs]
  <2>1. Restaled(f, c) = [l \in Lowers |-> Restaled(f, c)[l]]
    BY DEF Restaled
  <2> QED
    BY <1>1, <2>1
<1> QED
  BY <1>1, <1>2 DEF RefsOf, LowFunction

LEMMA InodeKeeps ==
  ASSUME NEW f, RefsOf(f), NEW l \in Lowers, f[l].at # <<>>, NEW i \in Maybe
  PROVE  /\ RefsOf([f EXCEPT ![l].inode = i])
         /\ \A m \in Lowers : [f EXCEPT ![l].inode = i][m].at = f[m].at
BY DEF RefsOf, LowFunction, LowerRecs

LEMMA UnhashedKeeps ==
  ASSUME NEW f, RefsOf(f), NEW x \in Lowers \cup {NoDentry}, x \in Lowers => f[x].at # <<>>
  PROVE  /\ RefsOf(Unhash(f, x)) /\ \A m \in Lowers : Unhash(f, x)[m].at = f[m].at
BY UnhashKeeps DEF RefsOf

\* d_move exchanges the places: f becomes g.
Exchanged(S, f, a, b, g) ==
    /\ g = [f EXCEPT ![a] = [f[a] EXCEPT !.at = f[b].at, !.hashed = TRUE],
                     ![b] = [f[b] EXCEPT !.at = f[a].at, !.hashed = FALSE]]
    /\ g[a] = [f[a] EXCEPT !.at = f[b].at, !.hashed = TRUE]
    /\ g[b] = [f[b] EXCEPT !.at = f[a].at, !.hashed = FALSE]
    /\ \A x \in S \ {a, b} : g[x] = f[x]

LEMMA MovedIs ==
  ASSUME NEW S, NEW R, NEW f \in [S -> R], NEW a \in S, NEW b \in S, a # b
  PROVE  Exchanged(S, f, a, b, Moved(f, a, b))
<1>1. Moved(f, a, b) = [f EXCEPT ![a] = [f[a] EXCEPT !.at = f[b].at, !.hashed = TRUE],
                                 ![b] = [f[b] EXCEPT !.at = f[a].at, !.hashed = FALSE]]
  BY DEF Moved
<1> QED
  BY <1>1 DEF Exchanged

LEMMA MovedKeeps ==
  ASSUME NEW f, RefsOf(f), NEW a \in Lowers, NEW b \in Lowers, a # b, f[a].at # <<>>, f[b].at # <<>>
  PROVE  /\ RefsOf(Moved(f, a, b))
         /\ Moved(f, a, b)[a].at = f[b].at /\ Moved(f, a, b)[b].at = f[a].at
         /\ \A m \in Lowers \ {a, b} : Moved(f, a, b)[m].at = f[m].at
<1> DEFINE g == Moved(f, a, b)
<1>0. f \in [Lowers -> LowerRecs] /\ f[a] \in LowerRecs /\ f[b] \in LowerRecs
      /\ \A l \in Lowers : f[l].refs = low[l].refs /\ (f[l].at = <<>> => f[l] = FreeLower)
  BY DEF RefsOf, LowFunction
<1>1. /\ g = [f EXCEPT ![a] = [f[a] EXCEPT !.at = f[b].at, !.hashed = TRUE],
                       ![b] = [f[b] EXCEPT !.at = f[a].at, !.hashed = FALSE]]
      /\ g[a] = [f[a] EXCEPT !.at = f[b].at, !.hashed = TRUE]
      /\ g[b] = [f[b] EXCEPT !.at = f[a].at, !.hashed = FALSE]
      /\ \A x \in Lowers \ {a, b} : g[x] = f[x]
  <2>1. Exchanged(Lowers, f, a, b, Moved(f, a, b))
    BY <1>0, MovedIs
  <2> QED
    BY <2>1 DEF Exchanged
<1> HIDE DEF g
<1>2. /\ g[a] \in LowerRecs /\ g[a].at = f[b].at /\ g[a].refs = f[a].refs
      /\ g[b] \in LowerRecs /\ g[b].at = f[a].at /\ g[b].refs = f[b].refs
  <2>1. f[a].at \in Entries \cup {<<>>} /\ f[b].at \in Entries \cup {<<>>}
    BY <1>0 DEF LowerRecs
  <2> QED
    BY <1>0, <1>1, <2>1 DEF LowerRecs
<1>3. g \in [Lowers -> LowerRecs]
  BY <1>0, <1>1, <1>2
<1>4. LowFunction(g) /\ \A l \in Lowers : g[l].refs = low[l].refs
  BY <1>0, <1>1, <1>2, <1>3 DEF LowFunction
<1> QED
  BY <1>1, <1>2, <1>4 DEF RefsOf, g

LEMMA ContentTypes ==
  ASSUME RefsInv, NEW c \in [Entries -> Maybe], Contents(c)
  PROVE  content' \in [Entries -> Maybe] /\ seen' \in [Tasks -> SUBSET Maybe] /\ scenario' = scenario
<1>1. ASSUME NEW s \in Tasks, call[s].pc # "idle" PROVE c[call[s].ent[1]] \in Maybe
  <2>1. call[s].ent \in Entries \X Entries
    BY <1>1 DEF RefsInv, CallOf, At
  <2>2. call[s].ent[1] \in Entries
    BY <2>1
  <2> QED
    BY <2>2
<1>2. seen \in [Tasks -> SUBSET Maybe]
  BY DEF RefsInv, Types
<1> QED
  BY <1>1, <1>2 DEF Contents

LEMMA UnusedAreInodes == UnusedInodes # {} => Some(UnusedInodes) \in Maybe
BY SomeIsIn DEF UnusedInodes, Maybe

LEMMA OpDentries ==
  ASSUME RefsInv, NEW t \in Tasks, call[t].pc \in OpPcs, NEW k \in 1..2, k = 1 \/ Op(t) \in Pair
  PROVE  /\ Reached(t, k) /\ call[t].du[k] \in Uppers /\ Lower(t, k) \in Lowers
         /\ low[Lower(t, k)].refs # 0 /\ low[Lower(t, k)].at \in Entries
<1>1. CallOf(t) /\ UseOf(t) /\ call[t].cur \in 1..2
  BY DEF RefsInv, Types, Calls
<1>2. Reached(t, k)
  BY <1>1 DEF Reached, CallOf
<1>3. call[t].du[k] \in Uppers /\ Lower(t, k) \in Lowers
  BY <1>1, <1>2 DEF UseOf
<1>4. \E u \in Uppers : up[u].lower = Lower(t, k)
  BY <1>3 DEF Lower
<1> QED
  BY <1>2, <1>3, <1>4, ReferredIsKept

LEMMA VfsKeeps ==
  ASSUME RefsInv, NEW t \in Tasks, NEW f, RefsOf(f), NEW c \in [Entries -> Maybe], VfsWorks(t, f, c)
  PROVE  /\ RefsInv' /\ (\A d \in Dirs : Takers(d)' = Takers(d) /\ dirRefs'[d] = dirRefs[d])
         /\ SameCall(t) /\ call[t].pc = "vfs" /\ call'[t].pc = "finish" /\ call'[t].rc = call[t].rc
         /\ up' = up /\ \A l \in Lowers : low[l].refs # 0 => low'[l].at = f[l].at
<1> DEFINE g == Restaled(f, c)
<1>0. /\ Types /\ call \in [Tasks -> Calls] /\ CallOf(t) /\ LocksOf(t) /\ call[t] \in Calls
      /\ LowerRefs /\ MountRefs /\ "finish" \in Pcs
  BY DEF RefsInv, Types, Pcs
<1>1. /\ call[t].pc = "vfs" /\ call' = [call EXCEPT ![t].pc = "finish"]
      /\ low' = Settled(g) /\ Contents(c) /\ UNCHANGED <<up, mntRefs, dirRefs, ulock, llock>>
  BY DEF VfsWorks, Goto, At, locks
<1>2. SameCall(t) /\ call'[t].pc = "finish" /\ call'[t].rc = call[t].rc
  BY <1>0, <1>1, PcStep
<1>3. content' \in [Entries -> Maybe] /\ seen' \in [Tasks -> SUBSET Maybe] /\ scenario' = scenario
  BY <1>1, ContentTypes
<1>4. Steps(t) /\ OthersLock(t) /\ Alone(t) /\ SameHolds(t) /\ SameFinds(t)
  BY <1>1, <1>2 DEF Steps, SameCall, OthersLock, Reached, LookPcs, At, OpPcs, SameHolds, SameFinds
<1>5. CallOf(t)'
  BY <1>0, <1>1, <1>2, <1>3 DEF CallOf, At, Op, LookPcs, OpPcs, SameCall
<1>6. LocksOf(t)'
  BY <1>0, <1>1, <1>2 DEF LocksOf, Op, LookPcs, LockedName, SameCall
<1>7. /\ \A s \in Tasks : CallOf(s)' /\ LocksOf(s)' /\ UseOf(s)' /\ FreshOf(s)' /\ SoleOf(s)'
      /\ UpperDcache' /\ OthersUp(t)
      /\ (\A m \in Lowers : Pointers(m)' = Pointers(m)) /\ Pointing' = Pointing
  BY <1>1, <1>3, <1>4, <1>5, <1>6, StepsKeep
<1>8. /\ \A l \in Lowers : Users(l)' = Users(l) /\ Finders(l)' = Finders(l)
      /\ \A d \in Dirs : Takers(d)' = Takers(d)
  <2>1. SameHolds(t)
    BY <1>1, <1>2 DEF SameHolds, SameCall
  <2> QED
    BY <1>4, <1>7, <2>1, UsersStay, FindersStay
<1>9. RefsOf(g) /\ \A l \in Lowers : g[l].at = f[l].at
  BY RestaledKeeps
<1> HIDE DEF g
<1>10. low' \in [Lowers -> LowerRecs] /\ LowerDcache' /\ LowerRefs'
  <2>1. \A l \in Lowers : g[l].refs =
            Cardinality(Pointers(l)') + Cardinality(Finders(l)') + Cardinality(Users(l)')
    BY <1>0, <1>7, <1>8, <1>9 DEF LowerRefs, RefsOf
  <2> QED
    BY <1>1, <1>9, <2>1, LowersKeep DEF RefsOf
<1>11. \A l \in Lowers : low[l].refs # 0 => low'[l].at = f[l].at
  BY <1>1, <1>9, SettledKeeps DEF RefsOf
<1>12. Types'
  <2>1. call' \in [Tasks -> Calls]
    BY <1>2 DEF SameCall
  <2> QED
    BY <1>0, <1>1, <1>3, <1>10, <2>1 DEF Types, LowerRecs
<1> QED
  BY <1>0, <1>1, <1>2, <1>7, <1>8, <1>10, <1>11, <1>12 DEF RefsInv, MountRefs

LEMMA VfsMakeKeeps ==
  ASSUME RefsInv, NEW t \in Tasks, VfsMake(t)
  PROVE  /\ RefsInv' /\ (\A d \in Dirs : Takers(d)' = Takers(d) /\ dirRefs'[d] = dirRefs[d])
         /\ SameCall(t) /\ call[t].pc = "vfs" /\ call'[t].pc = "finish" /\ call'[t].rc = call[t].rc
         /\ up' = up /\ Op(t) # "rename" /\ \A l \in Lowers : low[l].refs # 0 => low'[l].at = low[l].at
<1> DEFINE l == Lower(t, Target(Op(t)))
           i == IF Op(t) = "link" THEN low[Lower(t, 1)].inode ELSE Some(UnusedInodes)
           f == [low EXCEPT ![l].inode = i]
           c == [content EXCEPT ![low[l].at] = i]
<1>1. Types /\ call[t].pc = "vfs" /\ Op(t) \in Making /\ (Op(t) # "link" => UnusedInodes # {})
      /\ VfsWorks(t, f, c)
  BY DEF RefsInv, VfsMake, At
<1>2. l \in Lowers /\ low[l].at \in Entries /\ Lower(t, 1) \in Lowers
  <2>1. Target(Op(t)) \in 1..2 /\ (Target(Op(t)) = 1 \/ Op(t) \in Pair) /\ call[t].pc \in OpPcs
    BY <1>1 DEF Target, Pair, OpPcs
  <2> QED
    BY <2>1, OpDentries
<1>3. i \in Maybe
  BY <1>1, <1>2, UnusedAreInodes DEF Types
<1> HIDE DEF i, l
<1>4. RefsOf(f) /\ \A m \in Lowers : f[m].at = low[m].at
  <2>1. RefsOf(low) /\ low[l].at # <<>>
    BY <1>2, LowerIsRefsOf, NoEntryIsEmpty
  <2> QED
    BY <1>2, <1>3, <2>1, InodeKeeps
<1>5. c \in [Entries -> Maybe]
  BY <1>1, <1>2, <1>3 DEF Types
<1>6. Op(t) # "rename"
  BY <1>1 DEF Making
<1> HIDE DEF f, c
<1> QED
  BY <1>1, <1>4, <1>5, <1>6, VfsKeeps

LEMMA VfsRemoveKeeps ==
  ASSUME RefsInv, NEW t \in Tasks, VfsRemove(t)
  PROVE  /\ RefsInv' /\ (\A d \in Dirs : Takers(d)' = Takers(d) /\ dirRefs'[d] = dirRefs[d])
         /\ SameCall(t) /\ call[t].pc = "vfs" /\ call'[t].pc = "finish" /\ call'[t].rc = call[t].rc
         /\ up' = up /\ Op(t) # "rename" /\ \A l \in Lowers : low[l].refs # 0 => low'[l].at = low[l].at
<1> DEFINE l == Lower(t, 1)
           f == Unhash(low, l)
           c == [content EXCEPT ![low[l].at] = NoInode]
<1>1. Types /\ call[t].pc = "vfs" /\ Op(t) \in Removing /\ VfsWorks(t, f, c)
  BY DEF RefsInv, VfsRemove, At
<1>2. l \in Lowers /\ low[l].at \in Entries
  <2>1. call[t].pc \in OpPcs
    BY <1>1 DEF OpPcs
  <2> QED
    BY <2>1, OpDentries
<1> HIDE DEF l
<1>3. RefsOf(f) /\ \A m \in Lowers : f[m].at = low[m].at
  <2>1. RefsOf(low) /\ low[l].at # <<>>
    BY <1>2, LowerIsRefsOf, NoEntryIsEmpty
  <2> QED
    BY <1>2, <2>1, UnhashedKeeps
<1>4. c \in [Entries -> Maybe] /\ Op(t) # "rename"
  BY <1>1, <1>2 DEF Types, Maybe, Removing
<1> HIDE DEF f, c
<1> QED
  BY <1>1, <1>3, <1>4, VfsKeeps

LEMMA VfsRenameKeeps ==
  ASSUME RefsInv, NEW t \in Tasks, VfsRename(t)
  PROVE  /\ RefsInv' /\ (\A d \in Dirs : Takers(d)' = Takers(d) /\ dirRefs'[d] = dirRefs[d])
         /\ SameCall(t) /\ call[t].pc = "vfs" /\ call'[t].pc = "finish" /\ call'[t].rc = call[t].rc
         /\ up' = up /\ Op(t) = "rename" /\ Lower(t, 1) # Lower(t, 2)
         /\ low'[Lower(t, 1)].at = low[Lower(t, 2)].at /\ low'[Lower(t, 2)].at = low[Lower(t, 1)].at
         /\ \A l \in Lowers \ {Lower(t, 1), Lower(t, 2)} : low[l].refs # 0 => low'[l].at = low[l].at
<1> DEFINE a == Lower(t, 1)
           b == Lower(t, 2)
           f == Moved(low, a, b)
           c == [content EXCEPT ![low[a].at] = NoInode, ![low[b].at] = low[a].inode]
<1>1. Types /\ call[t].pc = "vfs" /\ Op(t) = "rename" /\ VfsWorks(t, f, c) /\ low[a].at # low[b].at
  BY DEF RefsInv, VfsRename, At, VfsWorks, Fits, Target
<1>2. /\ a \in Lowers /\ low[a].at \in Entries /\ low[a].refs # 0
      /\ b \in Lowers /\ low[b].at \in Entries /\ low[b].refs # 0
  <2>1. call[t].pc \in OpPcs /\ Op(t) \in Pair
    BY <1>1 DEF OpPcs, Pair
  <2> QED
    BY <2>1, OpDentries
<1> HIDE DEF a, b
<1>3. /\ RefsOf(f) /\ f[a].at = low[b].at /\ f[b].at = low[a].at
      /\ \A m \in Lowers \ {a, b} : f[m].at = low[m].at
  <2>1. RefsOf(low) /\ low[a].at # <<>> /\ low[b].at # <<>> /\ a # b
    BY <1>1, <1>2, LowerIsRefsOf, NoEntryIsEmpty
  <2> QED
    BY <1>2, <2>1, MovedKeeps
<1>4. c \in [Entries -> Maybe]
  <2>1. low[a].inode \in Maybe /\ NoInode \in Maybe /\ content \in [Entries -> Maybe]
    BY <1>1, <1>2 DEF Types, Maybe
  <2> QED
    BY <1>2, <2>1
<1> HIDE DEF f, c
<1>5. /\ RefsInv' /\ (\A d \in Dirs : Takers(d)' = Takers(d) /\ dirRefs'[d] = dirRefs[d])
      /\ SameCall(t) /\ call'[t].pc = "finish" /\ call'[t].rc = call[t].rc
      /\ up' = up /\ \A l \in Lowers : low[l].refs # 0 => low'[l].at = f[l].at
  BY <1>1, <1>3, <1>4, VfsKeeps
<1> QED
  BY <1>1, <1>2, <1>3, <1>5 DEF a, b

-----------------------------------------------------------------------------
(* Steps of others.                                                         *)

LEMMA LowerChangesKeep ==
  ASSUME RefsInv, NEW f, RefsOf(f), low' = Settled(f), UNCHANGED <<scenario, up, mntRefs, dirRefs, ulock, llock, call>>,
         content' \in [Entries -> Maybe], seen' \in [Tasks -> SUBSET Maybe]
  PROVE  RefsInv' /\ \A l \in Lowers : low[l].refs # 0 => low'[l].at = f[l].at
<1>0. Types /\ LowerRefs /\ MountRefs /\ UpperDcache
      /\ \A s \in Tasks : CallOf(s) /\ LocksOf(s) /\ UseOf(s) /\ FreshOf(s) /\ SoleOf(s)
  BY DEF RefsInv
<1>1. \A l \in Lowers : Pointers(l)' = Pointers(l) /\ Finders(l)' = Finders(l) /\ Users(l)' = Users(l)
  BY DEF Pointers, Finders, Users, Op, Lower
<1>2. low' \in [Lowers -> LowerRecs] /\ LowerDcache' /\ LowerRefs'
  <2>1. \A l \in Lowers : f[l].refs =
            Cardinality(Pointers(l)') + Cardinality(Finders(l)') + Cardinality(Users(l)')
    BY <1>0, <1>1 DEF LowerRefs, RefsOf
  <2> QED
    BY <2>1, LowersKeep DEF RefsOf
<1>3. UpperDcache' /\ MountRefs'
  BY <1>0 DEF UpperDcache, MountRefs, Pointing
<1>4. ASSUME NEW s \in Tasks PROVE CallOf(s)' /\ LocksOf(s)' /\ UseOf(s)' /\ FreshOf(s)' /\ SoleOf(s)'
  <2>1. CallOf(s)'
    BY <1>0 DEF CallOf, At, Op, Found
  <2>2. LocksOf(s)'
    BY <1>0 DEF LocksOf, Op, Entry, LockedName
  <2>3. UseOf(s)'
    BY <1>0 DEF UseOf, Reached, Lower, At
  <2>4. FreshOf(s)'
    BY <1>0 DEF FreshOf, Found, Entry
  <2>5. SoleOf(s)'
    BY <1>0 DEF SoleOf, Under, Reached, LockedName, At, Op
  <2> QED
    BY <2>1, <2>2, <2>3, <2>4, <2>5
<1>5. Types'
  BY <1>0, <1>2 DEF Types, LowerRecs
<1>6. \A l \in Lowers : low[l].refs # 0 => low'[l].at = f[l].at
  BY SettledKeeps DEF RefsOf
<1> QED
  BY <1>2, <1>3, <1>4, <1>5, <1>6 DEF RefsInv

\* Nothing of lofs changes but the lower dentries.
LowersOnly == UNCHANGED <<scenario, up, mntRefs, dirRefs, ulock, llock, call>>

LEMMA LowerPruneKeeps ==
  ASSUME RefsInv, NEW l \in Lowers, LowerPrune(l)
  PROVE  RefsInv' /\ LowersOnly /\ \A m \in Lowers : low[m].refs # 0 => low'[m].at = low[m].at
<1> DEFINE f == Unhash(low, l)
<1>1. low' = Settled(f) /\ LowersOnly /\ UNCHANGED <<content, seen>> /\ low[l].hashed
  BY DEF LowerPrune, LowersOnly, below, locks
<1>2. RefsOf(f) /\ \A m \in Lowers : f[m].at = low[m].at
  BY <1>1, LowerIsRefsOf, HashedIsNamed, UnhashedKeeps DEF RefsOf
<1> HIDE DEF f
<1>3. content \in [Entries -> Maybe] /\ seen \in [Tasks -> SUBSET Maybe]
  BY DEF RefsInv, Types
<1> QED
  BY <1>1, <1>2, <1>3, LowerChangesKeep DEF LowersOnly

LEMMA OtherChangesKeep ==
  ASSUME RefsInv, NEW f, RefsOf(f), NEW c \in [Entries -> Maybe], OtherChanges(f, c)
  PROVE  RefsInv' /\ LowersOnly /\ \A l \in Lowers : low[l].refs # 0 => low'[l].at = f[l].at
<1>1. low' = Settled(f) /\ Contents(c) /\ UNCHANGED <<up, mntRefs, dirRefs, ulock, llock, call>>
  BY DEF OtherChanges, locks
<1>2. content' \in [Entries -> Maybe] /\ seen' \in [Tasks -> SUBSET Maybe] /\ scenario' = scenario
  BY <1>1, ContentTypes
<1> QED
  BY <1>1, <1>2, LowerChangesKeep DEF LowersOnly

\* The lower dentry of an entry, if it is cached.
LEMMA CachedLower ==
  ASSUME RefsInv, NEW e
  PROVE  /\ LowerAt(e) \in Lowers \cup {NoDentry}
         /\ LowerAt(e) \in Lowers => low[LowerAt(e)].at # <<>> /\ low[LowerAt(e)].at = e
         /\ RefsOf(low) /\ RefsOf(Unhash(low, LowerAt(e)))
         /\ \A m \in Lowers : Unhash(low, LowerAt(e))[m].at = low[m].at
<1>1. RefsOf(low)
  BY LowerIsRefsOf
<1>2. /\ LowerAt(e) \in Lowers \cup {NoDentry}
      /\ LowerAt(e) \in Lowers => low[LowerAt(e)].at # <<>> /\ low[LowerAt(e)].at = e
  BY <1>1, LowerFound, HashedIsNamed DEF RefsOf
<1> QED
  BY <1>1, <1>2, UnhashedKeeps

LEMMA OtherStepsKeep ==
  ASSUME RefsInv, NEW e \in scenario.entries, OtherCreates(e) \/ OtherRemoves(e) \/ RemoteChange(e)
  PROVE  RefsInv' /\ LowersOnly /\ \A l \in Lowers : low[l].refs # 0 => low'[l].at = low[l].at
<1> DEFINE l == LowerAt(e)
           g == Unhash(low, l)
           h(i) == [low EXCEPT ![l].inode = i]
<1>0. Types /\ e \in Entries /\ content \in [Entries -> Maybe] /\ NoInode \in Maybe
  BY EntriesInUse DEF RefsInv, Types, Maybe
<1>1. /\ l \in Lowers \cup {NoDentry} /\ (l \in Lowers => low[l].at # <<>> /\ low[l].at = e)
      /\ RefsOf(low) /\ RefsOf(g) /\ \A m \in Lowers : g[m].at = low[m].at
  BY CachedLower
<1>2. ASSUME NEW i \in Maybe, l \in Lowers
      PROVE  RefsOf(h(i)) /\ \A m \in Lowers : h(i)[m].at = low[m].at
  BY <1>1, <1>2, InodeKeeps
<1>3. Lone(l) => l \in Lowers
  BY <1>1 DEF Lone
<1> HIDE DEF l, g, h
<1>4. \A i \in Maybe : [content EXCEPT ![e] = i] \in [Entries -> Maybe]
  BY <1>0
<1>5. CASE OtherCreates(e)
  <2> DEFINE i == Some(UnusedInodes)
             f == IF Lone(l) THEN h(i) ELSE g
  <2>1. OtherChanges(f, [content EXCEPT ![e] = i]) /\ i \in Maybe
    BY <1>5, UnusedAreInodes DEF OtherCreates, l, g, h
  <2> HIDE DEF i
  <2>2. RefsOf(f) /\ \A m \in Lowers : f[m].at = low[m].at
    BY <1>1, <1>2, <1>3, <2>1
  <2> HIDE DEF f
  <2> QED
    BY <1>4, <2>1, <2>2, OtherChangesKeep
<1>6. CASE OtherRemoves(e)
  <2> DEFINE f == IF Lone(l) /\ low[l].refs = 0 THEN h(NoInode) ELSE g
  <2>1. OtherChanges(f, [content EXCEPT ![e] = NoInode])
    BY <1>6 DEF OtherRemoves, l, g, h
  <2>2. RefsOf(f) /\ \A m \in Lowers : f[m].at = low[m].at
    BY <1>0, <1>1, <1>2, <1>3
  <2> HIDE DEF f
  <2> QED
    BY <1>0, <1>4, <2>1, <2>2, OtherChangesKeep
<1>7. CASE RemoteChange(e)
  <2> DEFINE i == IF content[e] = NoInode THEN Some(UnusedInodes) ELSE NoInode
             c == [content EXCEPT ![e] = i]
  <2>1. OtherChanges(Restaled(low, c), c) /\ i \in Maybe
    BY <1>0, <1>7, UnusedAreInodes DEF RemoteChange
  <2> HIDE DEF i
  <2>2. c \in [Entries -> Maybe]
    BY <1>4, <2>1
  <2> HIDE DEF c
  <2>3. RefsOf(Restaled(low, c)) /\ \A m \in Lowers : Restaled(low, c)[m].at = low[m].at
    BY <1>1, RestaledKeeps
  <2> QED
    BY <2>1, <2>2, <2>3, OtherChangesKeep
<1> QED
  BY <1>5, <1>6, <1>7

LEMMA OtherRenamesKeep ==
  ASSUME RefsInv, NEW e \in scenario.entries, NEW f \in scenario.entries, e # f, OtherRenames(e, f)
  PROVE  RefsInv' /\ LowersOnly /\ "rename" \in scenario.others
<1> DEFINE a == LowerAt(e)
           b == LowerAt(f)
           g == CASE a = NoDentry -> Unhash(low, b)
                  [] a # NoDentry /\ b = NoDentry -> [low EXCEPT ![a].at = f]
                  [] OTHER -> Moved(low, a, b)
           c == [content EXCEPT ![e] = NoInode, ![f] = content[e]]
<1>0. Types /\ e \in Entries /\ f \in Entries /\ content \in [Entries -> Maybe] /\ NoInode \in Maybe
  BY EntriesInUse DEF RefsInv, Types, Maybe
<1>1. /\ a \in Lowers \cup {NoDentry} /\ (a \in Lowers => low[a].at # <<>> /\ low[a].at = e)
      /\ b \in Lowers \cup {NoDentry} /\ (b \in Lowers => low[b].at # <<>> /\ low[b].at = f)
      /\ RefsOf(low) /\ RefsOf(Unhash(low, b))
  BY CachedLower
<1>2. OtherChanges(g, c) /\ "rename" \in scenario.others
  BY DEF OtherRenames
<1> HIDE DEF a, b
<1>3. RefsOf(g)
  <2>1. CASE a = NoDentry
    <3>1. g = Unhash(low, b)
      BY <2>1
    <3> HIDE DEF g
    <3> QED
      BY <1>1, <3>1
  <2>2. CASE a # NoDentry /\ b = NoDentry
    <3>1. RefsOf([low EXCEPT ![a].at = f])
      BY <1>0, <1>1, <2>2, NoEntryIsEmpty DEF RefsOf, LowFunction, LowerRecs
    <3> QED
      BY <2>2, <3>1
  <2>3. CASE a # NoDentry /\ b # NoDentry
    <3>1. RefsOf(Moved(low, a, b))
      BY <1>1, <2>3, MovedKeeps
    <3> QED
      BY <2>3, <3>1
  <2> QED
    BY <2>1, <2>2, <2>3
<1>4. c \in [Entries -> Maybe]
  BY <1>0
<1> HIDE DEF g, c
<1> QED
  BY <1>2, <1>3, <1>4, OtherChangesKeep

-----------------------------------------------------------------------------
(* lofs dentries that nobody uses are freed.                                *)

LEMMA Fewer ==
  ASSUME NEW S, NEW T, NEW F, IsFiniteSet(S), F \subseteq S, T = S \ F
  PROVE  Cardinality(T) = Cardinality(S) - Cardinality(F) /\ Cardinality(F) \in Nat
<1>1. IsFiniteSet(T) /\ IsFiniteSet(F) /\ S = T \cup F /\ T \cap F = {}
  BY FS_Subset
<1>2. Cardinality(S) = Cardinality(T) + Cardinality(F) - Cardinality(T \cap F)
  BY <1>1, FS_Union
<1>3. Cardinality(T \cap F) = 0
  BY <1>1, FS_EmptySet
<1> QED
  BY <1>1, <1>2, <1>3, FS_CardinalityType

\* A cache of lofs dentries with the pointers of the one there is.
UppersOf(f) ==
    /\ f \in [Uppers -> UpperDentries] /\ \A u \in Uppers : f[u].lower = up[u].lower
    /\ \A u \in Uppers : f[u].at = <<>> => f[u] = FreeUpper
    /\ \A u, w \in Uppers : f[u].hashed /\ f[w].hashed /\ f[u].at = f[w].at => u = w
    /\ \A u \in Uppers : f[u].hashed => f[u].lower \in Lowers

\* f does to the dentries of other calls what OthersUp allows.
OthersIn(t, f) ==
    /\ \A s \in Tasks \ {t}, k \in 1..2 : call[s].du[k] \in Uppers =>
          /\ f[call[s].du[k]].at \in Entries
          /\ Under(s, k) => f[call[s].du[k]].at = up[call[s].du[k]].at
          /\ k = call[s].cur /\ call[s].pc \in LookPcs =>
                f[call[s].du[k]].inode = NoInode /\ ~f[call[s].du[k]].hashed
    /\ \A u \in Uppers : f[u].hashed =>
          \/ up[u].hashed /\ f[u].at = up[u].at
          \/ f[u].at \in Entries /\ ulock[f[u].at[1]] = t

\* Used dentries are kept, and others are kept or freed.
Kept(f) ==
    /\ \A u \in Uppers : up'[u] \in {f[u], FreeUpper}
    /\ \A s \in Tasks, k \in 1..2 : call'[s].du[k] \in Uppers => up'[call'[s].du[k]] = f[call'[s].du[k]]

LEMMA ReleaseUps ==
  ASSUME NEW t, NEW f, UppersOf(f), OthersIn(t, f), Release(f, call'), Alone(t)
  PROVE  up' \in [Uppers -> UpperDentries] /\ UpperDcache' /\ OthersUp(t) /\ Kept(f)
<1> DEFINE F == Unused(f, call')
<1>1. up' = [u \in Uppers |-> IF u \in F THEN FreeUpper ELSE f[u]]
  BY DEF Release
<1>2. \A s \in Tasks, k \in 1..2 : call'[s].du[k] \notin F
  BY DEF Unused
<1> HIDE DEF F
<1>3. Kept(f)
  BY <1>1, <1>2 DEF Kept
<1>4. \A u \in Uppers : f[u] \in UpperDentries
  BY DEF UppersOf
<1>5. up' \in [Uppers -> UpperDentries]
  BY <1>1, <1>4, FreesAreFree
<1>6. UpperDcache'
  BY <1>3, FreesAreFree DEF Kept, UppersOf, UpperDcache
<1>7. OthersUp(t)
  <2>1. \A s \in Tasks \ {t}, k \in 1..2 : call[s].du[k] \in Uppers => up'[call[s].du[k]] = f[call[s].du[k]]
    BY <1>3 DEF Kept, Alone
  <2>2. \A u \in Uppers : up'[u].hashed => f[u].hashed /\ up'[u] = f[u]
    BY <1>3, FreesAreFree DEF Kept
  <2> QED
    BY <2>1, <2>2 DEF OthersUp, OthersIn, UppersOf
<1> QED
  BY <1>3, <1>5, <1>6, <1>7

LEMMA ReleaseLows ==
  ASSUME RefsInv, NEW f, UppersOf(f), Release(f, call'),
         \A l \in Lowers : Finders(l)' = Finders(l) /\ Users(l)' = Users(l)
  PROVE  low' \in [Lowers -> LowerRecs] /\ LowerDcache' /\ LowerRefs' /\ MountRefs' /\ AtStays
         /\ mntRefs' \in Int
<1> DEFINE F == Unused(f, call')
           holding == {u \in F : f[u].lower # NoDentry}
           P(l) == {u \in holding : f[u].lower = l}
           g == [l \in Lowers |-> [low[l] EXCEPT !.refs = @ - Cardinality(P(l))]]
<1>0. /\ Types /\ LowFunction(low) /\ LowerRefs /\ MountRefs
  BY LowIsFunction DEF RefsInv, Types
<1>1. /\ up' = [u \in Uppers |-> IF u \in F THEN FreeUpper ELSE f[u]]
      /\ low' = Settled(g) /\ mntRefs' = mntRefs - Cardinality(holding)
  BY DEF Release
<1>2. F \subseteq Uppers /\ \A u \in Uppers : f[u].lower = up[u].lower
  BY DEF Unused, UppersOf
<1> HIDE DEF F
<1>3. \A u \in Uppers : up'[u].lower = IF u \in F THEN NoDentry ELSE up[u].lower
  BY <1>1, <1>2, FreesAreFree
<1>4. \A l \in Lowers : /\ Cardinality(Pointers(l)') = Cardinality(Pointers(l)) - Cardinality(P(l))
                        /\ Cardinality(P(l)) \in Nat
                        /\ low[l].at = <<>> => Cardinality(P(l)) = 0
  <2> TAKE l \in Lowers
  <2>1. P(l) \subseteq Pointers(l) /\ Pointers(l)' = Pointers(l) \ P(l)
    BY <1>2, <1>3, Numbers DEF Pointers
  <2>2. IsFiniteSet(Pointers(l))
    BY CountsAreNats
  <2>3. low[l].at = <<>> => P(l) = {}
    <3> SUFFICES ASSUME low[l].at = <<>>, P(l) # {} PROVE FALSE
      OBVIOUS
    <3>1. \E u \in Uppers : up[u].lower = l
      BY <2>1 DEF Pointers
    <3> QED
      BY <3>1, ReferredIsKept, NoEntryIsEmpty
  <2>4. Cardinality({}) = 0
    BY FS_EmptySet
  <2> HIDE DEF P
  <2> QED
    BY <2>1, <2>2, <2>3, <2>4, Fewer
<1>5. Cardinality(Pointing') = Cardinality(Pointing) - Cardinality(holding) /\ Cardinality(holding) \in Nat
  <2>1. holding \subseteq Pointing /\ Pointing' = Pointing \ holding
    BY <1>2, <1>3 DEF Pointing
  <2>2. IsFiniteSet(Pointing)
    BY CountsAreNats
  <2> HIDE DEF holding
  <2> QED
    BY <2>1, <2>2, Fewer
<1> HIDE DEF P
<1>6. \A l \in Lowers : /\ g[l] \in LowerRecs /\ g[l].at = low[l].at
                        /\ g[l].refs = low[l].refs - Cardinality(P(l))
                        /\ Cardinality(P(l)) = 0 => g[l] = low[l]
  <2> TAKE l \in Lowers
  <2> DEFINE n == low[l].refs - Cardinality(P(l))
  <2>0. low[l] \in LowerRecs /\ g[l] = [low[l] EXCEPT !.refs = n]
    BY <1>0 DEF LowFunction
  <2>2. low[l].refs \in Int /\ Cardinality(P(l)) \in Nat
    BY <1>4, <2>0 DEF LowerRecs
  <2>3. n \in Int /\ (Cardinality(P(l)) = 0 => n = low[l].refs)
    BY <2>2
  <2> HIDE DEF n, g
  <2>4. g[l] \in LowerRecs /\ g[l].at = low[l].at /\ g[l].refs = n
    BY <2>0, <2>3 DEF LowerRecs
  <2>5. n = low[l].refs => g[l] = low[l]
    BY <2>0 DEF LowerRecs
  <2> QED
    BY <2>3, <2>4, <2>5 DEF n
<1>7. LowFunction(g)
  <2>1. g \in [Lowers -> LowerRecs]
    BY <1>6
  <2>2. \A l \in Lowers : g[l].at = <<>> => g[l] = FreeLower
    BY <1>0, <1>4, <1>6 DEF LowFunction
  <2> HIDE DEF g
  <2> QED
    BY <2>1, <2>2 DEF LowFunction
<1> HIDE DEF g, holding
<1>8. \A l \in Lowers : g[l].refs = Cardinality(Pointers(l)') + Cardinality(Finders(l)') + Cardinality(Users(l)')
  <2> TAKE l \in Lowers
  <2>1. /\ low[l].refs = Cardinality(Pointers(l)) + Cardinality(Finders(l)) + Cardinality(Users(l))
        /\ Cardinality(Pointers(l)) \in Nat /\ Cardinality(Finders(l)) \in Nat /\ Cardinality(Users(l)) \in Nat
    BY <1>0, CountsAreNats DEF LowerRefs
  <2>2. Finders(l)' = Finders(l) /\ Users(l)' = Users(l)
    OBVIOUS
  <2> QED
    BY <1>4, <1>6, <2>1, <2>2
<1>9. low' \in [Lowers -> LowerRecs] /\ LowerDcache' /\ LowerRefs'
  BY <1>1, <1>7, <1>8, LowersKeep
<1>10. AtStays
  BY <1>1, <1>6, <1>7, SettledKeeps DEF AtStays
<1>11. MountRefs' /\ mntRefs' \in Int
  <2>1. mntRefs = Cardinality(Pointing) /\ Cardinality(Pointing) \in Nat
    BY <1>0, CountsAreNats DEF MountRefs
  <2> QED
    BY <1>1, <1>5, <2>1 DEF MountRefs
<1> QED
  BY <1>9, <1>10, <1>11

LEMMA ReleaseKeeps ==
  ASSUME RefsInv, NEW t, NEW f, UppersOf(f), OthersIn(t, f), Release(f, call'), Alone(t),
         OthersLock(t), NoTaking(t), SameHolds(t), SameFinds(t),
         UNCHANGED <<scenario, content, dirRefs, llock>>, seen' \in [Tasks -> SUBSET Maybe],
         call' \in [Tasks -> Calls], ulock' \in [Dirs -> Tasks \cup {NoOne}],
         t \in Tasks => CallOf(t)' /\ LocksOf(t)' /\ UseOf(t)' /\ FreshOf(t)' /\ SoleOf(t)'
  PROVE  RefsInv' /\ AtStays /\ Kept(f) /\ (\A d \in Dirs : Takers(d)' = Takers(d))
<1>1. up' \in [Uppers -> UpperDentries] /\ UpperDcache' /\ OthersUp(t) /\ Kept(f)
  BY ReleaseUps
<1>2. \A s \in Tasks : CallOf(s)' /\ LocksOf(s)' /\ UseOf(s)' /\ FreshOf(s)' /\ SoleOf(s)'
  BY <1>1, OthersKeep
<1>3. /\ \A l \in Lowers : Finders(l)' = Finders(l) /\ Users(l)' = Users(l)
      /\ \A d \in Dirs : Takers(d)' = Takers(d)
  BY <1>1, UsersStay, FindersStay
<1>4. low' \in [Lowers -> LowerRecs] /\ LowerDcache' /\ LowerRefs' /\ MountRefs' /\ AtStays /\ mntRefs' \in Int
  BY <1>3, ReleaseLows
<1>5. Types'
  BY <1>1, <1>4 DEF Types, RefsInv, LowerRecs
<1> QED
  BY <1>1, <1>2, <1>3, <1>4, <1>5 DEF RefsInv

\* What a step does to the dentries: hashed ones were, and used ones keep what
\* they point to, but for the k-th of t.
Settles(t, k) ==
    /\ \A w \in Uppers : up'[w].hashed => up[w].hashed /\ up'[w].at = up[w].at /\ up'[w].lower = up[w].lower
    /\ \A s \in Tasks, j \in 1..2 : call[s].du[j] \in Uppers /\ ~(s = t /\ j = k) =>
          up'[call[s].du[j]].lower = up[call[s].du[j]].lower

\* When a call may take a new dentry for its k-th name, over the dentries g.
MayTake(t, k, g) ==
    \/ At(t, "lock") /\ k = call[t].cur /\ g = up /\ UpperAt(call[t].ent[k]) = NoDentry
    \/ /\ At(t, "found") /\ Op(t) = "rename" /\ call[t].cur = 1 /\ k = 2
       /\ g = up /\ UpperAt(call[t].ent[k]) = NoDentry
    \/ At(t, "reval") /\ k = call[t].cur /\ g = Unhash(up, Found(t)) /\ ~Walking(t)

\* All but this is as it was before a step of t.
OnlyNames(t, k) ==
    /\ UNCHANGED <<scenario, content, seen, dirRefs, llock>>
    /\ OthersLock(t) /\ ulock' \in [Dirs -> Tasks \cup {NoOne}]
    /\ ulock'[call[t].ent[k][1]] = t
    /\ Walking(t) \/ NamesLocked(t, ulock')

NewTaken(t, k) ==
    /\ AtStays /\ (\A d \in Dirs : Takers(d)' = Takers(d)) /\ Settles(t, k)
    /\ NameCall(t, "dlookup", k, call'[t].du[k])

LEMMA NewDentryKeeps ==
  ASSUME RefsInv, NEW t \in Tasks, NEW k \in 1..2, NEW g, NewDentry(t, k, g),
         MayTake(t, k, g), OnlyNames(t, k)
  PROVE  RefsInv' /\ NewTaken(t, k)
<1> DEFINE u == Some(FreeUppers)
           f == [g EXCEPT ![u].at = call[t].ent[k]]
           e == call[t].ent[k]
<1>0. /\ Types /\ UpperDcache /\ call \in [Tasks -> Calls] /\ call[t] \in Calls /\ "dlookup" \in Pcs
      /\ CallOf(t) /\ LocksOf(t) /\ UseOf(t) /\ SoleOf(t) /\ call[t].cur \in 1..2
      /\ up \in [Uppers -> UpperDentries] /\ seen \in [Tasks -> SUBSET Maybe]
  BY DEF RefsInv, Types, Calls, Pcs
<1>a. /\ UNCHANGED <<scenario, content, seen, dirRefs, llock>>
      /\ OthersLock(t) /\ ulock' \in [Dirs -> Tasks \cup {NoOne}]
      /\ ulock'[call[t].ent[k][1]] = t
      /\ Walking(t) \/ NamesLocked(t, ulock')
  BY DEF OnlyNames
<1>b. \/ At(t, "lock") /\ k = call[t].cur /\ g = up /\ UpperAt(call[t].ent[k]) = NoDentry
      \/ /\ At(t, "found") /\ Op(t) = "rename" /\ call[t].cur = 1 /\ k = 2
         /\ g = up /\ UpperAt(call[t].ent[k]) = NoDentry
      \/ At(t, "reval") /\ k = call[t].cur /\ g = Unhash(up, Found(t)) /\ ~Walking(t)
  BY DEF MayTake
<1>1. call[t].pc \in {"lock", "found", "reval"} /\ call[t].dir = <<>> /\ e \in Entries
      /\ call[t].ent \in Entries \X Entries /\ (k = 2 => Op(t) \in Pair) /\ call[t].dl \notin Lowers
  <2>1. call[t].pc \in {"lock", "found", "reval"} /\ (k = 2 => call[t].cur = 2 \/ Op(t) = "rename")
    BY <1>b DEF At
  <2>2. call[t].ent \in Entries \X Entries /\ call[t].dir = <<>> /\ call[t].dl \notin Lowers
    BY <1>0, <2>1 DEF CallOf, At, OpPcs
  <2>3. call[t].ent[1] \in Entries /\ call[t].ent[2] \in Entries
    BY <2>2
  <2> QED
    BY <1>0, <2>1, <2>2, <2>3 DEF CallOf, Pair
<1>2. /\ u \in Uppers /\ up[u] = FreeUpper /\ Release(f, call')
      /\ call' = [call EXCEPT ![t].pc = "dlookup", ![t].cur = k, ![t].du[k] = u]
  <2>1. FreeUppers # {} /\ Release(f, [call EXCEPT ![t].pc = "dlookup", ![t].cur = k, ![t].du[k] = u])
    BY DEF NewDentry
  <2>2. u \in FreeUppers
    BY <2>1, SomeIsIn
  <2> HIDE DEF u, f, e
  <2>3. call' = [call EXCEPT ![t].pc = "dlookup", ![t].cur = k, ![t].du[k] = u]
    BY <2>1 DEF Release
  <2>4. Release(f, call')
    BY <2>1, <2>3
  <2> QED
    BY <2>2, <2>3, <2>4 DEF FreeUppers
<1> HIDE DEF u, e
<1>3. NameCall(t, "dlookup", k, u)
  BY <1>0, <1>2, NameStep
<1>4. \A s \in Tasks, j \in 1..2 : call[s].du[j] # u
  <2>1. \A s \in Tasks, j \in 1..2 : call[s].du[j] \in Uppers => up[call[s].du[j]].at \in Entries
    BY DEF RefsInv, UseOf
  <2> QED
    BY <1>2, <2>1, FreesAreFree, NoEntryIsEmpty
<1>5. /\ g \in [Uppers -> UpperDentries]
      /\ \A w \in Uppers : /\ g[w].at = up[w].at /\ g[w].inode = up[w].inode /\ g[w].lower = up[w].lower
                           /\ g[w].hashed => up[w].hashed /\ up[w].at # e
                           /\ ~up[w].hashed => g[w] = up[w]
  <2>1. CASE g = up /\ UpperAt(e) = NoDentry
    BY <1>0, <2>1, UpperFound
  <2>2. CASE At(t, "reval") /\ k = call[t].cur /\ g = Unhash(up, Found(t)) /\ ~Walking(t)
    <3>1. Found(t) \in Uppers /\ Found(t) = call[t].du[k]
      BY <1>0, <2>2 DEF CallOf, At, Found
    <3>2. Under(t, k)
      BY <1>0, <2>2 DEF Under, LockedName, Reached, Walking, At
    <3>3. \A w \in Uppers : up[w].hashed /\ up[w].at = e => w = Found(t)
      BY <1>0, <3>1, <3>2 DEF SoleOf, e
    <3>4. g = [up EXCEPT ![Found(t)].hashed = FALSE]
      BY <2>2, <3>1, Numbers DEF Unhash
    <3>5. g \in [Uppers -> UpperDentries] /\ (\A w \in Uppers \ {Found(t)} : g[w] = up[w])
          /\ g[Found(t)] = [up[Found(t)] EXCEPT !.hashed = FALSE]
      BY <1>0, <3>1, <3>4 DEF UpperDentries
    <3>6. up[Found(t)] \in UpperDentries
      BY <1>0, <3>1
    <3>7. /\ g[Found(t)].at = up[Found(t)].at /\ g[Found(t)].inode = up[Found(t)].inode
          /\ g[Found(t)].lower = up[Found(t)].lower /\ ~g[Found(t)].hashed
          /\ ~up[Found(t)].hashed => g[Found(t)] = up[Found(t)]
      BY <3>5, <3>6 DEF UpperDentries
    <3> QED
      BY <3>3, <3>5, <3>7
  <2> QED
    BY <1>b, <2>1, <2>2 DEF e
<1>6. /\ f \in [Uppers -> UpperDentries] /\ (\A w \in Uppers \ {u} : f[w] = g[w])
      /\ f[u] = [FreeUpper EXCEPT !.at = e]
  <2>1. g[u] = FreeUpper
    BY <1>2, <1>5, FreesAreFree
  <2>2. f = [g EXCEPT ![u] = [g[u] EXCEPT !.at = e]]
    BY DEF e
  <2>3. [FreeUpper EXCEPT !.at = e] \in UpperDentries
    BY <1>1, FreesAreFree DEF UpperDentries
  <2> HIDE DEF f
  <2> QED
    BY <1>2, <1>5, <2>1, <2>2, <2>3
<1>7. f[u].at = e /\ ~f[u].hashed /\ f[u].lower = NoDentry /\ f[u].inode = NoInode
  BY <1>6 DEF FreeUpper
<1> HIDE DEF f
<1>8. UppersOf(f)
  <2>1. \A w \in Uppers : f[w].lower = up[w].lower
    BY <1>2, <1>5, <1>6, <1>7, FreesAreFree
  <2>2. \A w \in Uppers : f[w].hashed => up[w].hashed /\ f[w].at = up[w].at
    BY <1>5, <1>6, <1>7
  <2>3. \A w \in Uppers : f[w].at = <<>> => f[w] = FreeUpper
    <3> TAKE w \in Uppers
    <3>1. CASE w = u
      BY <1>1, <1>7, <3>1, NoEntryIsEmpty
    <3>2. CASE w # u
      <4>1. f[w] = g[w] /\ g[w].at = up[w].at /\ (~up[w].hashed => g[w] = up[w])
        BY <1>5, <1>6, <3>2
      <4>2. up[w].at = <<>> => up[w] = FreeUpper
        BY <1>0 DEF UpperDcache
      <4> QED
        BY <4>1, <4>2, FreesAreFree
    <3> QED
      BY <3>1, <3>2
  <2> QED
    BY <1>0, <1>6, <2>1, <2>2, <2>3 DEF UppersOf, UpperDcache
<1>9. OthersIn(t, f)
  <2>1. ASSUME NEW s \in Tasks \ {t}, NEW j \in 1..2, call[s].du[j] \in Uppers
        PROVE  /\ f[call[s].du[j]].at = up[call[s].du[j]].at
               /\ f[call[s].du[j]].inode = up[call[s].du[j]].inode
               /\ f[call[s].du[j]].hashed => up[call[s].du[j]].hashed
    BY <1>4, <1>5, <1>6, <2>1
  <2>2. \A s \in Tasks \ {t} : UseOf(s) /\ FreshOf(s)
    BY DEF RefsInv
  <2>3. \A w \in Uppers : f[w].hashed => up[w].hashed /\ f[w].at = up[w].at
    BY <1>5, <1>6, <1>7
  <2> QED
    BY <2>1, <2>2, <2>3 DEF OthersIn, UseOf, FreshOf, Found
<1>10. /\ Alone(t) /\ call' \in [Tasks -> Calls] /\ NoTaking(t) /\ SameHolds(t) /\ SameFinds(t)
  BY <1>1, <1>2, <1>3 DEF NameCall, NoTaking, SameHolds, SameFinds
<1>11. up' \in [Uppers -> UpperDentries] /\ UpperDcache' /\ OthersUp(t) /\ Kept(f)
  BY <1>2, <1>8, <1>9, <1>10, ReleaseUps
<1>12. /\ up'[u] = f[u]
       /\ \A j \in 1..2 : j # k /\ call[t].du[j] \in Uppers =>
             /\ up'[call[t].du[j]].at = up[call[t].du[j]].at
             /\ up'[call[t].du[j]].lower = up[call[t].du[j]].lower
       /\ \A w \in Uppers : up'[w].hashed => up[w].hashed /\ up'[w].at = up[w].at /\ up[w].at # e
                                             /\ up'[w].lower = up[w].lower
  <2>1. up'[u] = f[u]
    BY <1>2, <1>3, <1>11 DEF Kept, NameCall
  <2>2. ASSUME NEW j \in 1..2, j # k, call[t].du[j] \in Uppers
        PROVE  /\ up'[call[t].du[j]].at = up[call[t].du[j]].at
               /\ up'[call[t].du[j]].lower = up[call[t].du[j]].lower
    <3>1. up'[call[t].du[j]] = f[call[t].du[j]]
      BY <1>3, <1>11, <2>2 DEF Kept, NameCall
    <3>2. f[call[t].du[j]] = g[call[t].du[j]]
      BY <1>4, <1>6, <2>2
    <3> QED
      BY <1>5, <2>2, <3>1, <3>2
  <2>3. \A w \in Uppers : up'[w].hashed => up'[w] = f[w] /\ f[w].hashed
    BY <1>11, FreesAreFree DEF Kept
  <2>4. \A w \in Uppers : f[w].hashed => up[w].hashed /\ f[w].at = up[w].at /\ up[w].at # e
                                         /\ f[w].lower = up[w].lower
    BY <1>5, <1>6, <1>7
  <2> QED
    BY <2>1, <2>2, <2>3, <2>4
<1>13. CallOf(t)'
  BY <1>0, <1>1, <1>2, <1>3, <1>a DEF CallOf, At, Op, Found, LookPcs, OpPcs, NameCall
<1>14. LocksOf(t)'
  <2>1. LookPcs \cap {"idle", "lock"} = {} /\ "dlookup" \in LookPcs
    BY DEF LookPcs
  <2>2. Op(t) = "link" /\ k = 2 => ~Walking(t)
    BY <1>0, <1>1, <1>b DEF Walking
  <2>3. Op(t) # "walk" /\ Op(t) # "link" => ~Walking(t)
    BY DEF Walking
  <2>4. Entry(t)' = call[t].ent[k] /\ Op(t)' = Op(t) /\ call'[t].cur = k /\ call'[t].pc = "dlookup"
        /\ call'[t].ent = call[t].ent
    BY <1>3 DEF NameCall, Entry, Op
  <2>5. \A j \in 1..2 : LockedName(t, j)' => LockedName(t, j) /\ Op(t) # "walk"
    BY <2>4 DEF LockedName
  <2> QED
    BY <1>a, <2>1, <2>2, <2>3, <2>4, <2>5 DEF LocksOf, NamesLocked
<1>15. \A j \in 1..2 : j # k /\ Reached(t, j)' => Reached(t, j) /\ j = 1 /\ k = 2
  BY <1>0, <1>1, <1>3, <1>b DEF Reached, NameCall, At, OpPcs
<1>16. UseOf(t)'
  <2>1. ~Reached(t, k)'
    BY <1>3 DEF Reached, NameCall, At, OpPcs
  <2> QED
    BY <1>0, <1>1, <1>2, <1>3, <1>7, <1>12, <1>15, <2>1 DEF UseOf, Lower, NameCall
<1>17. FreshOf(t)'
  <2>1. Found(t)' = u /\ Entry(t)' = e /\ call'[t].pc = "dlookup" /\ call'[t].cur = k
    BY <1>3 DEF NameCall, Found, Entry, e
  <2>2. \A s \in Tasks, j \in 1..2 : call'[s].du[j] = u => s = t /\ j = k
    BY <1>3, <1>4 DEF NameCall, Alone
  <2> QED
    BY <1>7, <1>12, <2>1, <2>2 DEF FreshOf
<1>18. SoleOf(t)'
  <2> SUFFICES ASSUME NEW j \in 1..2, Under(t, j)'
               PROVE  /\ up'[call'[t].du[j]].at = call[t].ent[j]
                      /\ \A w \in Uppers : up'[w].hashed /\ up'[w].at = call[t].ent[j] => w = call'[t].du[j]
    BY <1>3 DEF SoleOf, NameCall
  <2>1. CASE j = k
    BY <1>3, <1>7, <1>12, <2>1 DEF NameCall, e
  <2>2. CASE j # k
    <3>1. Reached(t, j)' /\ LockedName(t, j)
      BY <1>3, <2>2 DEF Under, LockedName, NameCall, Op
    <3>2. Under(t, j) /\ call[t].du[j] \in Uppers /\ call'[t].du[j] = call[t].du[j]
      BY <1>0, <1>3, <1>15, <2>2, <3>1 DEF Under, UseOf, NameCall
    <3> QED
      BY <1>0, <1>12, <2>2, <3>2 DEF SoleOf
  <2> QED
    BY <2>1, <2>2
<1>19. RefsInv' /\ AtStays /\ (\A d \in Dirs : Takers(d)' = Takers(d))
  BY <1>0, <1>2, <1>a, <1>8, <1>9, <1>10, <1>13, <1>14, <1>16, <1>17, <1>18, ReleaseKeeps
<1>20. \A s \in Tasks, j \in 1..2 : call[s].du[j] \in Uppers /\ ~(s = t /\ j = k) =>
          up'[call[s].du[j]].lower = up[call[s].du[j]].lower
  BY <1>11, <1>12 DEF OthersUp
<1> QED
  BY <1>3, <1>12, <1>19, <1>20 DEF NameCall, NewTaken, Settles

\* The name is taken: the call goes on with a dentry of the dcache or a new one.
NameTaken(t, k) ==
    /\ AtStays /\ (\A d \in Dirs : Takers(d)' = Takers(d)) /\ Settles(t, k)
    /\ \/ NameCall(t, "dlookup", k, call'[t].du[k])
       \/ \E u \in Uppers : /\ NameCall(t, "reval", k, u) /\ up' = up /\ low' = low
                            /\ up[u].hashed /\ up[u].at = call[t].ent[k]

LEMMA TakeNameKeeps ==
  ASSUME RefsInv, NEW t \in Tasks, NEW k \in 1..2, TakeName(t, k),
         \/ At(t, "lock") /\ k = call[t].cur
         \/ At(t, "found") /\ Op(t) = "rename" /\ call[t].cur = 1 /\ k = 2,
         UNCHANGED <<scenario, content, seen, dirRefs, llock>>,
         OthersLock(t), ulock' \in [Dirs -> Tasks \cup {NoOne}],
         UpperAt(call[t].ent[k]) = NoDentry => ulock'[call[t].ent[k][1]] = t,
         Walking(t) \/ NamesLocked(t, ulock')
  PROVE  RefsInv' /\ NameTaken(t, k)
<1> DEFINE u == UpperAt(call[t].ent[k])
<1>0. call \in [Tasks -> Calls] /\ "reval" \in Pcs /\ UpperDcache
  BY DEF RefsInv, Types, Pcs
<1>1. CASE TakeCached(t, k)
  <2>1. u # NoDentry /\ call' = [call EXCEPT ![t].pc = "reval", ![t].cur = k, ![t].du[k] = u]
        /\ UNCHANGED <<low, up, mntRefs>>
    BY <1>1 DEF TakeCached
  <2>2. u \in Uppers /\ up[u].hashed /\ up[u].at = call[t].ent[k] /\ u = UpperAt(call[t].ent[k])
    BY <2>1, UpperFound
  <2> HIDE DEF u
  <2>3. NameCall(t, "reval", k, u)
    BY <1>0, <2>1, <2>2, NameStep
  <2>4. RefsInv' /\ (\A d \in Dirs : Takers(d)' = Takers(d))
    BY <2>1, <2>2, <2>3, FindKeeps
  <2>5. AtStays /\ Settles(t, k)
    BY <2>1 DEF AtStays, Settles
  <2> QED
    BY <2>1, <2>2, <2>3, <2>4, <2>5 DEF NameTaken
<1>2. CASE UpperAt(call[t].ent[k]) = NoDentry /\ NewDentry(t, k, up)
  <2>1. NewDentry(t, k, up) /\ MayTake(t, k, up)
    BY <1>2 DEF MayTake
  <2>2. OnlyNames(t, k)
    BY <1>2 DEF OnlyNames
  <2>3. RefsInv' /\ NewTaken(t, k)
    BY <2>1, <2>2, NewDentryKeeps
  <2> QED
    BY <2>3 DEF NameTaken, NewTaken
<1> QED
  BY <1>1, <1>2 DEF TakeName

LEMMA LockKeeps ==
  ASSUME RefsInv, NEW t \in Tasks, Lock(t)
  PROVE  RefsInv' /\ NameTaken(t, call[t].cur) /\ dirRefs' = dirRefs
<1> DEFINE k == call[t].cur
<1>0. /\ Types /\ call[t] \in Calls /\ CallOf(t) /\ call[t].pc = "lock" /\ k \in 1..2
      /\ ulock \in [Dirs -> Tasks \cup {NoOne}] /\ k = call[t].cur
  BY DEF RefsInv, Types, Calls, Lock, At
<1> HIDE DEF k
<1>1. /\ TakeName(t, k) /\ \A d \in UpperDirs(t) : ulock[d] = NoOne
      /\ ulock' = IF Walking(t) /\ UpperAt(Entry(t)) # NoDentry THEN ulock ELSE Locked(ulock, UpperDirs(t), t)
      /\ UNCHANGED <<scenario, content, seen, dirRefs, llock>>
  BY <1>0 DEF Lock, below
<1>2. call[t].ent[1] \in Entries /\ call[t].ent[2] \in Entries /\ (Op(t) = "rename" => k = 1)
  <2>1. call[t].ent \in Entries \X Entries
    BY <1>0 DEF CallOf, At
  <2> QED
    BY <1>0, <2>1 DEF CallOf, At
<1>3. UpperDirs(t) \subseteq Dirs /\ call[t].ent[k][1] \in UpperDirs(t) /\ Entry(t) = call[t].ent[k]
  <2>1. call[t].ent[1][1] \in Dirs /\ call[t].ent[2][1] \in Dirs
    BY <1>2 DEF Entries
  <2> QED
    BY <1>0, <1>2, <2>1 DEF UpperDirs, Entry
<1>4. /\ ulock' \in [Dirs -> Tasks \cup {NoOne}] /\ OthersLock(t)
      /\ ~(Walking(t) /\ UpperAt(Entry(t)) # NoDentry) => \A d \in UpperDirs(t) : ulock'[d] = t
  BY <1>0, <1>1, <1>3, NoOneIsNoTask DEF OthersLock, Locked
<1>5. Walking(t) \/ NamesLocked(t, ulock')
  BY <1>0, <1>4, LockedDirs DEF At
<1>6. UpperAt(call[t].ent[k]) = NoDentry => ulock'[call[t].ent[k][1]] = t
  BY <1>3, <1>4
<1> QED
  BY <1>0, <1>1, <1>4, <1>5, <1>6, TakeNameKeeps DEF At

LEMMA SecondNameKeeps ==
  ASSUME RefsInv, NEW t \in Tasks, SecondName(t)
  PROVE  RefsInv' /\ NameTaken(t, 2) /\ dirRefs' = dirRefs
<1>0. /\ Types /\ CallOf(t) /\ LocksOf(t) /\ At(t, "found") /\ Op(t) = "rename" /\ call[t].cur = 1
      /\ ulock \in [Dirs -> Tasks \cup {NoOne}] /\ TakeName(t, 2)
  BY DEF RefsInv, Types, SecondName
<1>1. UNCHANGED <<scenario, content, seen, dirRefs, ulock, llock>>
  BY DEF SecondName, below, locks
<1>2. ulock[call[t].ent[2][1]] = t /\ NamesLocked(t, ulock)
  BY <1>0 DEF LocksOf, NamesLocked, At, LockedName, Pair
<1>3. OthersLock(t)
  BY <1>1 DEF OthersLock
<1> QED
  BY <1>0, <1>1, <1>2, <1>3, TakeNameKeeps

LEMMA RevalInvalidKeeps ==
  ASSUME RefsInv, NEW t \in Tasks, RevalInvalid(t)
  PROVE  /\ RefsInv' /\ dirRefs' = dirRefs /\ AtStays /\ (\A d \in Dirs : Takers(d)' = Takers(d))
         /\ Settles(t, call[t].cur) /\ call[t].pc = "reval"
         /\ \/ NameCall(t, "dlookup", call[t].cur, call'[t].du[call[t].cur])
            \/ Walking(t) /\ NameCall(t, "lock", call[t].cur, NoDentry)
<1> DEFINE k == call[t].cur
           f == Unhash(up, Found(t))
<1>0. /\ Types /\ call \in [Tasks -> Calls] /\ call[t] \in Calls /\ CallOf(t) /\ LocksOf(t) /\ UseOf(t)
      /\ UpperDcache /\ call[t].pc = "reval" /\ k \in 1..2 /\ k = call[t].cur /\ "lock" \in Pcs
      /\ ulock \in [Dirs -> Tasks \cup {NoOne}] /\ seen \in [Tasks -> SUBSET Maybe]
      /\ up \in [Uppers -> UpperDentries]
  BY DEF RefsInv, Types, Calls, RevalInvalid, At, Pcs
<1>1. /\ UNCHANGED <<scenario, content, seen, dirRefs, ulock, llock>>
      /\ IF Walking(t) THEN Release(f, [call EXCEPT ![t].pc = "lock", ![t].du[k] = NoDentry])
         ELSE NewDentry(t, k, f)
  BY DEF RevalInvalid, below, locks
<1> HIDE DEF k
<1>2. OthersLock(t)
  BY <1>1 DEF OthersLock
<1>3. CASE ~Walking(t)
  <2>1. NamesLocked(t, ulock')
    <3>1. Op(t) # "walk" /\ (Op(t) = "link" => call[t].cur = 2)
      BY <1>0, <1>3 DEF Walking, Calls
    <3> QED
      BY <1>0, <1>1, <3>1 DEF LocksOf, NamesLocked
  <2>2. ulock'[call[t].ent[k][1]] = t
    <3>1. LockedName(t, k) /\ (k = 1 \/ Op(t) \in Pair)
      BY <1>0, <1>3 DEF Walking, LockedName, CallOf, Pair
    <3> QED
      BY <1>0, <2>1, <3>1 DEF NamesLocked
  <2>3. NewDentry(t, k, f) /\ MayTake(t, k, f)
    BY <1>0, <1>1, <1>3 DEF MayTake, At
  <2> HIDE DEF f
  <2>4. OnlyNames(t, k)
    BY <1>0, <1>1, <1>2, <2>1, <2>2 DEF OnlyNames
  <2>5. RefsInv' /\ NewTaken(t, k)
    BY <1>0, <2>3, <2>4, NewDentryKeeps
  <2> QED
    BY <1>0, <1>1, <2>5 DEF NewTaken
<1>4. CASE Walking(t)
  <2>1. k = 1 /\ call[t].dir = <<>> /\ call[t].dl \notin Lowers /\ Found(t) \in Uppers /\ Found(t) = call[t].du[k]
    BY <1>0, <1>4 DEF Walking, CallOf, OpPcs, Found, Pair
  <2>2. Release(f, call') /\ call' = [call EXCEPT ![t].pc = "lock", ![t].cur = k, ![t].du[k] = NoDentry]
    <3>1. call' = [call EXCEPT ![t].pc = "lock", ![t].du[k] = NoDentry]
      BY <1>1, <1>4 DEF Release
    <3>2. [call[t] EXCEPT !.pc = "lock", !.cur = k, !.du[k] = NoDentry] = [call[t] EXCEPT !.pc = "lock", !.du[k] = NoDentry]
      BY <1>0 DEF Calls
    <3>3. Release(f, call')
      BY <1>1, <1>4, <3>1
    <3> QED
      BY <3>1, <3>2, <3>3
  <2>3. NameCall(t, "lock", k, NoDentry)
    BY <1>0, <2>2, NameStep
  <2>4. /\ f \in [Uppers -> UpperDentries]
        /\ \A w \in Uppers : /\ f[w].at = up[w].at /\ f[w].inode = up[w].inode /\ f[w].lower = up[w].lower
                             /\ f[w].hashed => up[w].hashed
                             /\ up[w].at = <<>> => f[w] = FreeUpper
    <3>1. f = [up EXCEPT ![Found(t)] = [up[Found(t)] EXCEPT !.hashed = FALSE]]
      BY <1>0, <2>1, Numbers DEF Unhash
    <3>2. up[Found(t)] \in UpperDentries /\ up[Found(t)].at # <<>>
      BY <1>0, <2>1, NoEntryIsEmpty DEF UseOf
    <3> DEFINE r == [up[Found(t)] EXCEPT !.hashed = FALSE]
    <3>3. /\ r \in UpperDentries /\ r.at = up[Found(t)].at /\ r.inode = up[Found(t)].inode
          /\ r.lower = up[Found(t)].lower /\ ~r.hashed
      BY <3>2 DEF UpperDentries
    <3> HIDE DEF r, f
    <3>4. f = [up EXCEPT ![Found(t)] = r]
      BY <3>1 DEF r
    <3>5. \A w \in Uppers : up[w].at = <<>> => up[w] = FreeUpper
      BY <1>0 DEF UpperDcache
    <3>6. f \in [Uppers -> UpperDentries] /\ f[Found(t)] = r /\ \A w \in Uppers \ {Found(t)} : f[w] = up[w]
      BY <1>0, <2>1, <3>3, <3>4
    <3> QED
      BY <3>2, <3>3, <3>5, <3>6
  <2> HIDE DEF f
  <2>5. UppersOf(f)
    BY <1>0, <2>4 DEF UppersOf, UpperDcache
  <2>6. OthersIn(t, f)
    <3>1. \A s \in Tasks \ {t} : UseOf(s) /\ FreshOf(s)
      BY DEF RefsInv
    <3> QED
      BY <2>4, <3>1 DEF OthersIn, UseOf, FreshOf, Found
  <2>7. Alone(t) /\ call' \in [Tasks -> Calls] /\ NoTaking(t) /\ SameHolds(t) /\ SameFinds(t)
    BY <1>0, <2>1, <2>3, Numbers DEF NameCall, NoTaking, SameHolds, SameFinds
  <2>8. up' \in [Uppers -> UpperDentries] /\ UpperDcache' /\ OthersUp(t) /\ Kept(f)
    BY <2>2, <2>5, <2>6, <2>7, ReleaseUps
  <2>9. CallOf(t)'
    BY <1>0, <1>1, <2>1, <2>3 DEF CallOf, At, Op, LookPcs, OpPcs, NameCall
  <2>10. \A j \in 1..2 : ~Reached(t, j)'
    BY <2>1, <2>3 DEF Reached, NameCall, At, OpPcs
  <2>11. LocksOf(t)' /\ FreshOf(t)' /\ SoleOf(t)'
    BY <2>3, <2>10 DEF LocksOf, FreshOf, SoleOf, Under, LookPcs, NameCall
  <2>12. UseOf(t)'
    <3> SUFFICES ASSUME NEW j \in 1..2, call'[t].du[j] \in Uppers PROVE up'[call'[t].du[j]].at \in Entries
      BY <2>10 DEF UseOf
    <3>1. j # k /\ call'[t].du[j] = call[t].du[j]
      BY <2>3, Numbers DEF NameCall
    <3>2. up'[call'[t].du[j]] = f[call'[t].du[j]]
      BY <2>8 DEF Kept
    <3> QED
      BY <1>0, <2>4, <3>1, <3>2 DEF UseOf
  <2>13. RefsInv' /\ AtStays /\ (\A d \in Dirs : Takers(d)' = Takers(d))
    BY <1>0, <1>1, <1>2, <2>2, <2>5, <2>6, <2>7, <2>9, <2>11, <2>12, ReleaseKeeps
  <2>14. Settles(t, k)
    <3>1. \A w \in Uppers : up'[w].hashed => up'[w] = f[w]
      BY <2>8, FreesAreFree DEF Kept
    <3>2. \A j \in 1..2 : call[t].du[j] \in Uppers /\ j # k => up'[call[t].du[j]].lower = up[call[t].du[j]].lower
      BY <2>3, <2>4, <2>8 DEF Kept, NameCall
    <3> QED
      BY <2>4, <2>8, <3>1, <3>2 DEF Settles, OthersUp
  <2> QED
    BY <1>0, <1>1, <1>4, <2>3, <2>13, <2>14
<1> QED
  BY <1>3, <1>4

LEMMA UnderIsLocked ==
  ASSUME NEW s \in Tasks, call[s] \in Calls, CallOf(s), LocksOf(s), NEW k \in 1..2, Under(s, k)
  PROVE  ulock[call[s].ent[k][1]] = s
<1>1. \/ /\ call[s].pc \notin {"idle", "lock"} /\ LockedName(s, k)
         /\ Op(s) = "link" => call[s].cur = 2
         /\ k = 1 \/ Op(s) \in Pair
      \/ k = call[s].cur /\ call[s].pc \in LookPcs
  BY DEF Under, CallOf, LockedName, Reached, Calls, OpPcs, LookPcs, Pair, At, Idle
<1> QED
  BY <1>1 DEF LocksOf, Under, Entry

\* Dentries that are unhashed, or lose their inode.
Fades(f) ==
    /\ f \in [Uppers -> UpperDentries]
    /\ \A w \in Uppers : /\ f[w].at = up[w].at /\ f[w].lower = up[w].lower
                         /\ f[w].inode \in {up[w].inode, NoInode}
                         /\ f[w].hashed => up[w].hashed
                         /\ up[w].at = <<>> => f[w] = FreeUpper

LEMMA FadesAllowed ==
  ASSUME RefsInv, NEW t, NEW f, Fades(f)
  PROVE  UppersOf(f) /\ OthersIn(t, f)
<1>1. UpperDcache /\ \A s \in Tasks \ {t} : UseOf(s) /\ FreshOf(s)
  BY DEF RefsInv
<1>2. UppersOf(f)
  BY <1>1 DEF UppersOf, UpperDcache, Fades
<1>3. OthersIn(t, f)
  BY <1>1 DEF OthersIn, UseOf, FreshOf, Found, Fades
<1> QED
  BY <1>2, <1>3

LEMMA UnhashFades ==
  ASSUME RefsInv, NEW x \in Uppers, up[x].at # <<>>
  PROVE  Fades(up) /\ Fades(Unhash(up, x)) /\ Fades([up EXCEPT ![x].inode = NoInode])
<1>1. up \in [Uppers -> UpperDentries] /\ \A w \in Uppers : up[w].at = <<>> => up[w] = FreeUpper
  BY DEF RefsInv, Types, UpperDcache
<1>2. up[x] \in UpperDentries
  BY <1>1
<1>3. Fades(up)
  BY <1>1 DEF Fades
<1>4. ASSUME NEW r \in UpperDentries, r.at = up[x].at, r.lower = up[x].lower,
             r.inode \in {up[x].inode, NoInode}, r.hashed => up[x].hashed
      PROVE  Fades([up EXCEPT ![x] = r])
  BY <1>1, <1>4 DEF Fades
<1>5. Fades(Unhash(up, x))
  <2> DEFINE r == [up[x] EXCEPT !.hashed = FALSE]
  <2>1. /\ r \in UpperDentries /\ r.at = up[x].at /\ r.lower = up[x].lower
        /\ r.inode = up[x].inode /\ ~r.hashed
    BY <1>2 DEF UpperDentries
  <2>2. Unhash(up, x) = [up EXCEPT ![x] = r]
    BY Numbers DEF Unhash
  <2> HIDE DEF r
  <2> QED
    BY <1>4, <2>1, <2>2
<1>6. Fades([up EXCEPT ![x].inode = NoInode])
  <2> DEFINE r == [up[x] EXCEPT !.inode = NoInode]
  <2>1. /\ r \in UpperDentries /\ r.at = up[x].at /\ r.lower = up[x].lower
        /\ r.inode = NoInode /\ r.hashed = up[x].hashed
    BY <1>2 DEF UpperDentries, Maybe
  <2>2. [up EXCEPT ![x].inode = NoInode] = [up EXCEPT ![x] = r]
    OBVIOUS
  <2> HIDE DEF r
  <2> QED
    BY <1>4, <2>1, <2>2
<1> QED
  BY <1>3, <1>5, <1>6

\* d_move of the two dentries whose directories a rename has locked.
LEMMA RenamesAllowed ==
  ASSUME RefsInv, NEW t \in Tasks, At(t, "return"), call[t].rc, Op(t) = "rename"
  PROVE  LET a == call[t].du[1]
             b == call[t].du[2]
         IN  /\ a \in Uppers /\ b \in Uppers /\ a # b
             /\ UppersOf(Moved(up, a, b)) /\ OthersIn(t, Moved(up, a, b))
             /\ up[a].at = call[t].ent[1] /\ up[b].at = call[t].ent[2]
             /\ Exchanged(Uppers, up, a, b, Moved(up, a, b))
<1> DEFINE a == call[t].du[1]
           b == call[t].du[2]
           g == Moved(up, a, b)
<1>0. /\ call \in [Tasks -> Calls] /\ up \in [Uppers -> UpperDentries] /\ UpperDcache
      /\ CallOf(t) /\ UseOf(t) /\ SoleOf(t) /\ LocksOf(t) /\ call[t] \in Calls
  BY DEF RefsInv, Types
<1>1. call[t].cur = 2 /\ call[t].ent \in Entries \X Entries /\ call[t].ent[1] # call[t].ent[2]
  BY <1>0 DEF CallOf, At, Pair
<1>2. \A k \in 1..2 : Reached(t, k) /\ Under(t, k)
  BY <1>1 DEF Reached, Under, LockedName, At
<1>3. /\ a \in Uppers /\ b \in Uppers /\ up[a].lower \in Lowers /\ up[b].lower \in Lowers
  BY <1>0, <1>2 DEF UseOf, Lower
<1>4. /\ up[a].at = call[t].ent[1] /\ up[b].at = call[t].ent[2]
      /\ \A u \in Uppers : up[u].hashed /\ up[u].at = call[t].ent[1] => u = a
      /\ \A u \in Uppers : up[u].hashed /\ up[u].at = call[t].ent[2] => u = b
  BY <1>0, <1>2 DEF SoleOf
<1>5. ulock[call[t].ent[1][1]] = t /\ ulock[call[t].ent[2][1]] = t
  BY <1>0, <1>2, UnderIsLocked
<1>6. a # b /\ call[t].ent[1] \in Entries /\ call[t].ent[2] \in Entries
  BY <1>1, <1>4
<1> HIDE DEF a, b
<1>7. Exchanged(Uppers, up, a, b, g)
  BY <1>0, <1>3, <1>6, MovedIs
<1>8. /\ g \in [Uppers -> UpperDentries]
      /\ g[a].at = up[b].at /\ g[a].hashed /\ g[a].inode = up[a].inode /\ g[a].lower = up[a].lower
      /\ g[b].at = up[a].at /\ ~g[b].hashed /\ g[b].inode = up[b].inode /\ g[b].lower = up[b].lower
      /\ \A w \in Uppers \ {a, b} : g[w] = up[w]
  <2> DEFINE r == [up[a] EXCEPT !.at = up[b].at, !.hashed = TRUE]
             q == [up[b] EXCEPT !.at = up[a].at, !.hashed = FALSE]
  <2>1. g = [up EXCEPT ![a] = r, ![b] = q] /\ g[a] = r /\ g[b] = q /\ \A w \in Uppers \ {a, b} : g[w] = up[w]
    BY <1>7 DEF Exchanged
  <2>2. up[a] \in UpperDentries /\ up[b] \in UpperDentries
    BY <1>0, <1>3
  <2>3. /\ r \in UpperDentries /\ r.at = up[b].at /\ r.hashed /\ r.inode = up[a].inode /\ r.lower = up[a].lower
        /\ q \in UpperDentries /\ q.at = up[a].at /\ ~q.hashed /\ q.inode = up[b].inode /\ q.lower = up[b].lower
    BY <2>2 DEF UpperDentries
  <2> HIDE DEF r, q, g
  <2>4. g \in [Uppers -> UpperDentries]
    BY <1>0, <1>3, <2>1, <2>3
  <2> QED
    BY <2>1, <2>3, <2>4
<1> HIDE DEF g
<1>9. UppersOf(g)
  <2>1. \A u, w \in Uppers : g[u].hashed /\ g[w].hashed /\ g[u].at = g[w].at => u = w
    BY <1>0, <1>3, <1>4, <1>8 DEF UpperDcache
  <2>2. \A w \in Uppers : g[w].hashed => g[w].lower \in Lowers
    BY <1>0, <1>3, <1>8 DEF UpperDcache
  <2>3. \A w \in Uppers : g[w].lower = up[w].lower
    BY <1>8
  <2>4. \A w \in Uppers : g[w].at = <<>> => g[w] = FreeUpper
    BY <1>0, <1>4, <1>6, <1>8, NoEntryIsEmpty DEF UpperDcache
  <2> QED
    BY <1>8, <2>1, <2>2, <2>3, <2>4 DEF UppersOf
<1>10. OthersIn(t, g)
  <2>1. ASSUME NEW s \in Tasks \ {t}, NEW k \in 1..2, call[s].du[k] \in Uppers
        PROVE  /\ g[call[s].du[k]].at \in Entries
               /\ Under(s, k) => g[call[s].du[k]].at = up[call[s].du[k]].at
               /\ k = call[s].cur /\ call[s].pc \in LookPcs =>
                     g[call[s].du[k]].inode = NoInode /\ ~g[call[s].du[k]].hashed
    <3> DEFINE x == call[s].du[k]
    <3>1. call[s] \in Calls /\ CallOf(s) /\ LocksOf(s) /\ UseOf(s) /\ FreshOf(s) /\ SoleOf(s)
      BY <1>0 DEF RefsInv
    <3>2. up[x].at \in Entries
      BY <2>1, <3>1 DEF UseOf
    <3>3. ASSUME Under(s, k), x \in {a, b} PROVE FALSE
      <4>1. up[x].at = call[s].ent[k] /\ ulock[call[s].ent[k][1]] = s
        BY <3>1, <3>3, UnderIsLocked DEF SoleOf
      <4> QED
        BY <1>4, <1>5, <3>3, <4>1
    <3>4. ASSUME k = call[s].cur, call[s].pc \in LookPcs
          PROVE  x \notin {a, b} /\ up[x].inode = NoInode /\ ~up[x].hashed
      BY <3>1, <3>4 DEF FreshOf, Found, a, b
    <3> HIDE DEF x
    <3>5. x \in Uppers
      BY <2>1 DEF x
    <3>6. g[x].at \in Entries /\ (Under(s, k) => g[x].at = up[x].at)
      BY <1>4, <1>6, <1>8, <3>2, <3>3, <3>5
    <3>7. k = call[s].cur /\ call[s].pc \in LookPcs => g[x].inode = NoInode /\ ~g[x].hashed
      BY <1>8, <3>4, <3>5
    <3> QED
      BY <3>6, <3>7 DEF x
  <2>2. \A u \in Uppers : g[u].hashed =>
          \/ up[u].hashed /\ g[u].at = up[u].at
          \/ g[u].at \in Entries /\ ulock[g[u].at[1]] = t
    BY <1>4, <1>5, <1>6, <1>8
  <2> QED
    BY <2>1, <2>2 DEF OthersIn
<1> QED
  BY <1>3, <1>4, <1>6, <1>7, <1>9, <1>10 DEF a, b, g

\* The dentries after a call has returned: d_move has given the first of a
\* rename the second name; the rest were what they are, or lost something.
Returned(t, f) ==
    /\ \A w \in Uppers : f[w].lower = up[w].lower
    /\ \A w \in Uppers : f[w].hashed =>
          \/ up[w].hashed /\ f[w].at = up[w].at /\ ~(Renamed(t) /\ \E k \in 1..2 : w = call[t].du[k])
          \/ Renamed(t) /\ w = call[t].du[1] /\ f[w].at = call[t].ent[2]

LEMMA ReturnKeeps ==
  ASSUME RefsInv, NEW t \in Tasks, Return(t)
  PROVE  /\ RefsInv' /\ AtStays /\ dirRefs' = dirRefs /\ (\A d \in Dirs : Takers(d)' = Takers(d))
         /\ Alone(t) /\ call'[t] = Idle /\ At(t, "return") /\ OthersUp(t)
         /\ \E f : Returned(t, f) /\ \A w \in Uppers : up'[w] \in {f[w], FreeUpper}
<1> DEFINE u == call[t].du[1]
           alone == \A s \in Tasks \ {t}, k \in 1..2 : call[s].du[k] # u
           F == CASE call[t].rc /\ Op(t) \in Removing ->
                       IF alone THEN [up EXCEPT ![u].inode = NoInode] ELSE Unhash(up, u)
                  [] call[t].rc /\ Op(t) = "rename" -> Moved(up, u, call[t].du[2])
                  [] OTHER -> up
<1>0. /\ Types /\ call \in [Tasks -> Calls] /\ call[t] \in Calls /\ CallOf(t) /\ UseOf(t)
      /\ call[t].pc = "return" /\ seen \in [Tasks -> SUBSET Maybe] /\ up \in [Uppers -> UpperDentries]
  BY DEF RefsInv, Types, Return, At
<1>1. /\ UNCHANGED <<scenario, content, dirRefs, llock>> /\ ulock' = Unlocked(ulock, t)
      /\ seen' = [seen EXCEPT ![t] = {}] /\ Release(F, [call EXCEPT ![t] = Idle])
  BY DEF Return
<1>2. PICK f : /\ Release(f, [call EXCEPT ![t] = Idle]) /\ UppersOf(f) /\ OthersIn(t, f) /\ Returned(t, f)
  <2>1. CASE call[t].rc /\ Op(t) \in Removing
    <3> HIDE DEF alone
    <3>1. F = [up EXCEPT ![u].inode = NoInode] \/ F = Unhash(up, u)
      <4>1. F = IF alone THEN [up EXCEPT ![u].inode = NoInode] ELSE Unhash(up, u)
        BY <2>1 DEF Removing
      <4> HIDE DEF F
      <4> QED
        BY <4>1
    <3>2. u \in Uppers /\ up[u].at # <<>>
      BY <1>0, <2>1, NoEntryIsEmpty DEF UseOf, Reached, CallOf, Removing, Pair, At, Calls
    <3> HIDE DEF F, u
    <3>3. Fades(F)
      BY <3>1, <3>2, UnhashFades
    <3>4. ~Renamed(t)
      BY <2>1 DEF Renamed, Removing
    <3>5. Returned(t, F)
      BY <3>3, <3>4 DEF Returned, Fades
    <3> QED
      BY <1>1, <3>3, <3>5, FadesAllowed
  <2>2. CASE call[t].rc /\ Op(t) = "rename"
    <3> DEFINE b == call[t].du[2]
               g == Moved(up, u, b)
    <3>1. F = g
      BY <2>2 DEF Removing
    <3>2. /\ u \in Uppers /\ b \in Uppers /\ u # b /\ UppersOf(g) /\ OthersIn(t, g)
          /\ up[u].at = call[t].ent[1] /\ up[b].at = call[t].ent[2]
          /\ Exchanged(Uppers, up, u, b, g)
      BY <1>0, <2>2, RenamesAllowed DEF At
    <3> HIDE DEF F, g
    <3>3. /\ g[u] = [up[u] EXCEPT !.at = up[b].at, !.hashed = TRUE]
          /\ g[b] = [up[b] EXCEPT !.at = up[u].at, !.hashed = FALSE]
          /\ \A w \in Uppers \ {u, b} : g[w] = up[w]
      BY <3>2 DEF Exchanged
    <3>4. g[u].at = call[t].ent[2] /\ ~g[b].hashed /\ up[u] \in UpperDentries /\ up[b] \in UpperDentries
      BY <1>0, <3>2, <3>3 DEF UpperDentries
    <3>5. \A w \in Uppers : g[w].lower = up[w].lower
      BY <3>2 DEF UppersOf
    <3>6. Renamed(t)
      BY <1>0, <2>2 DEF Renamed, At
    <3>7. \A k \in 1..2 : call[t].du[k] \in {u, b}
      OBVIOUS
    <3> HIDE DEF u, b
    <3>8. \A w \in Uppers : g[w].hashed =>
             \/ up[w].hashed /\ g[w].at = up[w].at /\ ~(\E k \in 1..2 : w = call[t].du[k])
             \/ w = u /\ g[w].at = call[t].ent[2]
      BY <3>3, <3>4, <3>7
    <3>9. Returned(t, g)
      BY <3>5, <3>6, <3>8 DEF Returned, u
    <3> QED
      BY <1>1, <3>1, <3>2, <3>9
  <2>3. CASE ~(call[t].rc /\ Op(t) \in Removing) /\ ~(call[t].rc /\ Op(t) = "rename")
    <3>1. F = up
      BY <2>3
    <3> HIDE DEF F
    <3>2. up \in [Uppers -> UpperDentries] /\ \A w \in Uppers : up[w].at = <<>> => up[w] = FreeUpper
      BY DEF RefsInv, Types, UpperDcache
    <3>3. Fades(up)
      BY <3>2 DEF Fades
    <3>4. ~Renamed(t)
      BY <2>3 DEF Renamed
    <3>5. Returned(t, up)
      BY <3>3, <3>4 DEF Returned, Fades
    <3> QED
      BY <1>1, <3>1, <3>3, <3>5, FadesAllowed
  <2> QED
    BY <2>1, <2>2, <2>3
<1> HIDE DEF F, u
<1>3. Idle \in Calls /\ Idle.dir = <<>> /\ Idle.pc = "idle" /\ Idle.dl = NoDentry /\ Idle.cur = 1
      /\ (\A k \in 1..2 : Idle.du[k] = NoDentry) /\ Idle.rc
  <2>1. <<NoDentry, NoDentry>> \in [1..2 -> Uppers \cup {NoDentry}]
    OBVIOUS
  <2> QED
    BY <2>1 DEF Idle, Calls, Pcs, OpNames, Maybe
<1>4. call' = [call EXCEPT ![t] = Idle] /\ Release(f, call')
  <2>1. call' = [call EXCEPT ![t] = Idle]
    BY <1>2 DEF Release
  <2> QED
    BY <1>2, <2>1
<1>5. call' \in [Tasks -> Calls] /\ call'[t] = Idle /\ Alone(t)
  BY <1>0, <1>3, <1>4 DEF Alone
<1>6. OthersLock(t) /\ ulock' \in [Dirs -> Tasks \cup {NoOne}]
  BY <1>0, <1>1, UnlockedKeeps
<1>7. NoTaking(t) /\ SameHolds(t) /\ SameFinds(t)
  <2>1. call[t].dir = <<>>
    BY <1>0 DEF CallOf, OpPcs
  <2> QED
    BY <1>0, <1>3, <1>5, <2>1, Numbers DEF NoTaking, SameHolds, SameFinds
<1>8. seen' \in [Tasks -> SUBSET Maybe]
  BY <1>0, <1>1
<1>9. CallOf(t)' /\ LocksOf(t)' /\ UseOf(t)' /\ FreshOf(t)' /\ SoleOf(t)'
  <2>1. \A k \in 1..2 : ~Reached(t, k)' /\ ~Under(t, k)'
    BY <1>3, <1>5 DEF Reached, Under, At, OpPcs, LookPcs
  <2>2. CallOf(t)'
    BY <1>3, <1>5, Numbers DEF CallOf, At, LookPcs, OpPcs
  <2>3. LocksOf(t)' /\ FreshOf(t)'
    BY <1>3, <1>5 DEF LocksOf, FreshOf, LookPcs
  <2>4. UseOf(t)'
    BY <1>3, <1>5, <2>1, Numbers DEF UseOf
  <2>5. SoleOf(t)'
    BY <2>1 DEF SoleOf
  <2> QED
    BY <2>2, <2>3, <2>4, <2>5
<1>10. RefsInv' /\ AtStays /\ Kept(f) /\ (\A d \in Dirs : Takers(d)' = Takers(d))
  BY <1>1, <1>2, <1>4, <1>5, <1>6, <1>7, <1>8, <1>9, ReleaseKeeps
<1>11. OthersUp(t)
  BY <1>2, <1>4, <1>5, ReleaseUps
<1> QED
  BY <1>0, <1>1, <1>2, <1>5, <1>10, <1>11 DEF Kept, At

LEMMA UpperPruneKeeps ==
  ASSUME RefsInv, NEW u \in Uppers, UpperPrune(u)
  PROVE  /\ RefsInv' /\ AtStays /\ dirRefs' = dirRefs /\ (\A d \in Dirs : Takers(d)' = Takers(d))
         /\ call' = call /\ scenario' = scenario /\ OthersUp(NoOne)
         /\ \A w \in Uppers : up'[w].hashed => up[w].hashed /\ up'[w].at = up[w].at /\ up'[w].lower = up[w].lower
<1> DEFINE f == Unhash(up, u)
<1>0. Types /\ UpperDcache /\ call' = call
  BY DEF RefsInv, UpperPrune, Release
<1>1. Release(f, call') /\ UNCHANGED <<scenario, content, seen, dirRefs, ulock, llock>> /\ up[u].hashed
  BY <1>0 DEF UpperPrune, below, locks
<1>2. up[u].at # <<>>
  BY <1>0, <1>1, FreesAreFree DEF UpperDcache
<1>3. Fades(f)
  BY <1>2, UnhashFades
<1> HIDE DEF f
<1>4. UppersOf(f) /\ OthersIn(NoOne, f)
  BY <1>3, FadesAllowed
<1>5. Alone(NoOne) /\ OthersLock(NoOne) /\ NoTaking(NoOne) /\ SameHolds(NoOne) /\ SameFinds(NoOne)
  BY <1>0, <1>1, NoOneIsNoTask DEF Alone, OthersLock, NoTaking, SameHolds, SameFinds
<1>6. RefsInv' /\ AtStays /\ Kept(f) /\ (\A d \in Dirs : Takers(d)' = Takers(d))
  BY <1>0, <1>1, <1>4, <1>5, NoOneIsNoTask, ReleaseKeeps DEF Types
<1>7. OthersUp(NoOne)
  BY <1>1, <1>4, <1>5, ReleaseUps
<1>8. \A w \in Uppers : up'[w].hashed => up'[w] = f[w]
  BY <1>6, FreesAreFree DEF Kept
<1> QED
  BY <1>0, <1>1, <1>3, <1>6, <1>7, <1>8 DEF Fades

-----------------------------------------------------------------------------
(* Dentries stay where their names are.                                     *)

\* What a step of t leaves to the others: their dentries keep what they point
\* to, and lower dentries in use their place, but in directories t has locked.
OthersStay(t) ==
    /\ Alone(t)
    /\ \A s \in Tasks \ {t}, j \in 1..2 : call[s].du[j] \in Uppers =>
          up'[call[s].du[j]].lower = up[call[s].du[j]].lower
    /\ \A l \in Lowers : low[l].refs # 0 /\ low'[l].refs # 0 =>
          low'[l].at = low[l].at \/ (low[l].at \in Entries /\ ulock[low[l].at[1]] = t)

\* What is pointed to, and what a lookup has found, has references.
InUse ==
    /\ \A u \in Uppers : up[u].lower \in Lowers => low[up[u].lower].refs # 0
    /\ \A t \in Tasks : call[t].pc \in {"lreval", "read", "add"} => low[call[t].dl].refs # 0
    /\ \A t \in Tasks, k \in 1..2 : Reached(t, k) => call[t].du[k] \in Uppers /\ Lower(t, k) \in Lowers
    /\ \A t \in Tasks : call[t].pc \in LookPcs => up[Found(t)].at = Entry(t)

LEMMA UsedAreReferred == RefsInv => InUse
<1> SUFFICES ASSUME RefsInv PROVE InUse
  OBVIOUS
<1>1. \A t \in Tasks : CallOf(t) /\ UseOf(t) /\ FreshOf(t) /\ call[t] \in Calls
  BY DEF RefsInv, Types
<1>2. \A u \in Uppers : up[u].lower \in Lowers => low[up[u].lower].refs # 0
  BY ReferredIsKept
<1>3. ASSUME NEW t \in Tasks, call[t].pc \in {"lreval", "read"} PROVE low[call[t].dl].refs # 0
  BY <1>1, <1>3, ReferredIsKept DEF CallOf
<1>4. ASSUME NEW t \in Tasks, call[t].pc = "add" PROVE low[call[t].dl].refs # 0
  <2>1. call[t].dl \in Lowers /\ Found(t) \in Uppers /\ up[Found(t)].lower = call[t].dl
    BY <1>1, <1>4 DEF CallOf, FreshOf, LookPcs
  <2> QED
    BY <1>2, <2>1
<1>5. \A t \in Tasks, k \in 1..2 : Reached(t, k) => call[t].du[k] \in Uppers /\ Lower(t, k) \in Lowers
  BY <1>1 DEF UseOf
<1>6. \A t \in Tasks : call[t].pc \in LookPcs => up[Found(t)].at = Entry(t)
  BY <1>1 DEF FreshOf
<1> QED
  BY <1>2, <1>3, <1>4, <1>5, <1>6 DEF InUse

LEMMA UsedWillBeReferred == RefsInv' => InUse'
BY UsedAreReferred, PTL

LEMMA RefersTo ==
  ASSUME RefsInv, NEW t \in Tasks
  PROVE  /\ \A k \in 1..2 : Reached(t, k) =>
               call[t].du[k] \in Uppers /\ Lower(t, k) \in Lowers /\ low[Lower(t, k)].refs # 0
         /\ call[t].pc \in {"lreval", "read", "add"} => call[t].dl \in Lowers /\ low[call[t].dl].refs # 0
<1>1. CallOf(t) /\ UseOf(t) /\ FreshOf(t) /\ call[t] \in Calls
  BY DEF RefsInv, Types
<1>2. \A k \in 1..2 : Reached(t, k) =>
         call[t].du[k] \in Uppers /\ Lower(t, k) \in Lowers /\ low[Lower(t, k)].refs # 0
  BY <1>1, ReferredIsKept DEF UseOf, Lower
<1>3. CASE call[t].pc \in {"lreval", "read"}
  BY <1>1, <1>2, <1>3, ReferredIsKept DEF CallOf
<1>4. CASE call[t].pc = "add"
  <2>1. call[t].dl \in Lowers /\ Found(t) \in Uppers /\ up[Found(t)].lower = call[t].dl
    BY <1>1, <1>4 DEF CallOf, FreshOf, LookPcs
  <2> QED
    BY <1>2, <1>4, <2>1, ReferredIsKept
<1> QED
  BY <1>2, <1>3, <1>4

LEMMA OthersPlaced ==
  ASSUME RefsInv, RefsInv', NEW t, OthersStay(t), NEW s \in Tasks, s # t, PlaceOf(s)
  PROVE  PlaceOf(s)'
<1>0. /\ call'[s] = call[s] /\ CallOf(s) /\ LocksOf(s) /\ UseOf(s) /\ FreshOf(s) /\ call[s] \in Calls
      /\ LowFunction(low)
  BY LowIsFunction DEF OthersStay, Alone, RefsInv, Types
<1>1. \A k \in 1..2 : /\ Reached(s, k)' <=> Reached(s, k)
                      /\ LockedName(s, k)' <=> LockedName(s, k)
  BY <1>0 DEF Reached, LockedName, At, Op
<1>2. /\ Renamed(s)' <=> Renamed(s)
      /\ Op(s)' = Op(s) /\ Entry(s)' = Entry(s) /\ EntDirs(s)' = EntDirs(s) /\ (At(s, "misplaced")' <=> At(s, "misplaced"))
  BY <1>0 DEF Renamed, Op, Entry, EntDirs, At
<1>3. \A k \in 1..2 : call[s].ent \in Entries \X Entries => call[s].ent[k] \in Entries
  OBVIOUS
<1>4. ASSUME NEW k \in 1..2, LockedName(s, k), Reached(s, k)
      PROVE  low'[Lower(s, k)'].at = call[s].ent[IF Renamed(s) THEN 3 - k ELSE k]
  <2>1. /\ call[s].du[k] \in Uppers /\ Lower(s, k) \in Lowers /\ low[Lower(s, k)].refs # 0
        /\ Lower(s, k)' = Lower(s, k) /\ low'[Lower(s, k)].refs # 0
    <3>1. call[s].du[k] \in Uppers /\ Lower(s, k) \in Lowers /\ low[Lower(s, k)].refs # 0
      BY <1>4, RefersTo
    <3>2. Lower(s, k)' = Lower(s, k)
      BY <1>0, <3>1 DEF OthersStay, Lower
    <3>3. low'[Lower(s, k)'].refs # 0
      <4>1. Reached(s, k)'
        BY <1>1, <1>4
      <4> QED
        BY <4>1, UsedWillBeReferred DEF InUse, Lower
    <3> QED
      BY <3>1, <3>2, <3>3
  <2>2. low[Lower(s, k)].at = call[s].ent[IF Renamed(s) THEN 3 - k ELSE k]
    BY <1>4 DEF PlaceOf
  <2>3. ulock[low[Lower(s, k)].at[1]] = s
    <3>1. call[s].pc \notin {"idle", "lock"} /\ (Op(s) = "link" => call[s].cur = 2) /\ (Renamed(s) => Op(s) = "rename")
          /\ (k = 2 => Op(s) \in Pair)
      BY <1>0, <1>4 DEF Reached, LockedName, CallOf, OpPcs, At, Idle, Calls, Renamed, Pair
    <3>2. \A j \in 1..2 : LockedName(s, j) /\ (j = 1 \/ Op(s) \in Pair) => ulock[call[s].ent[j][1]] = s
      BY <1>0, <3>1 DEF LocksOf
    <3>3. Renamed(s) => LockedName(s, 3 - k) /\ 3 - k \in 1..2
      BY <3>1 DEF LockedName
    <3> QED
      BY <1>4, <2>2, <3>1, <3>2, <3>3 DEF Pair
  <2> QED
    BY <2>1, <2>2, <2>3 DEF OthersStay
<1>5. ASSUME call[s].pc \in {"lreval", "read", "add"} PROVE low'[call[s].dl].at = Entry(s)
  <2>1. call[s].dl \in Lowers /\ low[call[s].dl].refs # 0
    BY <1>5, RefersTo
  <2>2. low'[call[s].dl].refs # 0
    BY <1>0, <1>5, UsedWillBeReferred DEF InUse
  <2>3. low[call[s].dl].at = Entry(s) /\ ulock[Entry(s)[1]] = s
    BY <1>0, <1>5 DEF PlaceOf, LocksOf, LookPcs
  <2> QED
    BY <2>1, <2>2, <2>3 DEF OthersStay
<1> QED
  BY <1>0, <1>1, <1>2, <1>4, <1>5 DEF PlaceOf

\* A name of t that was reached before keeps its place.
OwnName(t, k) ==
    /\ Reached(t, k) /\ LockedName(t, k)
    /\ call'[t].du[k] = call[t].du[k] /\ up'[call[t].du[k]].lower = up[call[t].du[k]].lower
    /\ Renamed(t)' <=> Renamed(t)

LEMMA OwnPlaced ==
  ASSUME RefsInv, RefsInv', NEW t \in Tasks, PlaceOf(t), AtStays,
         call'[t].ent = call[t].ent, call'[t].op = call[t].op,
         \A k \in 1..2 : LockedName(t, k)' /\ Reached(t, k)' => OwnName(t, k)
  PROVE  \A k \in 1..2 : LockedName(t, k)' /\ Reached(t, k)' =>
            low'[Lower(t, k)'].at = call'[t].ent[IF Renamed(t)' THEN 3 - k ELSE k]
<1> SUFFICES ASSUME NEW k \in 1..2, LockedName(t, k)', Reached(t, k)', OwnName(t, k)
             PROVE  low'[Lower(t, k)'].at = call'[t].ent[IF Renamed(t)' THEN 3 - k ELSE k]
  OBVIOUS
<1>1. Lower(t, k) \in Lowers /\ low[Lower(t, k)].refs # 0 /\ Lower(t, k)' = Lower(t, k)
  BY RefersTo DEF OwnName, Lower
<1>2. low'[Lower(t, k)].refs # 0
  BY <1>1, UsedWillBeReferred DEF InUse, Lower
<1>3. low[Lower(t, k)].at = call[t].ent[IF Renamed(t) THEN 3 - k ELSE k]
  BY DEF OwnName, PlaceOf
<1> QED
  BY <1>1, <1>2, <1>3 DEF OwnName, AtStays

\* A rename that is done remains so until its dentries are exchanged.
KeepsRenaming(t) == t \in Tasks /\ Renamed(t) => Renamed(t)' /\ call'[t].du = call[t].du

LEMMA StaysPlaced ==
  ASSUME RefsInv, RefsInv', NEW t, Alone(t), KeepsRenaming(t), AtStays, NEW u \in Uppers, Placed(u),
         up[u].hashed, up'[u].at = up[u].at, up'[u].lower = up[u].lower
  PROVE  Placed(u)'
<1>1. CASE low[up[u].lower].at = up[u].at
  <2>1. up[u].lower \in Lowers
    BY DEF RefsInv, UpperDcache
  <2>2. low[up[u].lower].refs # 0 /\ low'[up[u].lower].refs # 0
    BY <2>1, UsedAreReferred, UsedWillBeReferred DEF InUse
  <2> QED
    BY <1>1, <2>1, <2>2 DEF AtStays, Placed
<1>2. CASE \E s \in Tasks, k \in 1..2 : Renamed(s) /\ u = call[s].du[k]
  <2>1. PICK s \in Tasks, k \in 1..2 : Renamed(s) /\ u = call[s].du[k]
    BY <1>2
  <2>2. Renamed(s)' /\ call'[s].du = call[s].du
    BY <2>1 DEF KeepsRenaming, Alone, Renamed, Op
  <2> QED
    BY <2>1, <2>2 DEF Placed
<1> QED
  BY <1>1, <1>2 DEF Placed

\* Hashed dentries were hashed before.
NoneHashed == \A u \in Uppers : up'[u].hashed =>
                  up[u].hashed /\ up'[u].at = up[u].at /\ up'[u].lower = up[u].lower

LEMMA PlacesKeep ==
  ASSUME RefsInv, RefsInv', PlaceInv, NEW t, Alone(t), OthersStay(t), t \in Tasks => PlaceOf(t)',
         KeepsRenaming(t), AtStays, NoneHashed
  PROVE  PlaceInv'
<1>1. \A s \in Tasks : PlaceOf(s)'
  BY OthersPlaced DEF PlaceInv
<1>2. \A u \in Uppers : up'[u].hashed => Placed(u)'
  BY StaysPlaced DEF PlaceInv, NoneHashed
<1> QED
  BY <1>1, <1>2 DEF PlaceInv

LEMMA StayIfKept ==
  ASSUME NEW t, Alone(t), AtStays,
         \A s \in Tasks \ {t}, j \in 1..2 : call[s].du[j] \in Uppers =>
            up'[call[s].du[j]].lower = up[call[s].du[j]].lower
  PROVE  OthersStay(t)
BY DEF OthersStay, AtStays

LEMMA AtStaysIf ==
  ASSUME NEW f, LowFunction(f), low' \in {f, Settled(f)}, \A l \in Lowers : f[l].at = low[l].at
  PROVE  AtStays
BY SettledKeeps DEF AtStays

LEMMA QuietPlaced ==
  ASSUME RefsInv, RefsInv', PlaceInv, NEW t \in Tasks, QuietCall(t)
  PROVE  PlaceInv'
<1>0. /\ CallOf(t) /\ PlaceOf(t) /\ call[t] \in Calls
      /\ SameCall(t) /\ UNCHANGED <<low, up>>
  BY DEF RefsInv, Types, PlaceInv, QuietCall
<1>1. /\ Alone(t) /\ AtStays /\ NoneHashed /\ OthersStay(t)
  BY <1>0, StayIfKept DEF SameCall, AtStays, NoneHashed
<1>2. call'[t].ent = call[t].ent /\ call'[t].op = call[t].op /\ call'[t].du = call[t].du
      /\ call'[t].cur = call[t].cur /\ call'[t].dl = call[t].dl /\ call'[t].dir = call[t].dir
  BY <1>0 DEF SameCall
<1>3. \/ /\ call'[t].pc \in {"found", "read", "null_inode", "vfs", "put"} /\ call'[t].rc = call[t].rc
         /\ call'[t].pc = "read" <=> call[t].pc = "lreval"
         /\ call'[t].pc = "vfs" <=> call[t].pc = "plock"
         /\ call'[t].pc = "null_inode" <=> call[t].pc = "add"
         /\ call'[t].pc = "put" => call[t].pc = "finish" /\ Op(t) = "rename"
         /\ call'[t].pc = "put" <=> call[t].pc = "finish"
         /\ call[t].pc \in {"reval", "lreval", "add", "plock", "finish"}
      \/ call[t].pc = "vfs" /\ call'[t].pc = "misplaced" /\ Misplaced(t)
      \/ call[t].pc = "vfs" /\ call'[t].pc = "finish" /\ ~call'[t].rc
      \/ call[t].pc = "found" /\ call'[t].pc = "return" /\ Op(t) = "walk"
      \/ call[t].pc \in {"reval", "found"} /\ call'[t].pc = "return" /\ ~call'[t].rc
  BY DEF QuietCall
<1>4. ~(call[t].pc = "vfs" /\ Misplaced(t))
  <2> SUFFICES ASSUME call[t].pc = "vfs", Misplaced(t) PROVE FALSE
    OBVIOUS
  <2>1. call[t].dir = EntDirs(t) /\ Op(t) # "walk" /\ (Op(t) = "rename" => call[t].cur = 2)
        /\ call[t].cur \in 1..2 /\ ~Renamed(t)
    BY <1>0 DEF PlaceOf, CallOf, OpPcs, Pair, Calls, Renamed
  <2>2. Op(t) \in {"unlink", "rmdir", "rename"} =>
           /\ LockedName(t, 1) /\ Reached(t, 1)
           /\ Op(t) = "rename" => LockedName(t, 2) /\ Reached(t, 2)
    BY <2>1 DEF LockedName, Reached, OpPcs
  <2>3. Op(t) \in {"unlink", "rmdir", "rename"} =>
           /\ low[Lower(t, 1)].at = call[t].ent[1]
           /\ Op(t) = "rename" => low[Lower(t, 2)].at = call[t].ent[2]
    BY <1>0, <2>1, <2>2 DEF PlaceOf
  <2>4. /\ Op(t) = "rename" => call[t].dir[1] = call[t].ent[1][1] /\ call[t].dir[2] = call[t].ent[2][1]
        /\ Op(t) = "rmdir" => call[t].dir[1] = call[t].ent[1][1]
    BY <2>1 DEF EntDirs, Target
  <2> QED
    BY <2>3, <2>4 DEF Misplaced
<1>5. /\ Renamed(t)' <=> Renamed(t)
      /\ \A k \in 1..2 : LockedName(t, k)' /\ Reached(t, k)' => LockedName(t, k) /\ Reached(t, k)
  <2>1. Renamed(t)' <=> Renamed(t)
    BY <1>2, <1>3, <1>4 DEF Renamed, Op
  <2>2. \A k \in 1..2 : LockedName(t, k)' <=> LockedName(t, k)
    BY <1>2 DEF LockedName, Op
  <2>3. Op(t) # "walk" => \A k \in 1..2 : Reached(t, k)' => Reached(t, k)
    BY <1>2, <1>3, <1>4 DEF Reached, OpPcs, At
  <2> QED
    BY <2>1, <2>2, <2>3 DEF LockedName
<1>6. PlaceOf(t)'
  <2>1. \A k \in 1..2 : LockedName(t, k)' /\ Reached(t, k)' => OwnName(t, k)
    BY <1>0, <1>2, <1>5 DEF OwnName
  <2>2. \A k \in 1..2 : LockedName(t, k)' /\ Reached(t, k)' =>
            low'[Lower(t, k)'].at = call'[t].ent[IF Renamed(t)' THEN 3 - k ELSE k]
    BY <1>0, <1>1, <1>2, <2>1, OwnPlaced
  <2>3. EntDirs(t)' = EntDirs(t) /\ Entry(t)' = Entry(t) /\ low' = low
    BY <1>0, <1>2 DEF EntDirs, Entry, Op
  <2>4. call'[t].pc \in {"lreval", "read", "add"} => call[t].pc = "lreval"
    BY <1>3
  <2>5. call'[t].pc \in OpPcs => call[t].pc \in OpPcs
    BY <1>3 DEF OpPcs
  <2>6. call'[t].pc \notin {"finish", "put", "return"} => call'[t].rc
    BY <1>0, <1>3, <1>4 DEF PlaceOf
  <2>7. call'[t].pc # "misplaced"
    BY <1>3, <1>4
  <2> QED
    BY <1>0, <1>2, <2>2, <2>3, <2>4, <2>5, <2>6, <2>7 DEF PlaceOf, At
<1>7. KeepsRenaming(t)
  BY <1>2, <1>5 DEF KeepsRenaming
<1> QED
  BY <1>1, <1>6, <1>7, PlacesKeep

LEMMA BeginPlaced ==
  ASSUME RefsInv, RefsInv', PlaceInv, NEW t \in Tasks, UNCHANGED <<low, up>>, call[t] = Idle,
         NEW p \in {"reval", "lock"}, NEW o, NEW e, NEW f, NEW x, p = "reval" => o \in {"walk", "link"},
         BegunCall(t, p, o, e, f, x)
  PROVE  PlaceInv'
<1>1. Alone(t) /\ AtStays /\ NoneHashed /\ OthersStay(t)
  BY StayIfKept DEF BegunCall, AtStays, NoneHashed
<1>2. KeepsRenaming(t)
  BY DEF KeepsRenaming, Renamed, Op, Idle
<1>3. PlaceOf(t)'
  <2>1. call'[t].pc = p /\ call'[t].op = o /\ call'[t].cur = 1 /\ call'[t].rc
    BY DEF BegunCall
  <2>2. \A k \in 1..2 : ~(LockedName(t, k)' /\ Reached(t, k)')
    BY <2>1 DEF LockedName, Reached, At, Op, OpPcs
  <2> QED
    BY <2>1, <2>2 DEF PlaceOf, OpPcs, At
<1> QED
  BY <1>1, <1>2, <1>3, PlacesKeep

LEMMA LinkPlaced ==
  ASSUME RefsInv, RefsInv', PlaceInv, NEW t \in Tasks, UNCHANGED <<low, up>>,
         LinkSource(t), NEW u, NameCall(t, "lock", 2, u)
  PROVE  PlaceInv'
<1>0. Op(t) = "link" /\ call[t].pc = "found" /\ PlaceOf(t)
  BY DEF LinkSource, At, PlaceInv
<1>1. Alone(t) /\ AtStays /\ NoneHashed /\ OthersStay(t)
  BY StayIfKept DEF NameCall, AtStays, NoneHashed
<1>2. KeepsRenaming(t)
  BY <1>0 DEF KeepsRenaming, Renamed
<1>3. PlaceOf(t)'
  <2>1. call'[t].pc = "lock" /\ call'[t].op = "link" /\ call'[t].cur = 2 /\ call'[t].rc
    BY <1>0 DEF NameCall, Op, PlaceOf
  <2>2. \A k \in 1..2 : ~(LockedName(t, k)' /\ Reached(t, k)')
    BY <2>1 DEF LockedName, Reached, At, Op, OpPcs
  <2> QED
    BY <2>1, <2>2 DEF PlaceOf, OpPcs, At
<1> QED
  BY <1>1, <1>2, <1>3, PlacesKeep

\* What the dcache has under a name nobody else has locked points to where
\* the lower directory has the name.
LEMMA CachedIsPlaced ==
  ASSUME RefsInv, PlaceInv, NEW t \in Tasks, NEW u \in Uppers, up[u].hashed,
         ulock[up[u].at[1]] \in {NoOne, t}, ~Renamed(t)
  PROVE  low[up[u].lower].at = up[u].at
<1>1. Placed(u)
  BY DEF PlaceInv
<1>2. ASSUME NEW s \in Tasks, NEW k \in 1..2, Renamed(s), u = call[s].du[k] PROVE FALSE
  <2>1. CallOf(s) /\ LocksOf(s) /\ SoleOf(s) /\ call[s] \in Calls
    BY DEF RefsInv, Types
  <2>2. call[s].cur = 2 /\ LockedName(s, k) /\ Reached(s, k)
    BY <1>2, <2>1 DEF Renamed, CallOf, LockedName, Reached, At, OpPcs, Pair
  <2>3. Under(s, k)
    BY <2>2 DEF Under
  <2>4. up[u].at = call[s].ent[k] /\ ulock[call[s].ent[k][1]] = s
    BY <1>2, <2>1, <2>3, UnderIsLocked DEF SoleOf
  <2> QED
    BY <1>2, <2>4, NoOneIsNoTask
<1> QED
  BY <1>1, <1>2 DEF Placed

\* The k-th name is taken up: for a new dentry, one of the dcache or again.
TakesUp(t, k) ==
    \/ NameCall(t, "dlookup", k, call'[t].du[k])
    \/ Walking(t) /\ NameCall(t, "lock", k, NoDentry)
    \/ \E u \in Uppers : /\ NameCall(t, "reval", k, u) /\ up' = up /\ low' = low
                         /\ up[u].hashed /\ up[u].at = call[t].ent[k]
                         /\ LockedName(t, k) => ulock[call[t].ent[k][1]] \in {NoOne, t}

LEMMA NamePlaced ==
  ASSUME RefsInv, RefsInv', PlaceInv, NEW t \in Tasks, NEW k \in 1..2, AtStays, Settles(t, k), TakesUp(t, k),
         \/ call[t].pc \in {"lock", "reval"} /\ k = call[t].cur
         \/ call[t].pc = "found" /\ call[t].cur = 1 /\ k = 2
  PROVE  PlaceInv'
<1>0. PlaceOf(t) /\ ~Renamed(t) /\ call[t].rc
  BY DEF PlaceInv, PlaceOf, Renamed
<1>1. /\ Alone(t) /\ call'[t].ent = call[t].ent /\ call'[t].op = call[t].op /\ call'[t].rc = call[t].rc
      /\ call'[t].cur = k /\ call'[t].pc \in {"dlookup", "lock", "reval"}
      /\ \A j \in (1..2) \ {k} : call'[t].du[j] = call[t].du[j]
  BY DEF TakesUp, NameCall
<1>2. NoneHashed /\ OthersStay(t)
  BY <1>1, StayIfKept DEF Settles, NoneHashed
<1>3. KeepsRenaming(t)
  BY <1>0 DEF KeepsRenaming
<1>4. ~Renamed(t)'
  BY <1>1 DEF Renamed
<1>5. ASSUME NEW j \in 1..2, LockedName(t, j)', Reached(t, j)', j # k PROVE OwnName(t, j)
  <2>1. j = 1 /\ k = 2
    BY <1>1, <1>5 DEF Reached
  <2>2. Reached(t, j)
    BY <2>1 DEF Reached
  <2>3. call[t].du[j] \in Uppers /\ call'[t].du[j] = call[t].du[j]
    BY <1>1, <1>5, <2>2, RefersTo
  <2>4. LockedName(t, j)
    BY <1>1, <1>5 DEF LockedName, Op
  <2>5. up'[call[t].du[j]].lower = up[call[t].du[j]].lower
    BY <1>5, <2>3 DEF Settles
  <2> QED
    BY <1>0, <1>4, <2>2, <2>3, <2>4, <2>5 DEF OwnName
<1>6. ASSUME LockedName(t, k)', Reached(t, k)' PROVE low'[Lower(t, k)'].at = call'[t].ent[k]
  <2>1. call'[t].pc = "reval"
    BY <1>1, <1>6 DEF Reached, OpPcs, At
  <2>2. PICK u \in Uppers : /\ NameCall(t, "reval", k, u) /\ up' = up /\ low' = low
                            /\ up[u].hashed /\ up[u].at = call[t].ent[k]
                            /\ LockedName(t, k) => ulock[call[t].ent[k][1]] \in {NoOne, t}
    BY <2>1 DEF TakesUp, NameCall
  <2>3. LockedName(t, k)
    BY <1>1, <1>6 DEF LockedName, Op
  <2>4. low[up[u].lower].at = up[u].at
    BY <1>0, <2>2, <2>3, CachedIsPlaced
  <2>5. Lower(t, k)' = up[u].lower
    BY <2>2 DEF Lower, NameCall
  <2> QED
    BY <1>1, <2>2, <2>4, <2>5
<1>7. PlaceOf(t)'
  <2>1. ASSUME NEW j \in 1..2, LockedName(t, j)', Reached(t, j)', j # k
        PROVE  low'[Lower(t, j)'].at = call'[t].ent[j]
    <3>1. OwnName(t, j)
      BY <1>5, <2>1
    <3>2. Lower(t, j) \in Lowers /\ low[Lower(t, j)].refs # 0 /\ Lower(t, j)' = Lower(t, j)
      BY <3>1, RefersTo DEF OwnName, Lower
    <3>3. low'[Lower(t, j)].refs # 0
      BY <2>1, <3>2, UsedWillBeReferred DEF InUse, Lower
    <3>4. low[Lower(t, j)].at = call[t].ent[j]
      BY <1>0, <3>1 DEF OwnName, PlaceOf
    <3> QED
      BY <1>1, <3>2, <3>3, <3>4 DEF AtStays
  <2>2. \A j \in 1..2 : LockedName(t, j)' /\ Reached(t, j)' => low'[Lower(t, j)'].at = call'[t].ent[j]
    BY <1>6, <2>1
  <2>3. call'[t].rc
    BY <1>0, <1>1
  <2> QED
    BY <1>1, <1>4, <2>2, <2>3 DEF PlaceOf, OpPcs, At
<1> QED
  BY <1>1, <1>2, <1>3, <1>7, PlacesKeep

LEMMA LockPlaced ==
  ASSUME RefsInv, RefsInv', PlaceInv, NEW t \in Tasks, Lock(t), NameTaken(t, call[t].cur)
  PROVE  PlaceInv'
<1> DEFINE k == call[t].cur
<1>0. call[t] \in Calls /\ CallOf(t) /\ call[t].pc = "lock" /\ k \in 1..2 /\ k = call[t].cur
  BY DEF RefsInv, Types, Calls, Lock, At
<1>1. NameTaken(t, k)
  OBVIOUS
<1> HIDE DEF k
<1>2. LockedName(t, k) => ulock[call[t].ent[k][1]] \in {NoOne, t}
  <2>1. \A d \in UpperDirs(t) : ulock[d] = NoOne
    BY DEF Lock
  <2>2. call[t].ent[k][1] \in UpperDirs(t)
    <3>1. Op(t) = "rename" => k = 1
      BY <1>0 DEF CallOf, At
    <3> QED
      BY <1>0, <3>1 DEF UpperDirs, Entry
  <2> QED
    BY <2>1, <2>2
<1>3. TakesUp(t, k)
  BY <1>1, <1>2 DEF TakesUp, NameTaken
<1>4. AtStays /\ Settles(t, k)
  BY <1>1 DEF NameTaken
<1> QED
  BY <1>0, <1>3, <1>4, NamePlaced

LEMMA SecondPlaced ==
  ASSUME RefsInv, RefsInv', PlaceInv, NEW t \in Tasks, SecondName(t), NameTaken(t, 2)
  PROVE  PlaceInv'
<1>0. /\ LocksOf(t) /\ call[t].pc = "found" /\ Op(t) = "rename" /\ call[t].cur = 1
  BY DEF RefsInv, SecondName, At
<1>1. ulock[call[t].ent[2][1]] = t
  BY <1>0 DEF LocksOf, LockedName, Pair
<1>2. TakesUp(t, 2)
  BY <1>1 DEF TakesUp, NameTaken
<1>3. AtStays /\ Settles(t, 2)
  BY DEF NameTaken
<1> QED
  BY <1>0, <1>2, <1>3, NamePlaced

LEMMA RevalPlaced ==
  ASSUME RefsInv, RefsInv', PlaceInv, NEW t \in Tasks, call[t].pc = "reval", AtStays, Settles(t, call[t].cur),
         \/ NameCall(t, "dlookup", call[t].cur, call'[t].du[call[t].cur])
         \/ Walking(t) /\ NameCall(t, "lock", call[t].cur, NoDentry)
  PROVE  PlaceInv'
<1> DEFINE k == call[t].cur
<1>0. k \in 1..2 /\ k = call[t].cur
  BY DEF RefsInv, Types, Calls
<1>1. TakesUp(t, k) /\ Settles(t, k)
  BY DEF TakesUp
<1> HIDE DEF k
<1> QED
  BY <1>0, <1>1, NamePlaced

-----------------------------------------------------------------------------
(* Lookups that go on or end.                                               *)

\* A call in lofs_lookup keeps its dentries, which keep what they point to.
LooksOn(t) ==
    /\ call[t].pc \in LookPcs
    /\ Alone(t) /\ call'[t].ent = call[t].ent /\ call'[t].op = call[t].op /\ call'[t].du = call[t].du
    /\ call'[t].cur = call[t].cur
    /\ call'[t].pc \in {"lreval", "read", "add", "relook", "found", "return"}
    /\ call'[t].pc = "return" => ~call'[t].rc
    /\ call'[t].pc # "return" => call'[t].rc
    /\ \A s \in Tasks, j \in 1..2 : call[s].du[j] \in Uppers /\ ~(s = t /\ j = call[t].cur) =>
          up'[call[s].du[j]].lower = up[call[s].du[j]].lower
    /\ AtStays

LEMMA LookPlaced ==
  ASSUME RefsInv, RefsInv', PlaceInv, NEW t \in Tasks, LooksOn(t),
         call'[t].pc \in {"lreval", "read", "add"} => low'[call'[t].dl].at = Entry(t),
         call'[t].pc = "found" => low'[up'[Found(t)].lower].at = Entry(t),
         \A u \in Uppers : up'[u].hashed =>
            \/ up[u].hashed /\ up'[u].at = up[u].at /\ up'[u].lower = up[u].lower
            \/ low'[up'[u].lower].at = up'[u].at
  PROVE  PlaceInv'
<1>0. /\ PlaceOf(t) /\ call[t].pc \in LookPcs /\ Alone(t) /\ AtStays /\ call[t] \in Calls
      /\ call'[t].ent = call[t].ent /\ call'[t].op = call[t].op /\ call'[t].du = call[t].du
      /\ call'[t].cur = call[t].cur
      /\ call'[t].pc \in {"lreval", "read", "add", "relook", "found", "return"}
      /\ call'[t].pc = "return" => ~call'[t].rc
      /\ call'[t].pc # "return" => call'[t].rc
  BY DEF PlaceInv, LooksOn, RefsInv, Types
<1>1. ~Renamed(t) /\ ~Renamed(t)'
  BY <1>0 DEF Renamed, LookPcs
<1>2. OthersStay(t)
  BY <1>0, StayIfKept DEF LooksOn
<1>3. \A s \in Tasks \ {t} : PlaceOf(s)'
  BY <1>2, OthersPlaced DEF PlaceInv
<1>4. ASSUME NEW j \in 1..2, LockedName(t, j)', Reached(t, j)' PROVE low'[Lower(t, j)'].at = call'[t].ent[j]
  <2>1. CASE j = call[t].cur
    <3>1. call'[t].pc = "found"
      BY <1>0, <1>4, <2>1 DEF Reached, OpPcs, At
    <3>2. Found(t) = call'[t].du[j] /\ Entry(t) = call'[t].ent[j]
      BY <1>0, <2>1 DEF Found, Entry
    <3> QED
      BY <3>1, <3>2 DEF Lower
  <2>2. CASE j # call[t].cur
    <3>1. Reached(t, j) /\ LockedName(t, j)
      BY <1>0, <1>4, <2>2 DEF Reached, LockedName, Op
    <3>2. Lower(t, j) \in Lowers /\ low[Lower(t, j)].refs # 0 /\ call[t].du[j] \in Uppers
      BY <3>1, RefersTo
    <3>3. Lower(t, j)' = Lower(t, j)
      BY <1>0, <2>2, <3>2 DEF LooksOn, Lower
    <3>4. low'[Lower(t, j)].refs # 0
      BY <1>4, <3>2, <3>3, UsedWillBeReferred DEF InUse, Lower
    <3>5. low[Lower(t, j)].at = call[t].ent[j]
      BY <1>0, <1>1, <3>1 DEF PlaceOf
    <3> QED
      BY <1>0, <3>2, <3>3, <3>4, <3>5 DEF AtStays
  <2> QED
    BY <2>1, <2>2
<1>5. PlaceOf(t)'
  <2>1. Entry(t)' = Entry(t)
    BY <1>0 DEF Entry
  <2> QED
    BY <1>0, <1>1, <1>4, <2>1 DEF PlaceOf, OpPcs, At
<1>6. \A u \in Uppers : up'[u].hashed => Placed(u)'
  <2>1. KeepsRenaming(t)
    BY <1>1 DEF KeepsRenaming
  <2> SUFFICES ASSUME NEW u \in Uppers, up'[u].hashed PROVE Placed(u)'
    OBVIOUS
  <2>2. CASE up[u].hashed /\ up'[u].at = up[u].at /\ up'[u].lower = up[u].lower
    BY <1>0, <2>1, <2>2, StaysPlaced DEF PlaceInv
  <2>3. CASE low'[up'[u].lower].at = up'[u].at
    BY <2>3 DEF Placed
  <2> QED
    BY <2>2, <2>3
<1> QED
  BY <1>3, <1>5, <1>6 DEF PlaceInv

\* Where only what is looked up changes, others keep what they point to.
LEMMA FreshAlone ==
  ASSUME RefsInv, NEW t \in Tasks, call[t].pc \in LookPcs, \A w \in Uppers \ {Found(t)} : up'[w] = up[w]
  PROVE  \A s \in Tasks, j \in 1..2 : call[s].du[j] \in Uppers /\ ~(s = t /\ j = call[t].cur) =>
            up'[call[s].du[j]].lower = up[call[s].du[j]].lower
<1>1. \A s \in Tasks, j \in 1..2 : call[s].du[j] = Found(t) => s = t /\ j = call[t].cur
  BY DEF RefsInv, FreshOf
<1> QED
  BY <1>1

LEMMA LookCallPlaced ==
  ASSUME RefsInv, RefsInv', PlaceInv, NEW t \in Tasks, call[t].pc \in LookPcs, up' = up, AtStays,
         NEW p \in {"lreval", "read", "relook"}, NEW l, LookCall(t, p, l),
         p # "relook" => low'[l].at = Entry(t)
  PROVE  PlaceInv'
<1>1. call[t].rc
  BY DEF PlaceInv, PlaceOf, LookPcs
<1>2. call'[t].pc = p /\ call'[t].dl = l
  BY DEF LookCall
<1>3. LooksOn(t)
  BY <1>1 DEF LooksOn, LookCall
<1> QED
  BY <1>2, <1>3, LookPlaced

LEMMA EndPlaced ==
  ASSUME RefsInv, RefsInv', PlaceInv, NEW t \in Tasks, call[t].pc \in LookPcs, up' = up, AtStays,
         EndCall(t, FALSE)
  PROVE  PlaceInv'
<1>1. call'[t].pc = "return"
  BY DEF EndCall
<1>2. LooksOn(t)
  BY <1>1 DEF LooksOn, EndCall
<1> QED
  BY <1>1, <1>2, LookPlaced

LEMMA CachedPlaced ==
  ASSUME RefsInv, RefsInv', PlaceInv, NEW t \in Tasks, LookupCached(t),
         LookCall(t, "lreval", LowerAt(Entry(t))), LowerAt(Entry(t)) \in Lowers
  PROVE  PlaceInv'
<1> DEFINE l == LowerAt(Entry(t))
<1>1. call[t].pc = "dlookup" /\ low' = Dget(low, l) /\ up' = up
  BY DEF LookupCached, LookupGoesOn, At
<1>2. LowFunction(low) /\ low[l].hashed /\ low[l].at = Entry(t)
  BY LowIsFunction, LowerFound DEF RefsInv
<1> HIDE DEF l
<1>3. LookCall(t, "lreval", l) /\ l \in Lowers
  BY DEF l
<1>4. LowFunction(Dget(low, l)) /\ \A m \in Lowers : Dget(low, l)[m].at = low[m].at
  BY <1>2, <1>3, HashedIsNamed, DgetKeeps
<1>5. AtStays
  BY <1>1, <1>4, AtStaysIf
<1>6. low'[l].at = Entry(t)
  BY <1>1, <1>2, <1>3, <1>4
<1> QED
  BY <1>1, <1>3, <1>5, <1>6, LookCallPlaced DEF LookPcs

LEMMA OneLenPlaced ==
  ASSUME RefsInv, RefsInv', PlaceInv, NEW t \in Tasks, call[t].pc \in {"dlookup", "relook"}, up' = up,
         \/ EndCall(t, FALSE) /\ \A m \in Lowers : low[m].refs # 0 => low'[m].at = low[m].at
         \/ \E l \in Lowers : /\ LookCall(t, "read", l) /\ low'[l].at = Entry(t)
                              /\ \A m \in Lowers : low[m].refs # 0 => low'[m].at = low[m].at
  PROVE  PlaceInv'
<1>1. AtStays /\ call[t].pc \in LookPcs
  BY DEF AtStays, LookPcs
<1> QED
  BY <1>1, EndPlaced, LookCallPlaced

LEMMA PutPlaced ==
  ASSUME RefsInv, RefsInv', PlaceInv, NEW t \in Tasks, call[t].pc \in {"lreval", "read"}, up' = up,
         \/ low' = Settled(Dput(low, call[t].dl)) /\ EndCall(t, FALSE)
         \/ low' = Settled(Dput(Unhash(low, call[t].dl), call[t].dl)) /\ LookCall(t, "relook", NoDentry)
  PROVE  PlaceInv'
<1> DEFINE l == call[t].dl
<1>1. l \in Lowers /\ low[l].refs # 0 /\ l = call[t].dl /\ LowFunction(low)
  BY RefersTo, LowIsFunction DEF RefsInv
<1> HIDE DEF l
<1>2. low[l].at # <<>>
  BY <1>1, FreesAreFree DEF LowFunction
<1>3. /\ LowFunction(Unhash(low, l)) /\ \A m \in Lowers : Unhash(low, l)[m].at = low[m].at
  BY <1>1, <1>2, UnhashKeeps
<1>4. /\ LowFunction(Dput(low, l)) /\ \A m \in Lowers : Dput(low, l)[m].at = low[m].at
  BY <1>1, <1>2, DputKeeps
<1>5. /\ LowFunction(Dput(Unhash(low, l), l)) /\ \A m \in Lowers : Dput(Unhash(low, l), l)[m].at = low[m].at
  <2> DEFINE g == Unhash(low, l)
  <2>1. LowFunction(g) /\ g[l].at # <<>> /\ \A m \in Lowers : g[m].at = low[m].at
    BY <1>1, <1>2, <1>3
  <2> HIDE DEF g
  <2>2. LowFunction(Dput(g, l)) /\ \A m \in Lowers : Dput(g, l)[m].at = g[m].at
    BY <1>1, <2>1, DputKeeps
  <2>3. LowFunction(Dput(g, l)) /\ \A m \in Lowers : Dput(g, l)[m].at = low[m].at
    BY <2>1, <2>2
  <2> QED
    BY <2>3 DEF g
<1>6. AtStays
  <2>1. CASE low' = Settled(Dput(low, l))
    BY <1>4, <2>1, AtStaysIf
  <2>2. CASE low' = Settled(Dput(Unhash(low, l), l))
    BY <1>5, <2>2, AtStaysIf
  <2> QED
    BY <1>1, <2>1, <2>2
<1>7. call[t].pc \in LookPcs
  BY DEF LookPcs
<1>8. CASE EndCall(t, FALSE)
  BY <1>6, <1>7, <1>8, EndPlaced
<1>9. CASE LookCall(t, "relook", NoDentry)
  BY <1>6, <1>7, <1>9, LookCallPlaced
<1> QED
  BY <1>8, <1>9

LEMMA ReadPlaced ==
  ASSUME RefsInv, RefsInv', PlaceInv, NEW t \in Tasks, call[t].pc = "read", low' = low,
         SameCall(t), call'[t].pc = "add", call'[t].rc = call[t].rc,
         \A w \in Uppers \ {Found(t)} : up'[w] = up[w]
  PROVE  PlaceInv'
<1>1. call[t].rc /\ low[call[t].dl].at = Entry(t) /\ call[t].pc \in LookPcs
  BY DEF PlaceInv, PlaceOf, LookPcs
<1>2. LooksOn(t)
  BY <1>1, FreshAlone DEF LooksOn, SameCall, AtStays
<1>3. ~up'[Found(t)].hashed
  <2>1. FreshOf(t)' /\ Found(t)' = Found(t)
    BY DEF RefsInv, SameCall, Found
  <2> QED
    BY <2>1 DEF FreshOf, LookPcs
<1>4. low'[call'[t].dl].at = Entry(t)
  BY <1>1 DEF SameCall
<1> QED
  BY <1>2, <1>3, <1>4, LookPlaced

LEMMA AddPlaced ==
  ASSUME RefsInv, RefsInv', PlaceInv, NEW t \in Tasks, call[t].pc = "add", low' = low,
         EndCall(t, TRUE), up'[Found(t)].lower = call[t].dl, up'[Found(t)].at = Entry(t),
         \A w \in Uppers \ {Found(t)} : up'[w] = up[w]
  PROVE  PlaceInv'
<1>1. low[call[t].dl].at = Entry(t) /\ call[t].pc \in LookPcs
  BY DEF PlaceInv, PlaceOf, LookPcs
<1>2. LooksOn(t) /\ call'[t].pc = "found"
  BY <1>1, FreshAlone DEF LooksOn, EndCall, AtStays
<1> QED
  BY <1>1, <1>2, LookPlaced

-----------------------------------------------------------------------------
(* Operations.                                                              *)

LEMMA DirPlaced ==
  ASSUME RefsInv, RefsInv', PlaceInv, NEW t \in Tasks, Alone(t),
         call'[t].ent = call[t].ent, call'[t].op = call[t].op, call'[t].du = call[t].du,
         \A w \in Uppers : up'[w].lower = up[w].lower, NoneHashed, AtStays, Renamed(t)' <=> Renamed(t),
         \A k \in 1..2 : Reached(t, k)' => Reached(t, k),
         call'[t].pc \notin {"lreval", "read", "add", "misplaced"},
         call'[t].pc \in OpPcs => call'[t].dir = EntDirs(t),
         call'[t].pc \notin {"finish", "put", "return"} => call'[t].rc
  PROVE  PlaceInv'
<1>0. PlaceOf(t)
  BY DEF PlaceInv
<1>1. OthersStay(t)
  BY StayIfKept
<1>2. KeepsRenaming(t)
  BY DEF KeepsRenaming
<1>3. \A k \in 1..2 : LockedName(t, k)' /\ Reached(t, k)' => OwnName(t, k)
  <2> SUFFICES ASSUME NEW k \in 1..2, LockedName(t, k)', Reached(t, k)' PROVE OwnName(t, k)
    OBVIOUS
  <2>1. LockedName(t, k) /\ Reached(t, k)
    BY DEF LockedName, Op
  <2>2. call[t].du[k] \in Uppers
    BY <2>1, RefersTo
  <2> QED
    BY <2>1, <2>2 DEF OwnName
<1>4. \A k \in 1..2 : LockedName(t, k)' /\ Reached(t, k)' =>
          low'[Lower(t, k)'].at = call'[t].ent[IF Renamed(t)' THEN 3 - k ELSE k]
  BY <1>0, <1>3, OwnPlaced
<1>5. EntDirs(t)' = EntDirs(t)
  BY DEF EntDirs, Op
<1>6. PlaceOf(t)'
  BY <1>4, <1>5 DEF PlaceOf, At
<1> QED
  BY <1>1, <1>2, <1>6, PlacesKeep

\* The parents a call takes are those of its names.
LEMMA TakenInPlace ==
  ASSUME RefsInv, PlaceInv, NEW t \in Tasks, LastFound(t), Op(t) # "walk"
  PROVE  Taken(t) = EntDirs(t)
<1>0. call[t] \in Calls /\ CallOf(t) /\ PlaceOf(t) /\ ~Renamed(t)
  BY DEF RefsInv, Types, PlaceInv, LastFound, At, Renamed
<1>1. /\ Reached(t, 1) /\ (Op(t) \in Pair => Reached(t, 2)) /\ Reached(t, Target(Op(t)))
      /\ Target(Op(t)) \in 1..2
  BY <1>0, LastFoundReached
<1>2. LockedName(t, Target(Op(t))) /\ (Op(t) = "rename" => LockedName(t, 1) /\ LockedName(t, 2))
  BY DEF LockedName, Target
<1>3. low[Lower(t, Target(Op(t)))].at = call[t].ent[Target(Op(t))]
  BY <1>0, <1>1, <1>2 DEF PlaceOf
<1>4. Op(t) = "rename" => low[Lower(t, 1)].at = call[t].ent[1] /\ low[Lower(t, 2)].at = call[t].ent[2]
  BY <1>0, <1>1, <1>2 DEF PlaceOf, Pair
<1>5. CASE Op(t) = "rename"
  <2>1. Taken(t) = [k \in 1..2 |-> low[Lower(t, k)].at[1]]
    BY <1>5 DEF Taken, Parents
  <2>2. EntDirs(t) = <<call[t].ent[1][1], call[t].ent[2][1]>>
    BY <1>5 DEF EntDirs
  <2>3. low[Lower(t, 1)].at[1] = call[t].ent[1][1] /\ low[Lower(t, 2)].at[1] = call[t].ent[2][1]
    BY <1>4, <1>5
  <2>4. [k \in 1..2 |-> low[Lower(t, k)].at[1]] = <<low[Lower(t, 1)].at[1], low[Lower(t, 2)].at[1]>>
    OBVIOUS
  <2> QED
    BY <2>1, <2>2, <2>3, <2>4
<1>6. CASE Op(t) # "rename"
  <2>1. Parents(t)[Target(Op(t))] = low[Lower(t, Target(Op(t)))].at[1]
    BY <1>1 DEF Parents
  <2> QED
    BY <1>3, <1>6, <2>1 DEF Taken, EntDirs
<1> QED
  BY <1>5, <1>6

LEMMA TakePlaced ==
  ASSUME RefsInv, RefsInv', PlaceInv, NEW t \in Tasks, LastFound(t), Op(t) # "walk",
         DirCall(t, "plock", call[t].rc, Taken(t)), up' = up, \A l \in Lowers : low'[l].at = low[l].at
  PROVE  PlaceInv'
<1>0. call[t].pc = "found" /\ call[t].rc
  BY DEF LastFound, At, PlaceInv, PlaceOf
<1>1. /\ Alone(t) /\ call'[t].ent = call[t].ent /\ call'[t].op = call[t].op /\ call'[t].du = call[t].du
      /\ call'[t].cur = call[t].cur /\ call'[t].pc = "plock" /\ call'[t].dir = Taken(t) /\ call'[t].rc
  BY <1>0 DEF DirCall
<1>2. NoneHashed /\ AtStays
  BY DEF NoneHashed, AtStays
<1>3. ~Renamed(t) /\ ~Renamed(t)'
  BY <1>0, <1>1 DEF Renamed
<1>4. \A k \in 1..2 : Reached(t, k)' => Reached(t, k)
  BY <1>0, <1>1 DEF Reached, At
<1>5. call'[t].dir = EntDirs(t)
  BY <1>1, TakenInPlace
<1> QED
  BY <1>1, <1>2, <1>3, <1>4, <1>5, DirPlaced

LEMMA FinishPlaced ==
  ASSUME RefsInv, RefsInv', PlaceInv, NEW t \in Tasks, AtStays, call[t].pc = "finish", Op(t) # "rename",
         NEW u, Dimmed(u), NEW b, DirCall(t, "return", b, <<>>)
  PROVE  PlaceInv'
<1>1. /\ Alone(t) /\ call'[t].ent = call[t].ent /\ call'[t].op = call[t].op /\ call'[t].du = call[t].du
      /\ call'[t].cur = call[t].cur /\ call'[t].pc = "return"
  BY DEF DirCall
<1>2. NoneHashed /\ \A w \in Uppers : up'[w].lower = up[w].lower
  BY DEF NoneHashed, Dimmed
<1>3. ~Renamed(t) /\ ~Renamed(t)'
  BY <1>1 DEF Renamed, Op
<1>4. \A k \in 1..2 : Reached(t, k)' => Reached(t, k)
  BY <1>1 DEF Reached, At, OpPcs
<1> QED
  BY <1>1, <1>2, <1>3, <1>4, DirPlaced DEF OpPcs

LEMMA RenamePutPlaced ==
  ASSUME RefsInv, RefsInv', PlaceInv, NEW t \in Tasks, AtStays, call[t].pc = "put", up' = up,
         DirCall(t, "return", call[t].rc, <<>>)
  PROVE  PlaceInv'
<1>1. /\ Alone(t) /\ call'[t].ent = call[t].ent /\ call'[t].op = call[t].op /\ call'[t].du = call[t].du
      /\ call'[t].cur = call[t].cur /\ call'[t].pc = "return" /\ call'[t].rc = call[t].rc
  BY DEF DirCall
<1>2. NoneHashed
  BY DEF NoneHashed
<1>3. Renamed(t)' <=> Renamed(t)
  BY <1>1 DEF Renamed, Op
<1>4. \A k \in 1..2 : Reached(t, k)' => Reached(t, k)
  BY <1>1 DEF Reached, At, OpPcs
<1> QED
  BY <1>1, <1>2, <1>3, <1>4, DirPlaced DEF OpPcs

LEMMA VfsPlaced ==
  ASSUME RefsInv, RefsInv', PlaceInv, NEW t \in Tasks, SameCall(t), call[t].pc = "vfs",
         call'[t].pc = "finish", up' = up, Op(t) # "rename",
         \A l \in Lowers : low[l].refs # 0 => low'[l].at = low[l].at
  PROVE  PlaceInv'
<1>1. /\ Alone(t) /\ call'[t].ent = call[t].ent /\ call'[t].op = call[t].op /\ call'[t].du = call[t].du
      /\ call'[t].cur = call[t].cur /\ call'[t].dir = call[t].dir
  BY DEF SameCall
<1>2. NoneHashed /\ AtStays
  BY DEF NoneHashed, AtStays
<1>3. ~Renamed(t) /\ ~Renamed(t)'
  BY <1>1 DEF Renamed, Op
<1>4. \A k \in 1..2 : Reached(t, k)' => Reached(t, k)
  BY <1>1 DEF Reached, At, OpPcs
<1>5. call'[t].dir = EntDirs(t)
  BY <1>1 DEF PlaceInv, PlaceOf, OpPcs
<1> QED
  BY <1>1, <1>2, <1>3, <1>4, <1>5, DirPlaced

LEMMA VfsRenamePlaced ==
  ASSUME RefsInv, RefsInv', PlaceInv, NEW t \in Tasks, SameCall(t), call[t].pc = "vfs",
         call'[t].pc = "finish", call'[t].rc = call[t].rc, up' = up, Op(t) = "rename",
         Lower(t, 1) # Lower(t, 2),
         low'[Lower(t, 1)].at = low[Lower(t, 2)].at, low'[Lower(t, 2)].at = low[Lower(t, 1)].at,
         \A l \in Lowers \ {Lower(t, 1), Lower(t, 2)} : low[l].refs # 0 => low'[l].at = low[l].at
  PROVE  PlaceInv'
<1> DEFINE a == Lower(t, 1)
           b == Lower(t, 2)
<1>0. /\ CallOf(t) /\ SoleOf(t) /\ LocksOf(t) /\ PlaceOf(t) /\ call[t] \in Calls /\ call[t].rc
  BY DEF RefsInv, Types, PlaceInv, PlaceOf
<1>1. /\ Alone(t) /\ call'[t].ent = call[t].ent /\ call'[t].op = call[t].op /\ call'[t].du = call[t].du
      /\ call'[t].cur = call[t].cur /\ call'[t].dir = call[t].dir
  BY DEF SameCall
<1>2. call[t].cur = 2 /\ ~Renamed(t) /\ Renamed(t)' /\ \A k \in 1..2 : LockedName(t, k) /\ Reached(t, k) /\ Under(t, k)
  BY <1>0, <1>1 DEF CallOf, Renamed, Op, OpPcs, LockedName, Reached, Under, Pair
<1>3. /\ a \in Lowers /\ b \in Lowers /\ low[a].at = call[t].ent[1] /\ low[b].at = call[t].ent[2]
      /\ call[t].du[1] \in Uppers /\ call[t].du[2] \in Uppers
  BY <1>0, <1>2, RefersTo DEF PlaceOf
<1>4. ulock[call[t].ent[1][1]] = t /\ ulock[call[t].ent[2][1]] = t
  BY <1>0, <1>2, UnderIsLocked
<1>5. low[a].at \in Entries /\ low[b].at \in Entries
  <2>1. call[t].ent \in Entries \X Entries
    BY <1>0 DEF CallOf, At
  <2> QED
    BY <1>3, <2>1
<1>6. OthersStay(t)
  BY <1>1, <1>3, <1>4, <1>5 DEF OthersStay
<1>7. PlaceOf(t)'
  <2>1. Lower(t, 1)' = a /\ Lower(t, 2)' = b /\ EntDirs(t)' = EntDirs(t)
    BY <1>1 DEF Lower, EntDirs, Op
  <2>2. low'[a].at = call'[t].ent[2] /\ low'[b].at = call'[t].ent[1]
    BY <1>1, <1>3
  <2>3. \A k \in 1..2 : low'[Lower(t, k)'].at = call'[t].ent[3 - k]
    BY <2>1, <2>2
  <2>4. call'[t].dir = EntDirs(t)'
    BY <1>0, <1>1, <2>1 DEF PlaceOf, OpPcs
  <2> QED
    BY <1>2, <2>3, <2>4 DEF PlaceOf, At
<1>8. \A s \in Tasks : PlaceOf(s)'
  BY <1>6, <1>7, OthersPlaced DEF PlaceInv
<1>9. ASSUME NEW u \in Uppers, up[u].hashed PROVE Placed(u)'
  <2>1. Placed(u) /\ up[u].lower \in Lowers /\ low[up[u].lower].refs # 0
    BY <1>9, UsedAreReferred DEF PlaceInv, RefsInv, UpperDcache, InUse
  <2>2. CASE low[up[u].lower].at = up[u].at /\ up[u].lower \in {a, b}
    <3>1. u = call[t].du[1] \/ u = call[t].du[2]
      BY <1>0, <1>2, <1>3, <1>9, <2>2 DEF SoleOf
    <3> QED
      BY <1>1, <1>2, <3>1 DEF Placed
  <2>3. CASE low[up[u].lower].at = up[u].at /\ up[u].lower \notin {a, b}
    BY <2>1, <2>3 DEF Placed
  <2>4. CASE \E s \in Tasks, k \in 1..2 : Renamed(s) /\ u = call[s].du[k]
    <3>1. PICK s \in Tasks, k \in 1..2 : Renamed(s) /\ u = call[s].du[k]
      BY <2>4
    <3>2. Renamed(s)' /\ call'[s].du = call[s].du
      BY <1>1, <1>2, <3>1 DEF Alone, Renamed, Op
    <3> QED
      BY <3>1, <3>2 DEF Placed
  <2> QED
    BY <2>1, <2>2, <2>3, <2>4 DEF Placed
<1> QED
  BY <1>8, <1>9 DEF PlaceInv

LEMMA ReturnPlaced ==
  ASSUME RefsInv, RefsInv', PlaceInv, NEW t \in Tasks, AtStays, Alone(t), call'[t] = Idle,
         call[t].pc = "return", OthersUp(t),
         NEW f, Returned(t, f), \A w \in Uppers : up'[w] \in {f[w], FreeUpper}
  PROVE  PlaceInv'
<1>0. PlaceOf(t) /\ CallOf(t) /\ call[t] \in Calls
  BY DEF PlaceInv, RefsInv, Types
<1>1. OthersStay(t)
  BY StayIfKept DEF OthersUp
<1>2. PlaceOf(t)'
  <2>1. call'[t].pc = "idle" /\ call'[t].rc /\ call'[t].cur = 1
    BY DEF Idle
  <2>2. \A k \in 1..2 : ~Reached(t, k)'
    BY <2>1 DEF Reached, OpPcs, At
  <2> QED
    BY <2>1, <2>2 DEF PlaceOf, OpPcs, At
<1>3. \A s \in Tasks : PlaceOf(s)'
  BY <1>1, <1>2, OthersPlaced DEF PlaceInv
<1>4. ASSUME NEW u \in Uppers, up'[u].hashed PROVE Placed(u)'
  <2>1. up'[u] = f[u] /\ f[u].hashed /\ f[u].lower = up[u].lower
    BY <1>4, FreesAreFree DEF Returned
  <2>2. up'[u].lower \in Lowers /\ low'[up[u].lower].refs # 0
    BY <1>4, <2>1, UsedWillBeReferred DEF RefsInv, UpperDcache, InUse
  <2>3. low[up[u].lower].refs # 0 /\ low'[up[u].lower].at = low[up[u].lower].at
    BY <2>1, <2>2, UsedAreReferred DEF InUse, AtStays
  <2>4. CASE up[u].hashed /\ f[u].at = up[u].at /\ ~(Renamed(t) /\ \E k \in 1..2 : u = call[t].du[k])
    <3>1. Placed(u)
      BY <2>4 DEF PlaceInv
    <3>2. CASE low[up[u].lower].at = up[u].at
      BY <2>1, <2>3, <2>4, <3>2 DEF Placed
    <3>3. CASE \E s \in Tasks, k \in 1..2 : Renamed(s) /\ u = call[s].du[k]
      <4>1. PICK s \in Tasks, k \in 1..2 : Renamed(s) /\ u = call[s].du[k]
        BY <3>3
      <4>2. s # t
        BY <2>4, <4>1
      <4>3. Renamed(s)' /\ call'[s].du = call[s].du
        BY <4>1, <4>2 DEF Alone, Renamed, Op
      <4> QED
        BY <4>1, <4>3 DEF Placed
    <3> QED
      BY <3>1, <3>2, <3>3 DEF Placed
  <2>5. CASE Renamed(t) /\ u = call[t].du[1] /\ f[u].at = call[t].ent[2]
    <3>1. LockedName(t, 1) /\ Reached(t, 1)
      BY <1>0, <2>5 DEF Renamed, LockedName, Reached, CallOf, At
    <3>2. low[Lower(t, 1)].at = call[t].ent[2]
      BY <1>0, <2>5, <3>1 DEF PlaceOf
    <3>3. Lower(t, 1) = up[u].lower
      BY <2>5 DEF Lower
    <3> QED
      BY <2>1, <2>3, <2>5, <3>2, <3>3 DEF Placed
  <2> QED
    BY <2>1, <2>4, <2>5 DEF Returned
<1> QED
  BY <1>3, <1>4 DEF PlaceInv

\* Steps of nobody's call.
LEMMA OthersStepPlaced ==
  ASSUME RefsInv, RefsInv', PlaceInv, call' = call, AtStays, NoneHashed, OthersUp(NoOne)
  PROVE  PlaceInv'
<1>1. Alone(NoOne)
  BY DEF Alone
<1>2. OthersStay(NoOne)
  BY <1>1, StayIfKept DEF OthersUp
<1>3. KeepsRenaming(NoOne)
  BY NoOneIsNoTask DEF KeepsRenaming
<1> QED
  BY <1>1, <1>2, <1>3, NoOneIsNoTask, PlacesKeep

LEMMA LowersPlaced ==
  ASSUME RefsInv, RefsInv', PlaceInv, LowersOnly, \A l \in Lowers : low[l].refs # 0 => low'[l].at = low[l].at
  PROVE  PlaceInv'
<1>1. call' = call /\ up' = up
  BY DEF LowersOnly
<1>2. AtStays /\ NoneHashed
  BY <1>1 DEF AtStays, NoneHashed
<1>3. OthersUp(NoOne)
  <2>1. \A s \in Tasks, k \in 1..2 : call[s].du[k] \in Uppers => up[call[s].du[k]].at \in Entries
    BY DEF RefsInv, UseOf
  <2>2. \A s \in Tasks : call[s].pc \in LookPcs => up[Found(s)].inode = NoInode /\ ~up[Found(s)].hashed
    BY DEF RefsInv, FreshOf
  <2> QED
    BY <1>1, <2>1, <2>2 DEF OthersUp, Found
<1> QED
  BY <1>1, <1>2, <1>3, OthersStepPlaced

-----------------------------------------------------------------------------
(* Each step.                                                               *)

ParentsHold == ParentRefs /\ ("rename" \notin scenario.others => PlaceInv)

\* The step keeps the invariant.
Keeps ==
    /\ RefsInv' /\ scenario' = scenario
    /\ "rename" \notin scenario.others /\ PlaceInv => PlaceInv'
    /\ "rename" \notin scenario.ops \cap scenario.others /\ ParentsHold => ParentRefs'

LEMMA SameParents ==
  ASSUME \A d \in Dirs : Takers(d)' = Takers(d), dirRefs' = dirRefs, ParentRefs
  PROVE  ParentRefs'
BY DEF ParentRefs

\* Steps that leave the parents alone.
LEMMA KeepsIf ==
  ASSUME RefsInv', scenario' = scenario, \A d \in Dirs : Takers(d)' = Takers(d), dirRefs' = dirRefs,
         PlaceInv => PlaceInv'
  PROVE  Keeps
BY SameParents DEF Keeps, ParentsHold

LEMMA BeginStep ==
  ASSUME RefsInv, NEW t \in Tasks, NEW o \in OpNames, NEW e \in scenario.entries,
         NEW f \in scenario.entries, Begin(t, o, e, f)
  PROVE  Keeps
<1>1. RefsInv' /\ (\A d \in Dirs : Takers(d)' = Takers(d)) /\ call[t] = Idle
  BY BeginKeeps
<1>2. UNCHANGED <<scenario, low, up, dirRefs>>
  BY DEF Begin
<1>3. PICK p \in {"reval", "lock"} : /\ p = "reval" => o \in {"walk", "link"}
                                     /\ \E x : BegunCall(t, p, o, e, f, x)
  BY BeginKeeps
<1>4. PlaceInv => PlaceInv'
  BY <1>1, <1>2, <1>3, BeginPlaced
<1> QED
  BY <1>1, <1>2, <1>4, KeepsIf

LEMMA QuietlySteps ==
  ASSUME RefsInv, NEW t \in Tasks, QuietStep(t)
  PROVE  Keeps
<1>1. /\ RefsInv' /\ QuietCall(t) /\ \A d \in Dirs : Takers(d)' = Takers(d)
  BY QuietsKeep
<1>2. UNCHANGED <<scenario, dirRefs>>
  BY <1>1 DEF QuietCall
<1>3. PlaceInv => PlaceInv'
  BY <1>1, QuietPlaced
<1> QED
  BY <1>1, <1>2, <1>3, KeepsIf

LEMMA NamingSteps ==
  ASSUME RefsInv, NEW t \in Tasks, Lock(t) \/ SecondName(t) \/ RevalInvalid(t)
  PROVE  Keeps
<1>0. scenario' = scenario
  BY DEF Lock, SecondName, RevalInvalid, below
<1>1. CASE Lock(t)
  <2>1. RefsInv' /\ NameTaken(t, call[t].cur) /\ dirRefs' = dirRefs
    BY <1>1, LockKeeps
  <2>2. PlaceInv => PlaceInv'
    BY <1>1, <2>1, LockPlaced
  <2>3. \A d \in Dirs : Takers(d)' = Takers(d)
    BY <2>1 DEF NameTaken
  <2> QED
    BY <1>0, <2>1, <2>2, <2>3, KeepsIf
<1>2. CASE SecondName(t)
  <2>1. RefsInv' /\ NameTaken(t, 2) /\ dirRefs' = dirRefs
    BY <1>2, SecondNameKeeps
  <2>2. PlaceInv => PlaceInv'
    BY <1>2, <2>1, SecondPlaced
  <2>3. \A d \in Dirs : Takers(d)' = Takers(d)
    BY <2>1 DEF NameTaken
  <2> QED
    BY <1>0, <2>1, <2>2, <2>3, KeepsIf
<1>3. CASE RevalInvalid(t)
  <2>1. /\ RefsInv' /\ dirRefs' = dirRefs /\ AtStays /\ (\A d \in Dirs : Takers(d)' = Takers(d))
        /\ Settles(t, call[t].cur) /\ call[t].pc = "reval"
        /\ \/ NameCall(t, "dlookup", call[t].cur, call'[t].du[call[t].cur])
           \/ Walking(t) /\ NameCall(t, "lock", call[t].cur, NoDentry)
    BY <1>3, RevalInvalidKeeps
  <2>2. PlaceInv => PlaceInv'
    BY <2>1, RevalPlaced
  <2> QED
    BY <1>0, <2>1, <2>2, KeepsIf
<1> QED
  BY <1>1, <1>2, <1>3

LEMMA LookingSteps ==
  ASSUME RefsInv, NEW t \in Tasks,
         LookupCached(t) \/ LookupUncached(t) \/ LookupAgain(t) \/ LookupLowerInvalid(t)
         \/ LookupLowerError(t) \/ InterposeFails(t)
  PROVE  Keeps
<1>0. UNCHANGED <<scenario, dirRefs, up>>
  BY DEF LookupCached, LookupUncached, LookupAgain, LookupLowerInvalid, LookupLowerError, InterposeFails,
         LookupOneLen, LookupGoesOn, LookupEnds, below
<1>1. CASE LookupCached(t)
  <2>1. /\ RefsInv' /\ (\A d \in Dirs : Takers(d)' = Takers(d))
        /\ LookCall(t, "lreval", LowerAt(Entry(t))) /\ LowerAt(Entry(t)) \in Lowers
    BY <1>1, LookupCachedKeeps
  <2>2. PlaceInv => PlaceInv'
    BY <1>1, <2>1, CachedPlaced
  <2> QED
    BY <1>0, <2>1, <2>2, KeepsIf
<1>2. CASE LookupUncached(t) \/ LookupAgain(t)
  <2>1. LookupOneLen(t) /\ call[t].pc \in {"dlookup", "relook"}
    BY <1>2 DEF LookupUncached, LookupAgain, At
  <2>2. /\ RefsInv' /\ (\A d \in Dirs : Takers(d)' = Takers(d))
        /\ \/ EndCall(t, FALSE) /\ \A m \in Lowers : low[m].refs # 0 => low'[m].at = low[m].at
           \/ \E l \in Lowers : /\ LookCall(t, "read", l) /\ low'[l].at = Entry(t)
                                /\ \A m \in Lowers : low[m].refs # 0 => low'[m].at = low[m].at
    BY <2>1, LookupOneLenKeeps
  <2>3. PlaceInv => PlaceInv'
    BY <1>0, <2>1, <2>2, OneLenPlaced
  <2> QED
    BY <1>0, <2>2, <2>3, KeepsIf
<1>3. CASE LookupLowerInvalid(t)
  <2>1. RefsInv' /\ (\A d \in Dirs : Takers(d)' = Takers(d)) /\ LookCall(t, "relook", NoDentry)
    BY <1>3, LookupLowerInvalidKeeps
  <2>2. call[t].pc = "lreval" /\ low' = Settled(Dput(Unhash(low, call[t].dl), call[t].dl))
    BY <1>3 DEF LookupLowerInvalid, At
  <2>3. PlaceInv => PlaceInv'
    BY <1>0, <2>1, <2>2, PutPlaced
  <2> QED
    BY <1>0, <2>1, <2>3, KeepsIf
<1>4. CASE LookupLowerError(t) \/ InterposeFails(t)
  <2>1. RefsInv' /\ (\A d \in Dirs : Takers(d)' = Takers(d)) /\ EndCall(t, FALSE)
    BY <1>4, LookupLowerErrorKeeps
  <2>2. call[t].pc \in {"lreval", "read"} /\ low' = Settled(Dput(low, call[t].dl))
    BY <1>4 DEF LookupLowerError, InterposeFails, At
  <2>3. PlaceInv => PlaceInv'
    BY <1>0, <2>1, <2>2, PutPlaced
  <2> QED
    BY <1>0, <2>1, <2>3, KeepsIf
<1> QED
  BY <1>1, <1>2, <1>3, <1>4

LEMMA InterposingSteps ==
  ASSUME RefsInv, NEW t \in Tasks, InterposeRead(t) \/ AddNegative(t) \/ AddPositive(t) \/ AddFails(t)
  PROVE  Keeps
<1>0. UNCHANGED <<scenario, dirRefs, low>>
  BY DEF InterposeRead, AddNegative, AddPositive, AddFails, LookupEnds, below
<1>1. CASE InterposeRead(t)
  <2>1. /\ RefsInv' /\ (\A d \in Dirs : Takers(d)' = Takers(d))
        /\ SameCall(t) /\ call'[t].pc = "add" /\ call'[t].rc = call[t].rc
        /\ \A w \in Uppers \ {Found(t)} : up'[w] = up[w]
    BY <1>1, InterposeReadKeeps
  <2>2. call[t].pc = "read"
    BY <1>1 DEF InterposeRead, At
  <2>3. PlaceInv => PlaceInv'
    BY <1>0, <2>1, <2>2, ReadPlaced
  <2> QED
    BY <1>0, <2>1, <2>3, KeepsIf
<1>2. CASE AddNegative(t) \/ AddPositive(t)
  <2>1. /\ RefsInv' /\ (\A d \in Dirs : Takers(d)' = Takers(d))
        /\ EndCall(t, TRUE)
        /\ up'[Found(t)].lower = call[t].dl /\ up'[Found(t)].at = Entry(t)
        /\ \A w \in Uppers \ {Found(t)} : up'[w] = up[w]
    BY <1>2, AddKeeps
  <2>2. call[t].pc = "add"
    BY <1>2 DEF AddNegative, AddPositive, At
  <2>3. PlaceInv => PlaceInv'
    BY <1>0, <2>1, <2>2, AddPlaced
  <2> QED
    BY <1>0, <2>1, <2>3, KeepsIf
<1>3. CASE AddFails(t)
  <2>1. RefsInv' /\ (\A d \in Dirs : Takers(d)' = Takers(d)) /\ EndCall(t, FALSE)
    BY <1>3, AddFailsKeeps
  <2>2. call[t].pc \in LookPcs /\ up' = up
    BY <1>3 DEF AddFails, At, LookPcs
  <2>3. AtStays
    BY <1>0 DEF AtStays
  <2>4. PlaceInv => PlaceInv'
    BY <2>1, <2>2, <2>3, EndPlaced
  <2> QED
    BY <1>0, <2>1, <2>4, KeepsIf
<1> QED
  BY <1>1, <1>2, <1>3

LEMMA NoTimes == ASSUME NEW d PROVE Times(<<>>, d) = 0
<1>1. DOMAIN <<>> = {}
  OBVIOUS
<1>2. {k \in DOMAIN <<>> : <<>>[k] = d} = {}
  BY <1>1
<1>3. Cardinality({}) = 0
  BY FS_EmptySet
<1> QED
  BY <1>2, <1>3 DEF Times

LEMMA TimesOfTwo ==
  ASSUME NEW s, DOMAIN s = 1..2, NEW d
  PROVE  Times(s, d) = (IF s[1] = d THEN 1 ELSE 0) + (IF s[2] = d THEN 1 ELSE 0)
<1> DEFINE K == {k \in DOMAIN s : s[k] = d}
<1>1. Times(s, d) = Cardinality(K)
  BY DEF Times
<1>2. Cardinality({}) = 0 /\ Cardinality({1}) = 1 /\ Cardinality({2}) = 1 /\ IsFiniteSet({1})
  BY FS_EmptySet, FS_Singleton
<1>3. Cardinality({1, 2}) = 2
  <2>1. {1, 2} = {1} \cup {2} /\ 2 \notin {1}
    OBVIOUS
  <2> QED
    BY <1>2, <2>1, OneMore
<1>4. \A k : k \in K <=> k \in 1..2 /\ s[k] = d
  OBVIOUS
<1>5. CASE s[1] = d /\ s[2] = d
  <2>1. K = {1, 2}
    BY <1>4, <1>5
  <2> QED
    BY <1>1, <1>3, <1>5, <2>1
<1>6. CASE s[1] = d /\ s[2] # d
  <2>1. K = {1}
    BY <1>4, <1>6
  <2> QED
    BY <1>1, <1>2, <1>6, <2>1
<1>7. CASE s[1] # d /\ s[2] = d
  <2>1. K = {2}
    BY <1>4, <1>7
  <2> QED
    BY <1>1, <1>2, <1>7, <2>1
<1>8. CASE s[1] # d /\ s[2] # d
  <2>1. K = {}
    BY <1>4, <1>8
  <2> QED
    BY <1>1, <1>2, <1>8, <2>1
<1> QED
  BY <1>5, <1>6, <1>7, <1>8

\* The parents that lofs_rename puts are, in either order, those it took.
LEMMA PutsTaken ==
  ASSUME RefsInv, PlaceInv, NEW t \in Tasks, call[t].pc = "put", NEW d
  PROVE  Times(Parents(t), d) = Times(call[t].dir, d)
<1>0. call[t] \in Calls /\ CallOf(t) /\ PlaceOf(t)
  BY DEF RefsInv, Types, PlaceInv
<1>1. Op(t) = "rename" /\ call[t].cur = 2 /\ call[t].dir = EntDirs(t)
  BY <1>0 DEF CallOf, PlaceOf, OpPcs, At, Pair
<1>2. \A k \in 1..2 : LockedName(t, k) /\ Reached(t, k)
  BY <1>1 DEF LockedName, Reached, OpPcs
<1>3. \/ low[Lower(t, 1)].at = call[t].ent[1] /\ low[Lower(t, 2)].at = call[t].ent[2]
      \/ low[Lower(t, 1)].at = call[t].ent[2] /\ low[Lower(t, 2)].at = call[t].ent[1]
  <2>1. \A k \in 1..2 : low[Lower(t, k)].at = call[t].ent[IF Renamed(t) THEN 3 - k ELSE k]
    BY <1>0, <1>2 DEF PlaceOf
  <2>2. CASE Renamed(t)
    BY <2>1, <2>2
  <2>3. CASE ~Renamed(t)
    BY <2>1, <2>3
  <2> QED
    BY <2>2, <2>3
<1>4. /\ DOMAIN Parents(t) = 1..2
      /\ Parents(t)[1] = low[Lower(t, 1)].at[1] /\ Parents(t)[2] = low[Lower(t, 2)].at[1]
  BY DEF Parents
<1>5. DOMAIN call[t].dir = 1..2 /\ call[t].dir[1] = call[t].ent[1][1] /\ call[t].dir[2] = call[t].ent[2][1]
  BY <1>1 DEF EntDirs
<1>6. /\ Times(Parents(t), d) = (IF Parents(t)[1] = d THEN 1 ELSE 0) + (IF Parents(t)[2] = d THEN 1 ELSE 0)
      /\ Times(call[t].dir, d) = (IF call[t].dir[1] = d THEN 1 ELSE 0) + (IF call[t].dir[2] = d THEN 1 ELSE 0)
  BY <1>4, <1>5, TimesOfTwo
<1> QED
  BY <1>3, <1>4, <1>5, <1>6

LEMMA ParentSteps ==
  ASSUME RefsInv, NEW t \in Tasks, TakeParents(t) \/ Finish(t) \/ RenamePut(t)
  PROVE  Keeps
<1>0. /\ scenario' = scenario /\ call \in [Tasks -> Calls] /\ CallOf(t)
      /\ dirRefs \in [Dirs -> Int]
  BY DEF TakeParents, Finish, RenamePut, below, RefsInv, Types
<1>1. CASE TakeParents(t)
  <2>1. /\ RefsInv' /\ DirCall(t, "plock", call[t].rc, Taken(t)) /\ call[t].dir = <<>>
        /\ up' = up /\ dirRefs' = [d \in Dirs |-> dirRefs[d] + Times(Taken(t), d)]
        /\ \A l \in Lowers : low'[l].at = low[l].at
    BY <1>1, TakeParentsKeeps
  <2>2. LastFound(t) /\ Op(t) # "walk"
    BY <1>1 DEF TakeParents, Permitted, Making, Removing
  <2>3. PlaceInv => PlaceInv'
    BY <2>1, <2>2, TakePlaced
  <2>4. ParentRefs => ParentRefs'
    <3> SUFFICES ASSUME ParentRefs, NEW d \in Dirs PROVE dirRefs'[d] = Cardinality(Takers(d)')
      BY DEF ParentRefs
    <3>1. call' \in [Tasks -> Calls] /\ Alone(t) /\ call'[t].dir = Taken(t)
      BY <2>1 DEF DirCall
    <3>2. /\ Cardinality(Takers(d)') = Cardinality(Takers(d)) - Times(<<>>, d) + Times(Taken(t), d)
          /\ Cardinality(Takers(d)) \in Nat /\ Times(Taken(t), d) \in Nat
      BY <1>0, <2>1, <3>1, TakersChange
    <3> QED
      BY <2>1, <3>2, NoTimes DEF ParentRefs
  <2> QED
    BY <1>0, <2>1, <2>3, <2>4 DEF Keeps, ParentsHold
<1>2. CASE Finish(t)
  <2>1. /\ RefsInv' /\ AtStays /\ call[t].pc = "finish" /\ Op(t) # "rename"
        /\ Dimmed(call[t].du[Target(Op(t))])
        /\ \E b \in BOOLEAN : DirCall(t, "return", b, <<>>)
        /\ dirRefs' = [d \in Dirs |-> dirRefs[d] - Times(call[t].dir, d)]
    BY <1>2, FinishKeeps
  <2>2. PlaceInv => PlaceInv'
    BY <2>1, FinishPlaced
  <2>3. ParentRefs => ParentRefs'
    <3> SUFFICES ASSUME ParentRefs, NEW d \in Dirs PROVE dirRefs'[d] = Cardinality(Takers(d)')
      BY DEF ParentRefs
    <3>1. call' \in [Tasks -> Calls] /\ Alone(t) /\ call'[t].dir = <<>>
      BY <2>1 DEF DirCall
    <3>2. /\ Cardinality(Takers(d)') = Cardinality(Takers(d)) - Times(call[t].dir, d) + Times(<<>>, d)
          /\ Cardinality(Takers(d)) \in Nat /\ Times(call[t].dir, d) \in Nat
      BY <1>0, <3>1, TakersChange
    <3> QED
      BY <2>1, <3>2, NoTimes DEF ParentRefs
  <2> QED
    BY <1>0, <2>1, <2>2, <2>3 DEF Keeps, ParentsHold
<1>3. CASE RenamePut(t)
  <2>1. /\ RefsInv' /\ DirCall(t, "return", call[t].rc, <<>>) /\ AtStays /\ up' = up
        /\ dirRefs' = [d \in Dirs |-> dirRefs[d] - Times(Parents(t), d)]
    BY <1>3, RenamePutKeeps
  <2>2. call[t].pc = "put" /\ Op(t) = "rename" /\ Op(t) \in scenario.ops
    BY <1>0, <1>3 DEF RenamePut, CallOf, At
  <2>3. PlaceInv => PlaceInv'
    BY <2>1, <2>2, RenamePutPlaced
  <2>4. "rename" \notin scenario.ops \cap scenario.others /\ ParentsHold => ParentRefs'
    <3> SUFFICES ASSUME ParentRefs, PlaceInv, NEW d \in Dirs PROVE dirRefs'[d] = Cardinality(Takers(d)')
      BY <2>2 DEF ParentRefs, ParentsHold
    <3>1. call' \in [Tasks -> Calls] /\ Alone(t) /\ call'[t].dir = <<>>
      BY <2>1 DEF DirCall
    <3>2. /\ Cardinality(Takers(d)') = Cardinality(Takers(d)) - Times(call[t].dir, d) + Times(<<>>, d)
          /\ Cardinality(Takers(d)) \in Nat /\ Times(call[t].dir, d) \in Nat
      BY <1>0, <3>1, TakersChange
    <3>3. Times(Parents(t), d) = Times(call[t].dir, d)
      BY <2>2, PutsTaken
    <3> QED
      BY <2>1, <3>2, <3>3, NoTimes DEF ParentRefs
  <2> QED
    BY <1>0, <2>1, <2>3, <2>4 DEF Keeps
<1> QED
  BY <1>1, <1>2, <1>3

LEMMA VfsSteps ==
  ASSUME RefsInv, NEW t \in Tasks, VfsMake(t) \/ VfsRemove(t) \/ VfsRename(t)
  PROVE  Keeps
<1>0. UNCHANGED <<scenario, dirRefs>>
  BY DEF VfsMake, VfsRemove, VfsRename, VfsWorks, Contents
<1>1. CASE VfsMake(t) \/ VfsRemove(t)
  <2>1. /\ RefsInv' /\ (\A d \in Dirs : Takers(d)' = Takers(d))
        /\ SameCall(t) /\ call[t].pc = "vfs" /\ call'[t].pc = "finish"
        /\ up' = up /\ Op(t) # "rename" /\ \A l \in Lowers : low[l].refs # 0 => low'[l].at = low[l].at
    BY <1>1, VfsMakeKeeps, VfsRemoveKeeps
  <2>2. PlaceInv => PlaceInv'
    BY <2>1, VfsPlaced
  <2> QED
    BY <1>0, <2>1, <2>2, KeepsIf
<1>2. CASE VfsRename(t)
  <2>1. /\ RefsInv' /\ (\A d \in Dirs : Takers(d)' = Takers(d))
        /\ SameCall(t) /\ call[t].pc = "vfs" /\ call'[t].pc = "finish" /\ call'[t].rc = call[t].rc
        /\ up' = up /\ Op(t) = "rename" /\ Lower(t, 1) # Lower(t, 2)
        /\ low'[Lower(t, 1)].at = low[Lower(t, 2)].at /\ low'[Lower(t, 2)].at = low[Lower(t, 1)].at
        /\ \A l \in Lowers \ {Lower(t, 1), Lower(t, 2)} : low[l].refs # 0 => low'[l].at = low[l].at
    BY <1>2, VfsRenameKeeps
  <2>2. PlaceInv => PlaceInv'
    BY <2>1, VfsRenamePlaced
  <2> QED
    BY <1>0, <2>1, <2>2, KeepsIf
<1> QED
  BY <1>1, <1>2

LEMMA LinkStep ==
  ASSUME RefsInv, NEW t \in Tasks, LinkSource(t), Positive(t, 1)
  PROVE  Keeps
<1>1. RefsInv' /\ (\A d \in Dirs : Takers(d)' = Takers(d)) /\ NameCall(t, "lock", 2, call[t].du[2])
  BY LinkGoesOn
<1>2. UNCHANGED <<scenario, low, up, dirRefs>>
  BY DEF LinkSource, below
<1>3. PlaceInv => PlaceInv'
  BY <1>1, <1>2, LinkPlaced
<1> QED
  BY <1>1, <1>2, <1>3, KeepsIf

LEMMA ReturnStep ==
  ASSUME RefsInv, NEW t \in Tasks, Return(t)
  PROVE  Keeps
<1>1. /\ RefsInv' /\ AtStays /\ dirRefs' = dirRefs /\ (\A d \in Dirs : Takers(d)' = Takers(d))
      /\ Alone(t) /\ call'[t] = Idle /\ call[t].pc = "return" /\ OthersUp(t)
      /\ \E f : Returned(t, f) /\ \A w \in Uppers : up'[w] \in {f[w], FreeUpper}
  BY ReturnKeeps DEF At
<1>2. scenario' = scenario
  BY DEF Return
<1>3. PlaceInv => PlaceInv'
  BY <1>1, ReturnPlaced
<1> QED
  BY <1>1, <1>2, <1>3, KeepsIf

LEMMA OthersSteps ==
  ASSUME RefsInv, OtherStep
  PROVE  Keeps
<1>1. ASSUME NEW u \in Uppers, UpperPrune(u) PROVE Keeps
  <2>1. /\ RefsInv' /\ AtStays /\ dirRefs' = dirRefs /\ (\A d \in Dirs : Takers(d)' = Takers(d))
        /\ call' = call /\ scenario' = scenario /\ OthersUp(NoOne) /\ NoneHashed
    BY <1>1, UpperPruneKeeps DEF NoneHashed
  <2>2. PlaceInv => PlaceInv'
    BY <2>1, OthersStepPlaced
  <2> QED
    BY <2>1, <2>2, KeepsIf
<1>2. ASSUME LowersOnly PROVE UNCHANGED <<scenario, dirRefs>> /\ \A d \in Dirs : Takers(d)' = Takers(d)
  BY <1>2 DEF LowersOnly, Takers
<1>3. ASSUME NEW l \in Lowers, LowerPrune(l) PROVE Keeps
  <2>1. RefsInv' /\ LowersOnly /\ \A m \in Lowers : low[m].refs # 0 => low'[m].at = low[m].at
    BY <1>3, LowerPruneKeeps
  <2>2. PlaceInv => PlaceInv'
    BY <2>1, LowersPlaced
  <2> QED
    BY <1>2, <2>1, <2>2, KeepsIf
<1>4. ASSUME NEW e \in scenario.entries, OtherCreates(e) \/ OtherRemoves(e) \/ RemoteChange(e) PROVE Keeps
  <2>1. RefsInv' /\ LowersOnly /\ \A l \in Lowers : low[l].refs # 0 => low'[l].at = low[l].at
    BY <1>4, OtherStepsKeep
  <2>2. PlaceInv => PlaceInv'
    BY <2>1, LowersPlaced
  <2> QED
    BY <1>2, <2>1, <2>2, KeepsIf
<1>5. ASSUME NEW e \in scenario.entries, NEW f \in scenario.entries, e # f, OtherRenames(e, f) PROVE Keeps
  <2>1. RefsInv' /\ LowersOnly /\ "rename" \in scenario.others
    BY <1>5, OtherRenamesKeep
  <2>2. UNCHANGED <<scenario, dirRefs>> /\ \A d \in Dirs : Takers(d)' = Takers(d)
    BY <1>2, <2>1
  <2> QED
    BY <2>1, <2>2, SameParents DEF Keeps, ParentsHold
<1> QED
  BY <1>1, <1>3, <1>4, <1>5 DEF OtherStep

LEMMA StepKeeps ==
  ASSUME RefsInv, Next
  PROVE  Keeps
<1>1. ASSUME NEW t \in Tasks, CallStep(t) PROVE Keeps
  <2>1. ASSUME NEW o \in OpNames, NEW e \in scenario.entries, NEW f \in scenario.entries, Begin(t, o, e, f)
        PROVE  Keeps
    BY <2>1, BeginStep
  <2>2. CASE LookupStep(t)
    <3>1. \/ QuietStep(t) \/ Lock(t) \/ SecondName(t) \/ RevalInvalid(t)
          \/ LookupCached(t) \/ LookupUncached(t) \/ LookupAgain(t) \/ LookupLowerInvalid(t)
          \/ LookupLowerError(t) \/ InterposeFails(t)
          \/ InterposeRead(t) \/ AddNegative(t) \/ AddPositive(t) \/ AddFails(t)
      BY <2>2 DEF LookupStep, QuietStep
    <3> QED
      BY <3>1, QuietlySteps, NamingSteps, LookingSteps, InterposingSteps
  <2>3. CASE OpStep(t)
    <3>1. \/ QuietStep(t) \/ (LinkSource(t) /\ Positive(t, 1))
          \/ TakeParents(t) \/ Finish(t) \/ RenamePut(t)
          \/ VfsMake(t) \/ VfsRemove(t) \/ VfsRename(t) \/ Return(t)
      BY <2>3 DEF OpStep, QuietStep, Positive
    <3> QED
      BY <3>1, QuietlySteps, LinkStep, ParentSteps, VfsSteps, ReturnStep
  <2> QED
    BY <1>1, <2>1, <2>2, <2>3 DEF CallStep
<1> QED
  BY <1>1, OthersSteps DEF Next

LEMMA StutterKeeps ==
  ASSUME NamesInv, UNCHANGED vars
  PROVE  NamesInv'
<1>1. UNCHANGED <<scenario, content, seen, low, up, mntRefs, dirRefs, ulock, llock, call>>
  BY DEF vars, below, locks
<1>2. \A l, d : /\ Pointers(l)' = Pointers(l) /\ Finders(l)' = Finders(l) /\ Users(l)' = Users(l)
                /\ Takers(d)' = Takers(d) /\ Pointing' = Pointing
  BY <1>1 DEF Pointers, Finders, Users, Takers, Pointing, Lower, Op
<1>3. \A t : /\ CallOf(t)' <=> CallOf(t)
             /\ LocksOf(t)' <=> LocksOf(t)
             /\ UseOf(t)' <=> UseOf(t)
             /\ FreshOf(t)' <=> FreshOf(t)
             /\ SoleOf(t)' <=> SoleOf(t)
  BY <1>1 DEF CallOf, LocksOf, UseOf, FreshOf, SoleOf, Reached, Under, LockedName, At, Op, Found, Entry, Lower
<1>4. \A t : /\ PlaceOf(t)' <=> PlaceOf(t)
             /\ Renamed(t)' <=> Renamed(t)
  BY <1>1 DEF PlaceOf, Renamed, Reached, LockedName, At, Op, Entry, EntDirs, Lower
<1>5. RefsInv'
  BY <1>1, <1>2, <1>3 DEF NamesInv, RefsInv, Types, UpperDcache, LowerDcache, LowerRefs, MountRefs
<1>6. PlaceInv => PlaceInv'
  BY <1>1, <1>4 DEF PlaceInv, Placed
<1>7. ParentRefs => ParentRefs'
  BY <1>1, <1>2 DEF ParentRefs
<1> QED
  BY <1>1, <1>5, <1>6, <1>7 DEF NamesInv

LEMMA NextKeeps ==
  ASSUME NamesInv, [Next]_vars
  PROVE  NamesInv'
<1>1. CASE Next
  <2>1. Keeps
    BY <1>1, StepKeeps DEF NamesInv
  <2> QED
    BY <2>1 DEF Keeps, ParentsHold, NamesInv
<1>2. CASE UNCHANGED vars
  BY <1>2, StutterKeeps
<1> QED
  BY <1>1, <1>2

\* At first nothing is cached and nobody is at work.
LEMMA NamesInit == Init => NamesInv
<1> SUFFICES ASSUME Init PROVE NamesInv
  OBVIOUS
<1>1. /\ Idle \in Calls /\ Idle.dir = <<>> /\ Idle.pc = "idle" /\ Idle.dl = NoDentry /\ Idle.cur = 1
      /\ (\A k \in 1..2 : Idle.du[k] = NoDentry) /\ Idle.rc /\ Idle.op = "walk"
  <2>1. <<NoDentry, NoDentry>> \in [1..2 -> Uppers \cup {NoDentry}]
    OBVIOUS
  <2> QED
    BY <2>1 DEF Idle, Calls, Pcs, OpNames, Maybe
<1>2. /\ \A t \in Tasks : call[t] = Idle
      /\ \A l \in Lowers : low[l] = FreeLower
      /\ \A u \in Uppers : up[u] = FreeUpper
      /\ mntRefs = 0 /\ \A d \in Dirs : dirRefs[d] = 0
  BY DEF Init
<1>3. Types
  <2>1. content \in [Entries -> Maybe]
    <3>1. PICK e \in scenario.entries, i \in {NoInode, 1} :
             content = [f \in Entries |-> IF f = e THEN i ELSE NoInode]
      BY DEF Init
    <3>2. i \in Maybe /\ NoInode \in Maybe
      BY NameBounds DEF Maybe, Inodes
    <3> QED
      BY <3>1, <3>2
  <2>2. /\ low \in [Lowers -> LowerRecs] /\ up \in [Uppers -> UpperDentries] /\ call \in [Tasks -> Calls]
        /\ seen \in [Tasks -> SUBSET Maybe]
    BY <1>1, FreesAreFree DEF Init
  <2>3. /\ scenario \in Scenarios /\ mntRefs \in Int /\ dirRefs \in [Dirs -> Int]
        /\ ulock \in [Dirs -> Tasks \cup {NoOne}] /\ llock \in [Dirs -> Tasks \cup {NoOne}]
    BY DEF Init
  <2> QED
    BY <2>1, <2>2, <2>3 DEF Types, LowerRecs
<1>4. UpperDcache /\ LowerDcache
  BY <1>2, FreesAreFree DEF UpperDcache, LowerDcache
<1>5. Cardinality({}) = 0
  BY FS_EmptySet
<1>6. LowerRefs /\ MountRefs /\ ParentRefs
  <2>1. \A l \in Lowers : Pointers(l) = {}
    BY <1>2, FreesAreFree, Numbers DEF Pointers
  <2>2. Pointing = {}
    BY <1>2, FreesAreFree DEF Pointing
  <2>3. \A l \in Lowers : Finders(l) = {} /\ Users(l) = {}
    BY <1>1, <1>2 DEF Finders, Users
  <2>4. DOMAIN <<>> = {}
    OBVIOUS
  <2>5. \A d \in Dirs : Takers(d) = {}
    BY <1>1, <1>2, <2>4 DEF Takers
  <2>6. \A l \in Lowers : low[l].refs = 0
    BY <1>2, FreesAreFree
  <2>7. LowerRefs
    BY <1>5, <2>1, <2>3, <2>6 DEF LowerRefs
  <2> QED
    BY <1>2, <1>5, <2>2, <2>5, <2>7 DEF MountRefs, ParentRefs
<1>7. \A t \in Tasks, k \in 1..2 : ~Reached(t, k) /\ ~Under(t, k)
  BY <1>1, <1>2 DEF Reached, Under, LookPcs, OpPcs, At
<1>8. \A t \in Tasks : CallOf(t) /\ LocksOf(t) /\ UseOf(t) /\ FreshOf(t) /\ SoleOf(t)
  BY <1>1, <1>2, <1>7, Numbers DEF CallOf, LocksOf, UseOf, FreshOf, SoleOf, LookPcs, OpPcs, At
<1>9. PlaceInv
  BY <1>1, <1>2, <1>7, FreesAreFree DEF PlaceInv, PlaceOf, OpPcs, At
<1> QED
  BY <1>3, <1>4, <1>6, <1>8, <1>9 DEF NamesInv, RefsInv

-----------------------------------------------------------------------------
(* The theorems.                                                            *)

\* The inductive invariant: how calls, both dentry caches, the locks and the
\* references of lofs_lookup and the operations hang together.
THEOREM NamesInvariant == Spec => []NamesInv
BY NamesInit, NextKeeps, PTL DEF Spec

LEMMA BalanceFollows == NamesInv => RefsBalance
<1> SUFFICES ASSUME NamesInv PROVE RefsBalance
  OBVIOUS
<1>1. RefsInv
  BY DEF NamesInv
<1>2. \A l \in Lowers : low[l].refs \in Nat
  <2>1. \A l \in Lowers : low[l].refs >= 0 /\ low[l].refs \in Int
    BY <1>1, ReferredIsKept DEF RefsInv, Types
  <2> QED
    BY <2>1
<1>3. mntRefs \in Nat
  BY <1>1, CountsAreNats DEF RefsInv, MountRefs
<1>4. TypeOK
  <2>1. low \in [Lowers -> LowerDentries]
    BY <1>1, <1>2 DEF RefsInv, Types, LowerDentries
  <2> QED
    BY <1>1, <1>3, <2>1 DEF TypeOK, RefsInv, Types
<1> QED
  BY <1>1, <1>4 DEF RefsBalance, NamesInv, RefsInv, LowerRefs, MountRefs, ParentRefs,
                    Pointers, Finders, Users, Pointing, Takers

\* Every reference that lofs holds on a lower dentry, the lower mount or a lower
\* parent has exactly one owner, whatever fails and in whatever order the tasks
\* and the others come (inode.c, EC-9502).
THEOREM ReferencesBalance == Spec => []RefsBalance
BY NamesInvariant, BalanceFollows, PTL

\* Unless others rename below, what lofs_unlink, lofs_rmdir and lofs_rename
\* remove or move is in the directory they have locked for it.
THEOREM VictimsStayInPlace == Spec => []VictimsInPlace
<1>1. NamesInv => VictimsInPlace
  BY DEF NamesInv, PlaceInv, PlaceOf, VictimsInPlace
<1> QED
  BY <1>1, NamesInvariant, PTL

-----------------------------------------------------------------------------
(* Walks, where nobody renames below and what is stale can be dropped.      *)

\* The dentry of an operation's k-th name, whose directory it has locked.
Holding(t, k) == LockedName(t, k) /\ Reached(t, k)

\* A lower dentry that a name leads to, now or by a hashed lofs dentry, an
\* operation or a lookup, ...
Guarded(l) ==
    \/ low[l].hashed
    \/ \E u \in Uppers : up[u].hashed /\ up[u].lower = l
    \/ \E t \in Tasks, k \in 1..2 : Holding(t, k) /\ Lower(t, k) = l
    \/ \E t \in Tasks : call[t].pc \in {"lreval", "read", "add"} /\ call[t].dl = l

\* ... shares its name with no hashed one, ...
SoleBelow(l) == \A m \in Lowers : low[m].hashed /\ low[m].at = low[l].at => m = l
LowerSole == \A l \in Lowers : Guarded(l) => SoleBelow(l)

\* ... and a hashed one that is not stale is true.
Coherent == \A l \in Lowers : low[l].hashed /\ ~low[l].stale => content[low[l].at] = low[l].inode

\* A positive lofs dentry has the inode of its lower dentry.
Agreeing ==
    \A u \in Uppers : up[u].inode # NoInode =>
        up[u].lower \in Lowers /\ low[up[u].lower].inode = up[u].inode

\* A negative lower dentry in use leaves the hash table when it is stale or is
\* moved away.
Steady(l) == low[l].hashed \/ low[l].stale \/ low[l].inode # NoInode
Replaced(u) == \E t \in Tasks : Renamed(t) /\ u = call[t].du[2]
UpperSteady ==
    \A u \in Uppers : up[u].hashed /\ up[u].inode = NoInode => Steady(up[u].lower) \/ Replaced(u)
SteadyOf(t) == call[t].pc \in {"lreval", "read", "add"} => Steady(call[t].dl)

Made(t) == Op(t) \in Making /\ At(t, "finish") /\ call[t].rc
MadeBy(t, u) == Made(t) /\ call[t].du[Target(Op(t))] = u

\* Whether the dentries of a call are positive.
InodeOf(t) ==
    /\ At(t, "add") /\ call[t].li # NoInode => low[call[t].dl].inode = call[t].li
    /\ Op(t) \in Making /\ call[t].pc \in {"plock", "vfs", "finish"} =>
          up[call[t].du[Target(Op(t))]].inode = NoInode
    /\ Made(t) => low[Lower(t, Target(Op(t)))].inode # NoInode
    /\ Op(t) \in Removing \cup {"rename"} /\ (call[t].pc \in OpPcs \/ (At(t, "return") /\ call[t].rc)) =>
          up[call[t].du[1]].inode # NoInode
    /\ Op(t) = "link" /\ call[t].cur = 2 => up[call[t].du[1]].inode # NoInode

\* The dentry of a walk is where the walk looks, was moved away with its file,
\* or has lost its place to one that was moved there.
Around(t, u) ==
    \/ up[u].at = call[t].ent[1]
    \/ up[u].inode # NoInode
    \/ ~up[u].hashed /\ \A s \in Tasks, k \in 1..2 : Holding(s, k) => call[s].du[k] # u

\* If lofs_d_revalidate takes it for valid, what it says has been seen.
Promising(t, u) ==
    LET l == up[u].lower
    IN  \/ up[u].inode \in seen[t]
        \/ up[u].inode # low[l].inode
        \/ low[l].stale
        \/ low[l].at = call[t].ent[1] /\ (low[l].hashed \/ up[u].inode # NoInode)

\* What it says has been seen, and what a call is about to store there.
Answering(t, u) ==
    /\ up[u].inode \in seen[t]
    /\ (\E s \in Tasks : MadeBy(s, u)) => low[up[u].lower].inode \in seen[t]

Finding(t, l) ==
    /\ At(t, "lreval") => low[l].stale \/ low[l].inode \in seen[t]
    /\ call[t].pc \in {"read", "add"} => low[l].inode \in seen[t]
    /\ At(t, "add") => call[t].li \in seen[t]

WalkOf(t) ==
    Op(t) = "walk" =>
        /\ ~At(t, "idle") => content[call[t].ent[1]] \in seen[t]
        /\ Finding(t, call[t].dl)
        /\ call[t].pc \in {"reval", "found"} => Around(t, call[t].du[1])
        /\ At(t, "reval") => Promising(t, call[t].du[1])
        /\ At(t, "found") => Answering(t, call[t].du[1])
        /\ At(t, "return") /\ call[t].rc => call[t].li \in seen[t]

WalksInv ==
    /\ LowerSole /\ Coherent /\ Agreeing /\ UpperSteady
    /\ \A t \in Tasks : SteadyOf(t) /\ InodeOf(t) /\ WalkOf(t)

-----------------------------------------------------------------------------
(* What a step does to the lower dentries.                                  *)

\* No lower dentry is hashed or moved.
NoneComes ==
    \A l \in Lowers : low'[l].at # <<>> =>
        low'[l].at = low[l].at /\ (low'[l].hashed => low[l].hashed)

\* Only references change, but for stale or unused ones that are unhashed.
Fading ==
    \A l \in Lowers :
        /\ low'[l].at # <<>> =>
              /\ low'[l].at = low[l].at /\ low'[l].inode = low[l].inode /\ low'[l].stale = low[l].stale
              /\ low'[l].hashed => low[l].hashed
        /\ low[l].refs # 0 /\ low'[l].refs # 0 /\ low[l].hashed /\ ~low'[l].hashed => low[l].stale

\* What happens to the dentries in use: files appear in them, as the directory
\* says, and they leave their places with what the directory said.
InStep(t) ==
    \A l \in Lowers : low[l].refs # 0 /\ low'[l].refs # 0 =>
        /\ low[l].stale => low'[l].stale
        /\ low'[l].inode # low[l].inode =>
              /\ low[l].inode = NoInode /\ low'[l].inode # NoInode
              /\ low'[l].at = low[l].at /\ content'[low[l].at] = low'[l].inode
        /\ low'[l].at # low[l].at => content[low[l].at] = low[l].inode /\ ulock[low[l].at[1]] = t
        /\ low[l].hashed /\ ~low'[l].hashed =>
              low[l].stale \/ low[l].inode # NoInode \/ low'[l].at # low[l].at

LEMMA FadesIf ==
  ASSUME NEW f, low' \in {f, Settled(f)},
         \A l \in Lowers : /\ f[l].at = low[l].at /\ f[l].inode = low[l].inode /\ f[l].stale = low[l].stale
                           /\ f[l].hashed => low[l].hashed
                           /\ low[l].refs # 0 /\ low[l].hashed /\ ~f[l].hashed => low[l].stale
  PROVE  Fading
<1> SUFFICES ASSUME NEW l \in Lowers
             PROVE  /\ low'[l].at # <<>> =>
                          /\ low'[l].at = low[l].at /\ low'[l].inode = low[l].inode
                          /\ low'[l].stale = low[l].stale /\ (low'[l].hashed => low[l].hashed)
                    /\ low[l].refs # 0 /\ low'[l].refs # 0 /\ low[l].hashed /\ ~low'[l].hashed => low[l].stale
  BY DEF Fading
<1>1. low'[l] = f[l] \/ low'[l] = FreeLower
  BY DEF Settled
<1> QED
  BY <1>1, FreesAreFree

LEMMA SameFades == ASSUME low' = low PROVE Fading
BY DEF Fading

LowersNamed == \A l \in Lowers : low[l].refs # 0 \/ low[l].hashed => low[l].at \in Entries

LEMMA UsedAreNamed == RefsInv => LowersNamed
<1> SUFFICES ASSUME RefsInv, NEW l \in Lowers, low[l].refs # 0 \/ low[l].hashed
             PROVE  low[l].at \in Entries
  BY DEF LowersNamed
<1>1. LowFunction(low) /\ low \in [Lowers -> LowerRecs]
  BY LowIsFunction DEF RefsInv, LowFunction
<1>2. low[l].hashed => low[l].at # <<>>
  BY <1>1, HashedIsNamed
<1> QED
  BY <1>1, <1>2, ReferredIsKept DEF LowerRecs

LEMMA UsedWillBeNamed == RefsInv' => LowersNamed'
BY UsedAreNamed, PTL

LEMMA FadesIn ==
  ASSUME Fading, RefsInv', NEW t
  PROVE  InStep(t) /\ NoneComes
<1>1. \A l \in Lowers : low'[l].refs # 0 => low'[l].at # <<>>
  BY UsedWillBeNamed, NoEntryIsEmpty DEF LowersNamed
<1> QED
  BY <1>1 DEF Fading, InStep, NoneComes

LEMMA FadesAtStays == ASSUME Fading, RefsInv' PROVE AtStays
BY UsedWillBeNamed, NoEntryIsEmpty DEF Fading, AtStays, LowersNamed

LEMMA FadesCoherent ==
  ASSUME Fading, RefsInv', Coherent, content' = content
  PROVE  Coherent'
<1>1. \A l \in Lowers : low'[l].hashed => low'[l].at # <<>>
  BY UsedWillBeNamed, NoEntryIsEmpty DEF LowersNamed
<1> QED
  BY <1>1 DEF Fading, Coherent

-----------------------------------------------------------------------------
(* Names below.                                                             *)

\* A dentry that gets a guard had one, or was looked up.
Guards(t) ==
    /\ \A u \in Uppers : up'[u].hashed => Guarded(up'[u].lower)
    /\ t \in Tasks =>
          /\ \A k \in 1..2 : Holding(t, k)' => Guarded(Lower(t, k)')
          /\ call'[t].pc \in {"lreval", "read", "add"} => Guarded(call'[t].dl) \/ low'[call'[t].dl].hashed

\* What other calls hold they held.
LEMMA OthersHold ==
  ASSUME RefsInv, NEW t, Alone(t), OthersUp(t), NEW s \in Tasks \ {t}, NEW k \in 1..2
  PROVE  /\ Holding(s, k)' <=> Holding(s, k)
         /\ Holding(s, k) => Lower(s, k)' = Lower(s, k)
<1>1. call'[s] = call[s] /\ UseOf(s)
  BY DEF Alone, RefsInv
<1>2. Holding(s, k)' <=> Holding(s, k)
  BY <1>1 DEF Holding, LockedName, Reached, At, Op
<1>3. Holding(s, k) => call[s].du[k] \in Uppers
  BY <1>1 DEF Holding, UseOf
<1> QED
  BY <1>1, <1>2, <1>3 DEF OthersUp, Lower

LEMMA GuardsKept ==
  ASSUME RefsInv, NEW t, Alone(t), OthersUp(t), Guards(t), NEW l \in Lowers, Guarded(l)'
  PROVE  low'[l].hashed \/ Guarded(l)
<1>1. CASE \E u \in Uppers : up'[u].hashed /\ up'[u].lower = l
  BY <1>1 DEF Guards
<1>2. CASE \E s \in Tasks, k \in 1..2 : Holding(s, k)' /\ Lower(s, k)' = l
  <2>1. PICK s \in Tasks, k \in 1..2 : Holding(s, k)' /\ Lower(s, k)' = l
    BY <1>2
  <2>2. CASE s = t
    BY <2>1, <2>2 DEF Guards
  <2>3. CASE s # t
    <3>1. Holding(s, k) /\ Lower(s, k) = l
      BY <2>1, <2>3, OthersHold
    <3> QED
      BY <3>1 DEF Guarded
  <2> QED
    BY <2>2, <2>3
<1>3. CASE \E s \in Tasks : call'[s].pc \in {"lreval", "read", "add"} /\ call'[s].dl = l
  <2>1. PICK s \in Tasks : call'[s].pc \in {"lreval", "read", "add"} /\ call'[s].dl = l
    BY <1>3
  <2>2. CASE s = t
    BY <2>1, <2>2 DEF Guards
  <2>3. CASE s # t
    BY <2>1, <2>3 DEF Guarded, Alone
  <2> QED
    BY <2>2, <2>3
<1> QED
  BY <1>1, <1>2, <1>3 DEF Guarded

GuardedInUse == \A l \in Lowers : Guarded(l) => low[l].at \in Entries

LEMMA GuardedAreNamed == RefsInv => GuardedInUse
<1> SUFFICES ASSUME RefsInv, NEW l \in Lowers, Guarded(l), ~low[l].hashed PROVE low[l].refs # 0
  BY UsedAreNamed DEF GuardedInUse, LowersNamed
<1>1. InUse
  BY UsedAreReferred
<1>2. \A s \in Tasks, k \in 1..2 : Holding(s, k) /\ Lower(s, k) = l => \E u \in Uppers : up[u].lower = l
  BY <1>1 DEF InUse, Holding, Lower
<1> QED
  BY <1>1, <1>2 DEF InUse, Guarded

LEMMA GuardedWillBeNamed == RefsInv' => GuardedInUse'
BY GuardedAreNamed, PTL

LEMMA SoleKeeps ==
  ASSUME RefsInv, RefsInv', LowerSole, NEW t, Alone(t), OthersUp(t), Guards(t), NoneComes
  PROVE  LowerSole'
<1> SUFFICES ASSUME NEW l \in Lowers, Guarded(l)', NEW m \in Lowers, low'[m].hashed, low'[m].at = low'[l].at
             PROVE  m = l
  BY DEF LowerSole, SoleBelow
<1>1. low'[l].at \in Entries /\ low'[m].at \in Entries
  BY GuardedWillBeNamed, UsedWillBeNamed DEF GuardedInUse, LowersNamed
<1>2. low'[l].at = low[l].at /\ low'[m].at = low[m].at /\ low[m].hashed /\ (low'[l].hashed => low[l].hashed)
  BY <1>1, NoEntryIsEmpty DEF NoneComes
<1>3. Guarded(l)
  BY <1>2, GuardsKept DEF Guarded
<1> QED
  BY <1>2, <1>3 DEF LowerSole, SoleBelow

-----------------------------------------------------------------------------
(* What a step of t does to the calls of others.                            *)

\* The lower directories change and every walk sees it.
SeenStep(t) ==
    \A s \in Tasks \ {t} : Op(s) = "walk" /\ ~At(s, "idle") =>
        seen[s] \subseteq seen'[s] /\ content'[call[s].ent[1]] \in seen'[s]

\* The lofs dentries that others have: t stores the inode of what it made, ...
Stored(t, u) ==
    LET l == up[u].lower
    IN  /\ t \in Tasks /\ MadeBy(t, u) /\ up'[u].inode = low[l].inode
        /\ up'[u].at = up[u].at /\ low'[l].at = low[l].at

\* ... or moves a file.
UpStep(t) ==
    \A s \in Tasks \ {t}, k \in 1..2 : call[s].du[k] \in Uppers =>
        LET u == call[s].du[k]
        IN  /\ up'[u].inode # up[u].inode => Stored(t, u)
            /\ up'[u].at # up[u].at =>
                  \/ up[u].inode # NoInode
                  \/ ~up'[u].hashed /\ \A r \in Tasks, j \in 1..2 : Holding(r, j)' => call'[r].du[j] # u
            /\ up'[u].hashed /\ ~up[u].hashed => up[u].inode # NoInode

\* The dentries of t come from the dcache, or nobody else has them.
HoldStep(t) ==
    t \in Tasks => \A k \in 1..2 : Holding(t, k)' =>
        LET u == call'[t].du[k]
        IN  \/ Holding(t, k) /\ call[t].du[k] = u
            \/ u \in Uppers /\ up[u].hashed
            \/ \A s \in Tasks \ {t}, j \in 1..2 : call[s].du[j] # u

MadeStep(t) ==
    t \in Tasks /\ Made(t)' =>
        LET k == Target(Op(t))
            u == call[t].du[k]
            l == up[u].lower
        IN  /\ Op(t)' = Op(t) /\ call'[t].du[k] = u
            /\ \/ Made(t)
               \/ /\ Op(t) \in Making /\ Holding(t, k) /\ up[u].inode = NoInode
                  /\ low'[l].inode = content'[low[l].at]

LEMMA HoldersDiffer ==
  ASSUME RefsInv, NEW s \in Tasks, NEW t \in Tasks, NEW j \in 1..2, NEW k \in 1..2,
         Holding(s, j), Holding(t, k), call[s].du[j] = call[t].du[k]
  PROVE  s = t
<1>1. /\ call[s] \in Calls /\ CallOf(s) /\ LocksOf(s) /\ SoleOf(s)
      /\ call[t] \in Calls /\ CallOf(t) /\ LocksOf(t) /\ SoleOf(t)
  BY DEF RefsInv, Types
<1>2. Under(s, j) /\ Under(t, k)
  BY DEF Holding, Under
<1>3. ulock[call[s].ent[j][1]] = s /\ ulock[call[t].ent[k][1]] = t
  BY <1>1, <1>2, UnderIsLocked
<1>4. call[s].ent[j] = call[t].ent[k]
  BY <1>1, <1>2 DEF SoleOf
<1> QED
  BY <1>3, <1>4

\* A dentry that an operation holds, and the lower one.
LEMMA HeldAt ==
  ASSUME RefsInv, PlaceInv, NEW t \in Tasks, NEW k \in 1..2, Holding(t, k)
  PROVE  /\ call[t].du[k] \in Uppers /\ Lower(t, k) \in Lowers /\ up[call[t].du[k]].at = call[t].ent[k]
         /\ ulock[call[t].ent[k][1]] = t /\ low[Lower(t, k)].refs # 0
         /\ low[Lower(t, k)].at = call[t].ent[IF Renamed(t) THEN 3 - k ELSE k]
<1>1. /\ call[t] \in Calls /\ CallOf(t) /\ LocksOf(t) /\ SoleOf(t) /\ UseOf(t) /\ PlaceOf(t) /\ InUse
  BY UsedAreReferred DEF RefsInv, Types, PlaceInv
<1>2. Under(t, k)
  BY DEF Holding, Under
<1> QED
  BY <1>1, <1>2, UnderIsLocked DEF Holding, SoleOf, UseOf, PlaceOf, InUse, Lower

LEMMA MadeIsHeld ==
  ASSUME RefsInv, NEW t \in Tasks, Op(t) \in Making, call[t].pc \in {"plock", "vfs", "finish"}
  PROVE  Holding(t, Target(Op(t))) /\ Target(Op(t)) \in 1..2 /\ ~Renamed(t)
<1>1. call[t].pc \in OpPcs /\ Op(t) # "walk" /\ Op(t) # "rename"
  BY DEF OpPcs, Making
<1>2. Target(Op(t)) \in 1..2 /\ (Target(Op(t)) = 1 \/ Op(t) \in Pair) /\ (Op(t) = "link" => Target(Op(t)) = 2)
  BY DEF Target, Pair
<1> QED
  BY <1>1, <1>2, OpDentries DEF Holding, LockedName, Renamed

\* What is made is where a walk looks that has the same dentry.
LEMMA MadeAround ==
  ASSUME RefsInv, PlaceInv, NEW t \in Tasks, Op(t) \in Making, Holding(t, Target(Op(t))),
         up[call[t].du[Target(Op(t))]].inode = NoInode,
         NEW s \in Tasks, Around(s, call[t].du[Target(Op(t))])
  PROVE  low[Lower(t, Target(Op(t)))].at = call[s].ent[1] /\ Lower(t, Target(Op(t))) \in Lowers
<1> DEFINE k == Target(Op(t))
<1>1. k \in 1..2 /\ ~Renamed(t)
  BY DEF Target, Renamed, Making
<1>2. up[call[t].du[k]].at = call[s].ent[1]
  BY <1>1 DEF Around
<1> QED
  BY <1>1, <1>2, HeldAt

\* The dentry of a walk.
LEMMA WalkDentry ==
  ASSUME RefsInv, RefsInv', NEW t, Alone(t), OthersUp(t), NEW s \in Tasks \ {t}, Op(s) = "walk",
         call[s].pc \in {"reval", "found"}
  PROVE  /\ call[s].du[1] \in Uppers /\ up[call[s].du[1]].lower \in Lowers
         /\ up'[call[s].du[1]].lower = up[call[s].du[1]].lower
         /\ low[up[call[s].du[1]].lower].refs # 0 /\ low'[up[call[s].du[1]].lower].refs # 0
<1>1. call[s] \in Calls /\ CallOf(s) /\ UseOf(s) /\ call'[s] = call[s]
  BY DEF RefsInv, Types, Alone
<1>2. call[s].cur = 1
  BY <1>1 DEF CallOf, Calls, Pair
<1>3. Reached(s, 1)
  BY <1>2 DEF Reached
<1>4. call[s].du[1] \in Uppers /\ Lower(s, 1) \in Lowers
  BY <1>1, <1>3 DEF UseOf
<1>5. up'[call[s].du[1]].lower = up[call[s].du[1]].lower
  BY <1>4 DEF OthersUp
<1>6. InUse /\ InUse'
  BY UsedAreReferred, UsedWillBeReferred
<1> QED
  BY <1>4, <1>5, <1>6 DEF InUse, Lower

LEMMA AroundKeeps ==
  ASSUME RefsInv, RefsInv', NEW t, Alone(t), OthersUp(t), UpStep(t), HoldStep(t),
         \A r \in Tasks : InodeOf(r), NEW s \in Tasks \ {t}, Op(s) = "walk",
         call[s].pc \in {"reval", "found"}, Around(s, call[s].du[1])
  PROVE  Around(s, call[s].du[1])'
<1> DEFINE u == call[s].du[1]
<1>1. u \in Uppers /\ call'[s] = call[s] /\ u = call[s].du[1]
  BY WalkDentry DEF Alone
<1> HIDE DEF u
<1>2. /\ up'[u].inode # up[u].inode => Stored(t, u)
      /\ up'[u].at # up[u].at =>
            \/ up[u].inode # NoInode
            \/ ~up'[u].hashed /\ \A r \in Tasks, j \in 1..2 : Holding(r, j)' => call'[r].du[j] # u
      /\ up'[u].hashed /\ ~up[u].hashed => up[u].inode # NoInode
  BY <1>1 DEF UpStep
<1>3. ASSUME Stored(t, u)
      PROVE  up[u].inode = NoInode /\ up'[u].at = up[u].at
             /\ \E r \in Tasks, j \in 1..2 : Holding(r, j) /\ call[r].du[j] = u
  <2>1. t \in Tasks /\ Op(t) \in Making /\ call[t].pc = "finish" /\ u = call[t].du[Target(Op(t))]
        /\ up'[u].at = up[u].at
    BY <1>3 DEF Stored, MadeBy, Made, At
  <2>2. Holding(t, Target(Op(t))) /\ Target(Op(t)) \in 1..2
    BY <2>1, MadeIsHeld
  <2> QED
    BY <2>1, <2>2 DEF InodeOf
<1>4. CASE up[u].at = call[s].ent[1]
  BY <1>1, <1>2, <1>3, <1>4 DEF Around
<1>5. CASE up[u].inode # NoInode
  BY <1>1, <1>2, <1>3, <1>5 DEF Around
<1>6. CASE up[u].inode = NoInode /\ ~up[u].hashed
           /\ \A r \in Tasks, k \in 1..2 : Holding(r, k) => call[r].du[k] # u
  <2>1. ~up'[u].hashed
    BY <1>2, <1>6
  <2>2. ASSUME NEW r \in Tasks, NEW k \in 1..2, Holding(r, k)', call'[r].du[k] = u
        PROVE  FALSE
    <3>1. CASE r = t
      BY <1>1, <1>6, <2>2, <3>1 DEF HoldStep
    <3>2. CASE r # t
      <4>1. Holding(r, k) /\ call'[r] = call[r]
        BY <2>2, <3>2, OthersHold DEF Alone
      <4> QED
        BY <1>6, <2>2, <4>1
    <3> QED
      BY <3>1, <3>2
  <2> QED
    BY <1>1, <2>1, <2>2 DEF Around
<1> QED
  BY <1>1, <1>4, <1>5, <1>6 DEF Around

LEMMA UpIsStored ==
  ASSUME NEW t, UpStep(t), NEW s \in Tasks \ {t}, NEW k \in 1..2, call[s].du[k] \in Uppers,
         up'[call[s].du[k]].inode # up[call[s].du[k]].inode
  PROVE  Stored(t, call[s].du[k])
BY DEF UpStep

LEMMA PromisesKeep ==
  ASSUME RefsInv, RefsInv', PlaceInv, Agreeing, NEW t, Alone(t), OthersUp(t), UpStep(t), InStep(t),
         SeenStep(t), \A r \in Tasks : InodeOf(r), NEW s \in Tasks \ {t}, Op(s) = "walk",
         call[s].pc = "reval", content[call[s].ent[1]] \in seen[s],
         Around(s, call[s].du[1]), Promising(s, call[s].du[1])
  PROVE  Promising(s, call[s].du[1])'
<1> DEFINE u == call[s].du[1]
           l == up[u].lower
<1>1. /\ u \in Uppers /\ call'[s] = call[s] /\ u = call[s].du[1] /\ l \in Lowers /\ l = up[u].lower
      /\ up'[u].lower = l /\ low[l].refs # 0 /\ low'[l].refs # 0
      /\ seen[s] \subseteq seen'[s]
  BY WalkDentry DEF Alone, SeenStep, At
<1> HIDE DEF u, l
<1>2. /\ low[l].stale => low'[l].stale
      /\ low'[l].inode # low[l].inode => low[l].inode = NoInode /\ low'[l].inode # NoInode
      /\ low'[l].at # low[l].at => content[low[l].at] = low[l].inode
      /\ low[l].hashed /\ ~low'[l].hashed =>
            low[l].stale \/ low[l].inode # NoInode \/ low'[l].at # low[l].at
  BY <1>1 DEF InStep
<1>3. CASE up'[u].inode # up[u].inode
  <2>1. Stored(t, u)
    <3>1. 1 \in 1..2 /\ call[s].du[1] \in Uppers /\ up'[call[s].du[1]].inode # up[call[s].du[1]].inode
      BY <1>1, <1>3
    <3>2. Stored(t, call[s].du[1])
      BY <3>1, UpIsStored
    <3> QED
      BY <1>1, <3>2
  <2>2. /\ t \in Tasks /\ Op(t) \in Making /\ call[t].pc = "finish" /\ u = call[t].du[Target(Op(t))]
        /\ Made(t) /\ up'[u].inode = low[l].inode /\ low'[l].at = low[l].at
    BY <1>1, <2>1 DEF Stored, MadeBy, Made, At
  <2>3. Holding(t, Target(Op(t)))
    BY <2>2, MadeIsHeld
  <2>4. up[u].inode = NoInode /\ low[l].inode # NoInode /\ l = Lower(t, Target(Op(t)))
    BY <1>1, <2>2 DEF InodeOf, Lower
  <2>5. low[l].at = call[s].ent[1]
    BY <1>1, <2>2, <2>3, <2>4, MadeAround
  <2> QED
    BY <1>1, <2>2, <2>4, <2>5 DEF Promising
<1>4. CASE up'[u].inode = up[u].inode
  <2>1. CASE up[u].inode \in seen[s] \/ low[l].stale
    BY <1>1, <1>2, <1>4, <2>1 DEF Promising
  <2>2. CASE up[u].inode # low[l].inode
    <3>1. up[u].inode # low'[l].inode
      BY <1>1, <1>2, <2>2 DEF Agreeing
    <3> QED
      BY <1>1, <1>4, <3>1 DEF Promising
  <2>3. CASE up[u].inode = low[l].inode /\ low[l].at = call[s].ent[1] /\ (low[l].hashed \/ up[u].inode # NoInode)
             /\ ~low[l].stale
    <3>1. CASE low'[l].at # low[l].at
      <4>1. up[u].inode \in seen[s]
        BY <1>2, <2>3, <3>1
      <4> QED
        BY <1>1, <1>4, <4>1 DEF Promising
    <3>2. CASE low'[l].at = low[l].at
      BY <1>1, <1>2, <1>4, <2>3, <3>2 DEF Promising
    <3> QED
      BY <3>1, <3>2
  <2> QED
    BY <1>1, <2>1, <2>2, <2>3 DEF Promising
<1> QED
  BY <1>3, <1>4

LEMMA AnswersKeep ==
  ASSUME RefsInv, RefsInv', PlaceInv, NEW t, Alone(t), OthersUp(t), UpStep(t), InStep(t),
         SeenStep(t), MadeStep(t), \A r \in Tasks : InodeOf(r), NEW s \in Tasks \ {t}, Op(s) = "walk",
         call[s].pc = "found", Around(s, call[s].du[1]), Answering(s, call[s].du[1])
  PROVE  Answering(s, call[s].du[1])'
<1> DEFINE u == call[s].du[1]
           l == up[u].lower
<1>1. /\ u \in Uppers /\ call'[s] = call[s] /\ u = call[s].du[1] /\ l \in Lowers /\ l = up[u].lower
      /\ up'[u].lower = l /\ low[l].refs # 0 /\ low'[l].refs # 0
      /\ seen[s] \subseteq seen'[s] /\ content'[call[s].ent[1]] \in seen'[s]
  BY WalkDentry DEF Alone, SeenStep, At
<1> HIDE DEF u, l
<1>2. low'[l].inode # low[l].inode => low[l].inode = NoInode
  BY <1>1 DEF InStep
<1>3. ASSUME NEW r \in Tasks, MadeBy(r, u)
      PROVE  low'[l].inode = low[l].inode /\ low[l].inode \in seen[s]
  <2>1. low[l].inode # NoInode
    BY <1>1, <1>3 DEF MadeBy, InodeOf, Lower
  <2> QED
    BY <1>1, <1>2, <1>3, <2>1 DEF Answering
<1>4. up'[u].inode \in seen'[s]
  <2>1. CASE up'[u].inode = up[u].inode
    BY <1>1, <2>1 DEF Answering
  <2>2. CASE up'[u].inode # up[u].inode
    <3>1. Stored(t, u)
      <4>1. 1 \in 1..2 /\ call[s].du[1] \in Uppers /\ up'[call[s].du[1]].inode # up[call[s].du[1]].inode
        BY <1>1, <2>2
      <4>2. Stored(t, call[s].du[1])
        BY <4>1, UpIsStored
      <4> QED
        BY <1>1, <4>2
    <3>2. t \in Tasks /\ MadeBy(t, u) /\ up'[u].inode = low[l].inode
      BY <1>1, <3>1 DEF Stored
    <3> QED
      BY <1>1, <1>3, <3>2
  <2> QED
    BY <2>1, <2>2
<1>5. ASSUME NEW r \in Tasks, Made(r)', call'[r].du[Target(call'[r].op)] = u
      PROVE  low'[l].inode \in seen'[s]
  <2>1. CASE r # t
    <3>1. Made(r) /\ call[r].du[Target(call[r].op)] = u
      BY <1>5, <2>1 DEF Made, Alone, Op, At
    <3> QED
      BY <1>1, <1>3, <3>1 DEF MadeBy, Op
  <2>2. CASE r = t
    <3>1. /\ t \in Tasks /\ Made(t)' /\ call'[t].du[Target(call'[t].op)] = u
      BY <1>5, <2>2
    <3>2. Op(t)' = Op(t) /\ call[t].du[Target(Op(t))] = u
      BY <3>1 DEF MadeStep, Op
    <3>3. CASE Made(t)
      BY <1>1, <1>3, <3>1, <3>2, <3>3 DEF MadeBy
    <3>4. CASE ~Made(t)
      <4>1. Op(t) \in Making /\ Holding(t, Target(Op(t))) /\ up[u].inode = NoInode
            /\ low'[l].inode = content'[low[l].at]
        BY <1>1, <3>1, <3>2, <3>4 DEF MadeStep
      <4>2. Lower(t, Target(Op(t))) = l
        BY <1>1, <3>2 DEF Lower
      <4>3. low[l].at = call[s].ent[1]
        <5>1. up[call[t].du[Target(Op(t))]].inode = NoInode /\ Around(s, call[t].du[Target(Op(t))])
          BY <1>1, <3>2, <4>1
        <5> QED
          BY <3>1, <4>1, <4>2, <5>1, MadeAround
      <4> QED
        BY <1>1, <4>1, <4>3
    <3> QED
      BY <3>3, <3>4
  <2> QED
    BY <2>1, <2>2
<1>6. \A r \in Tasks : MadeBy(r, call[s].du[1])' => Made(r)' /\ call'[r].du[Target(call'[r].op)] = u
  BY <1>1 DEF MadeBy, Op
<1>7. call'[s].du[1] = u /\ (up[call[s].du[1]].lower)' = l
  BY <1>1
<1> QED
  BY <1>1, <1>4, <1>5, <1>6, <1>7 DEF Answering

LEMMA FindingKeeps ==
  ASSUME RefsInv, RefsInv', PlaceInv, NEW t, Alone(t), InStep(t), SeenStep(t), NEW s \in Tasks \ {t},
         Op(s) = "walk", Finding(s, call[s].dl)
  PROVE  Finding(s, call[s].dl)'
<1>1. call'[s] = call[s] /\ call[s] \in Calls /\ CallOf(s) /\ PlaceOf(s)
  BY DEF Alone, RefsInv, Types, PlaceInv
<1> SUFFICES ASSUME call[s].pc \in {"lreval", "read", "add"} PROVE Finding(s, call[s].dl)'
  BY <1>1 DEF Finding, At
<1>2. call[s].dl \in Lowers /\ low[call[s].dl].refs # 0 /\ low'[call[s].dl].refs # 0
  <2>1. InUse /\ InUse'
    BY UsedAreReferred, UsedWillBeReferred
  <2> QED
    BY <1>1, <2>1 DEF InUse, CallOf
<1>3. low[call[s].dl].at = call[s].ent[1]
  BY <1>1 DEF PlaceOf, Entry, CallOf, Calls, Pair
<1>4. seen[s] \subseteq seen'[s] /\ content'[call[s].ent[1]] \in seen'[s]
  BY DEF SeenStep, At
<1>5. low'[call[s].dl].inode # low[call[s].dl].inode => low'[call[s].dl].inode \in seen'[s]
  BY <1>2, <1>3, <1>4 DEF InStep
<1>6. low[call[s].dl].stale => low'[call[s].dl].stale
  BY <1>2 DEF InStep
<1> QED
  BY <1>1, <1>4, <1>5, <1>6 DEF Finding, At

LEMMA OtherWalks ==
  ASSUME RefsInv, RefsInv', PlaceInv, Agreeing, NEW t, Alone(t), OthersUp(t), UpStep(t), HoldStep(t),
         InStep(t), SeenStep(t), MadeStep(t), \A r \in Tasks : InodeOf(r), NEW s \in Tasks \ {t}, WalkOf(s)
  PROVE  WalkOf(s)'
<1>1. call'[s] = call[s]
  BY DEF Alone
<1> SUFFICES ASSUME Op(s) = "walk" PROVE WalkOf(s)'
  BY <1>1 DEF WalkOf, Op
<1>2. ~At(s, "idle") => seen[s] \subseteq seen'[s] /\ content'[call[s].ent[1]] \in seen'[s]
  BY DEF SeenStep
<1>3. Finding(s, call[s].dl)'
  BY FindingKeeps DEF WalkOf
<1>4. call[s].pc \in {"reval", "found"} => Around(s, call[s].du[1])'
  BY AroundKeeps DEF WalkOf
<1>5. call[s].pc = "reval" => Promising(s, call[s].du[1])'
  BY PromisesKeep DEF WalkOf, At
<1>6. call[s].pc = "found" => Answering(s, call[s].du[1])'
  BY AnswersKeep DEF WalkOf, At
<1>7. call[s].pc = "return" /\ call[s].rc => call[s].li \in seen'[s]
  BY <1>2 DEF WalkOf, At
<1> QED
  BY <1>1, <1>2, <1>3, <1>4, <1>5, <1>6, <1>7 DEF WalkOf, At

\* Whoever has what t stores its inode in is t.
LEMMA StoredIsOwn ==
  ASSUME RefsInv, NEW t, InodeOf(t), NEW u, Stored(t, u)
  PROVE  /\ up'[u].inode # NoInode /\ up[u].inode = NoInode
         /\ \A s \in Tasks \ {t}, k \in 1..2 : Holding(s, k) => call[s].du[k] # u
<1>1. /\ t \in Tasks /\ Op(t) \in Making /\ call[t].pc = "finish" /\ u = call[t].du[Target(Op(t))]
      /\ Made(t) /\ up'[u].inode = low[up[u].lower].inode
  BY DEF Stored, MadeBy, Made, At
<1>2. Holding(t, Target(Op(t))) /\ Target(Op(t)) \in 1..2
  BY <1>1, MadeIsHeld
<1>3. up'[u].inode # NoInode /\ up[u].inode = NoInode
  BY <1>1 DEF InodeOf, Lower
<1> QED
  BY <1>1, <1>2, <1>3, HoldersDiffer

LEMMA OtherInodes ==
  ASSUME RefsInv, RefsInv', NEW t, Alone(t), OthersUp(t), UpStep(t), InStep(t),
         \A r \in Tasks : InodeOf(r), NEW s \in Tasks \ {t}
  PROVE  InodeOf(s)'
<1>1. /\ call'[s] = call[s] /\ call[s] \in Calls /\ CallOf(s) /\ UseOf(s) /\ InodeOf(s)
      /\ InUse /\ InUse'
  BY UsedAreReferred, UsedWillBeReferred DEF Alone, RefsInv, Types
<1>2. t \in Tasks => InodeOf(t)
  OBVIOUS
<1>3. \A k \in 1..2 : call[s].du[k] \in Uppers =>
         /\ up'[call[s].du[k]].lower = up[call[s].du[k]].lower
         /\ up'[call[s].du[k]].inode # up[call[s].du[k]].inode => Stored(t, call[s].du[k])
  BY DEF OthersUp, UpStep
<1>4. call[s].pc = "add" /\ call[s].li # NoInode => low'[call[s].dl].inode = call[s].li
  <2> SUFFICES ASSUME call[s].pc = "add", call[s].li # NoInode PROVE low'[call[s].dl].inode = call[s].li
    OBVIOUS
  <2>1. call[s].dl \in Lowers /\ low[call[s].dl].refs # 0 /\ low'[call[s].dl].refs # 0
    BY <1>1 DEF InUse, CallOf
  <2> QED
    BY <1>1, <2>1 DEF InStep, InodeOf, At
<1>5. ASSUME Op(s) \in Making, call[s].pc \in {"plock", "vfs", "finish"}
      PROVE  /\ up'[call[s].du[Target(Op(s))]].inode = NoInode
             /\ Made(s) => low'[up'[call[s].du[Target(Op(s))]].lower].inode # NoInode
  <2>1. Holding(s, Target(Op(s))) /\ Target(Op(s)) \in 1..2
    BY <1>5, MadeIsHeld
  <2>2. call[s].du[Target(Op(s))] \in Uppers /\ Lower(s, Target(Op(s))) \in Lowers
    BY <1>1, <2>1 DEF Holding, UseOf
  <2>3. ~Stored(t, call[s].du[Target(Op(s))])
    BY <1>2, <2>1, StoredIsOwn DEF Stored
  <2>4. up'[call[s].du[Target(Op(s))]].inode = NoInode
    BY <1>1, <1>3, <1>5, <2>1, <2>2, <2>3 DEF InodeOf
  <2>5. low[Lower(s, Target(Op(s)))].refs # 0 /\ low'[Lower(s, Target(Op(s)))].refs # 0
    BY <1>1, <1>3, <2>1, <2>2 DEF InUse, Lower
  <2>6. Made(s) => low'[Lower(s, Target(Op(s)))].inode # NoInode
    BY <1>1, <2>2, <2>5 DEF InStep, InodeOf
  <2> QED
    BY <1>3, <2>1, <2>2, <2>4, <2>6 DEF Lower
<1>6. ASSUME Reached(s, 1), up[call[s].du[1]].inode # NoInode
      PROVE  up'[call[s].du[1]].inode # NoInode
  <2>1. call[s].du[1] \in Uppers
    BY <1>1, <1>6 DEF UseOf
  <2>2. CASE up'[call[s].du[1]].inode # up[call[s].du[1]].inode
    <3>1. Stored(t, call[s].du[1]) /\ InodeOf(t)
      BY <1>2, <1>3, <2>1, <2>2 DEF Stored
    <3> QED
      BY <3>1, StoredIsOwn
  <2> QED
    BY <1>6, <2>2
<1>7. /\ call[s].cur = 2 => Reached(s, 1)
      /\ call[s].pc \in OpPcs \/ (At(s, "return") /\ call[s].rc) => Reached(s, 1)
  BY <1>1 DEF Reached, Calls
<1> QED
  BY <1>1, <1>4, <1>5, <1>6, <1>7 DEF InodeOf, Made, Op, At, Lower

LEMMA OtherSteady ==
  ASSUME RefsInv, RefsInv', PlaceInv, NEW t, Alone(t), InStep(t), NEW s \in Tasks \ {t}, SteadyOf(s)
  PROVE  SteadyOf(s)'
<1>1. call'[s] = call[s] /\ call[s] \in Calls /\ CallOf(s) /\ PlaceOf(s) /\ LocksOf(s) /\ InUse /\ InUse'
  BY UsedAreReferred, UsedWillBeReferred DEF Alone, RefsInv, Types, PlaceInv
<1> SUFFICES ASSUME call[s].pc \in {"lreval", "read", "add"} PROVE SteadyOf(s)'
  BY <1>1 DEF SteadyOf
<1>2. call[s].dl \in Lowers /\ low[call[s].dl].refs # 0 /\ low'[call[s].dl].refs # 0
  BY <1>1 DEF InUse, CallOf
<1>3. low[call[s].dl].at = Entry(s) /\ ulock[Entry(s)[1]] = s
  BY <1>1 DEF PlaceOf, LocksOf, LookPcs
<1>4. low'[call[s].dl].at = low[call[s].dl].at
  BY <1>2, <1>3 DEF InStep
<1> QED
  BY <1>1, <1>2, <1>4 DEF InStep, SteadyOf, Steady

\* A lofs dentry has the inode it had, or that of its lower dentry.
InodeStep ==
    \A u \in Uppers : up'[u].inode # NoInode =>
        /\ up'[u].lower \in Lowers
        /\ \/ up'[u].inode = up[u].inode /\ up'[u].lower = up[u].lower
           \/ low'[up'[u].lower].inode = up'[u].inode

LEMMA AgreeingKeeps ==
  ASSUME RefsInv, RefsInv', Agreeing, NEW t, InStep(t), InodeStep
  PROVE  Agreeing'
<1> SUFFICES ASSUME NEW u \in Uppers, up'[u].inode # NoInode,
                    up'[u].inode = up[u].inode, up'[u].lower = up[u].lower, up[u].lower \in Lowers
             PROVE  low'[up[u].lower].inode = up[u].inode
  BY DEF Agreeing, InodeStep
<1>1. low[up[u].lower].refs # 0 /\ low'[up[u].lower].refs # 0
  BY UsedAreReferred, UsedWillBeReferred DEF InUse
<1> QED
  BY <1>1 DEF Agreeing, InStep

\* A negative hashed dentry was one, or has a lower dentry that is in use.
HashStep(t) ==
    \A u \in Uppers : up'[u].hashed /\ up'[u].inode = NoInode =>
        \/ Steady(up[u].lower)'
        \/ Replaced(u)'
        \/ /\ up[u].hashed /\ up[u].inode = NoInode /\ up'[u].lower = up[u].lower
           /\ t \in Tasks /\ Renamed(t) /\ u = call[t].du[2] => Renamed(t)' /\ u = call'[t].du[2]
           /\ low'[up[u].lower].at = low[up[u].lower].at

LEMMA UpperSteadyKeeps ==
  ASSUME RefsInv, RefsInv', UpperSteady, NEW t, Alone(t), InStep(t), HashStep(t)
  PROVE  UpperSteady'
<1> SUFFICES ASSUME NEW u \in Uppers, up'[u].hashed, up'[u].inode = NoInode,
                    up[u].hashed, up[u].inode = NoInode, up'[u].lower = up[u].lower,
                    t \in Tasks /\ Renamed(t) /\ u = call[t].du[2] => Renamed(t)' /\ u = call'[t].du[2],
                    low'[up[u].lower].at = low[up[u].lower].at
             PROVE  Steady(up[u].lower)' \/ Replaced(u)'
  BY DEF HashStep, UpperSteady
<1>1. up[u].lower \in Lowers /\ low[up[u].lower].refs # 0 /\ low'[up[u].lower].refs # 0
  BY UsedAreReferred, UsedWillBeReferred DEF InUse, RefsInv, UpperDcache
<1>2. CASE Steady(up[u].lower)
  <2>1. low'[up[u].lower].hashed \/ low'[up[u].lower].stale \/ low'[up[u].lower].inode # NoInode
    BY <1>1, <1>2 DEF InStep, Steady
  <2> QED
    BY <2>1 DEF Steady
<1>3. CASE Replaced(u)
  <2>1. PICK s \in Tasks : Renamed(s) /\ u = call[s].du[2]
    BY <1>3 DEF Replaced
  <2>2. Renamed(s)' /\ u = call'[s].du[2]
    BY <2>1 DEF Alone, Renamed, Op
  <2> QED
    BY <2>2 DEF Replaced
<1> QED
  BY <1>2, <1>3 DEF UpperSteady

\* What a step of t does that keeps the rest of the invariant.
Footing(t) ==
    /\ Alone(t) /\ OthersUp(t) /\ UpStep(t) /\ HoldStep(t) /\ InStep(t)
    /\ SeenStep(t) /\ MadeStep(t) /\ InodeStep /\ HashStep(t)

OwnOf(t) == SteadyOf(t) /\ InodeOf(t) /\ WalkOf(t)

LEMMA WalksKeep ==
  ASSUME RefsInv, RefsInv', PlaceInv, WalksInv, NEW t, Footing(t), LowerSole', Coherent',
         t \in Tasks => OwnOf(t)'
  PROVE  WalksInv'
<1>1. \A s \in Tasks \ {t} : SteadyOf(s)' /\ InodeOf(s)' /\ WalkOf(s)'
  BY OtherWalks, OtherInodes, OtherSteady DEF WalksInv, Footing
<1>2. Agreeing' /\ UpperSteady'
  BY AgreeingKeeps, UpperSteadyKeeps DEF WalksInv, Footing
<1> QED
  BY <1>1, <1>2 DEF WalksInv, OwnOf

-----------------------------------------------------------------------------
(* Steps that change neither directories nor what dentries say.             *)

\* Dentries that are hashed, positive or of other calls stay what they are, but
\* may be unhashed.
CalmUp(t) ==
    /\ \A u \in Uppers : up'[u].inode # NoInode \/ up'[u].hashed =>
          up'[u].inode = up[u].inode /\ up'[u].lower = up[u].lower
    /\ NoneHashed
    /\ \A s \in Tasks \ {t}, k \in 1..2 : call[s].du[k] \in Uppers =>
          /\ up'[call[s].du[k]].inode = up[call[s].du[k]].inode
          /\ up'[call[s].du[k]].at = up[call[s].du[k]].at
          /\ up'[call[s].du[k]].lower = up[call[s].du[k]].lower

\* What t holds it held, or was in the dcache.
HoldsOn(t) ==
    t \in Tasks => \A k \in 1..2 : Holding(t, k)' =>
        LET u == call'[t].du[k]
        IN  /\ u \in Uppers /\ up'[u].lower = up[u].lower
            /\ (Holding(t, k) /\ call[t].du[k] = u) \/ up[u].hashed

\* The lower dentry of a lookup was the call's, or a hashed one.
LooksAt(t) ==
    t \in Tasks /\ call'[t].pc \in {"lreval", "read", "add"} =>
        \/ call[t].pc \in {"lreval", "read", "add"} /\ call'[t].dl = call[t].dl
        \/ call'[t].dl \in Lowers /\ low[call'[t].dl].hashed /\ low'[call'[t].dl].hashed

CalmCall(t) ==
    /\ Alone(t) /\ CalmUp(t) /\ HoldsOn(t) /\ KeepsRenaming(t)
    /\ content' = content /\ \A s \in Tasks \ {t} : seen'[s] = seen[s]
    /\ t \in Tasks => ~Made(t)'

CalmStep(t) == CalmCall(t) /\ LooksAt(t) /\ Fading

LEMMA CalmOthers ==
  ASSUME RefsInv, NEW t, CalmUp(t)
  PROVE  OthersUp(t)
<1>1. ASSUME NEW s \in Tasks \ {t}, NEW k \in 1..2, call[s].du[k] \in Uppers
      PROVE  /\ up'[call[s].du[k]].lower = up[call[s].du[k]].lower
             /\ up'[call[s].du[k]].at = up[call[s].du[k]].at /\ up[call[s].du[k]].at \in Entries
             /\ k = call[s].cur /\ call[s].pc \in LookPcs =>
                   up'[call[s].du[k]].inode = NoInode /\ ~up'[call[s].du[k]].hashed
  <2>1. UseOf(s) /\ FreshOf(s)
    BY DEF RefsInv
  <2> QED
    BY <1>1, <2>1 DEF CalmUp, NoneHashed, UseOf, FreshOf, Found
<1> QED
  BY <1>1 DEF OthersUp, CalmUp, NoneHashed

LEMMA CalmGuards ==
  ASSUME NEW t, CalmStep(t)
  PROVE  Guards(t)
<1>1. \A u \in Uppers : up'[u].hashed => Guarded(up'[u].lower)
  BY DEF CalmStep, CalmCall, CalmUp, NoneHashed, Guarded
<1>2. ASSUME t \in Tasks, NEW k \in 1..2, Holding(t, k)'
      PROVE  Guarded(Lower(t, k)')
  <2>1. Lower(t, k)' = up[call'[t].du[k]].lower /\ call'[t].du[k] \in Uppers
        /\ ((Holding(t, k) /\ call[t].du[k] = call'[t].du[k]) \/ up[call'[t].du[k]].hashed)
    BY <1>2 DEF CalmStep, CalmCall, HoldsOn, Lower
  <2> QED
    BY <1>2, <2>1 DEF Guarded, Lower
<1>3. t \in Tasks /\ call'[t].pc \in {"lreval", "read", "add"} => Guarded(call'[t].dl)
  BY DEF CalmStep, CalmCall, LooksAt, Guarded
<1> QED
  BY <1>1, <1>2, <1>3 DEF Guards

LEMMA CalmFooting ==
  ASSUME RefsInv, RefsInv', WalksInv, NEW t, CalmCall(t), InStep(t), AtStays
  PROVE  Footing(t)
<1>1. OthersUp(t) /\ Alone(t)
  BY CalmOthers DEF CalmCall
<1>2. UpStep(t)
  BY DEF UpStep, CalmCall, CalmUp, NoneHashed
<1>3. HoldStep(t) /\ MadeStep(t)
  BY DEF HoldStep, MadeStep, CalmCall, HoldsOn
<1>4. SeenStep(t)
  BY DEF SeenStep, CalmCall, WalksInv, WalkOf
<1>5. InodeStep
  <2> SUFFICES ASSUME NEW u \in Uppers, up'[u].inode # NoInode
               PROVE  up'[u].lower \in Lowers /\ up'[u].inode = up[u].inode /\ up'[u].lower = up[u].lower
    BY DEF InodeStep
  <2> QED
    BY DEF CalmCall, CalmUp, WalksInv, Agreeing
<1>6. HashStep(t)
  <2> SUFFICES ASSUME NEW u \in Uppers, up'[u].hashed, up'[u].inode = NoInode
               PROVE  /\ up[u].hashed /\ up[u].inode = NoInode /\ up'[u].lower = up[u].lower
                      /\ t \in Tasks /\ Renamed(t) /\ u = call[t].du[2] => Renamed(t)' /\ u = call'[t].du[2]
                      /\ low'[up[u].lower].at = low[up[u].lower].at
    BY DEF HashStep
  <2>1. up[u].hashed /\ up[u].inode = NoInode /\ up'[u].lower = up[u].lower
    BY DEF CalmCall, CalmUp, NoneHashed
  <2>2. up[u].lower \in Lowers /\ low'[up[u].lower].refs # 0
    BY <2>1, UsedWillBeReferred DEF InUse, RefsInv, UpperDcache
  <2>3. low[up[u].lower].refs # 0
    BY <2>2, UsedAreReferred DEF InUse
  <2> QED
    BY <2>1, <2>2, <2>3 DEF CalmCall, AtStays, KeepsRenaming
<1> QED
  BY <1>1, <1>2, <1>3, <1>4, <1>5, <1>6 DEF Footing

\* The lower dentry of a lookup stays steady.
LEMMA CalmSteady ==
  ASSUME RefsInv, RefsInv', WalksInv, NEW t \in Tasks, CalmStep(t)
  PROVE  SteadyOf(t)'
<1> SUFFICES ASSUME call'[t].pc \in {"lreval", "read", "add"} PROVE Steady(call[t].dl)'
  BY DEF SteadyOf
<1> SUFFICES ASSUME call[t].pc \in {"lreval", "read", "add"}, call'[t].dl = call[t].dl PROVE Steady(call[t].dl)'
  BY DEF CalmStep, CalmCall, LooksAt, Steady
<1>1. call[t].dl \in Lowers /\ low[call[t].dl].refs # 0 /\ low'[call[t].dl].refs # 0
  BY RefersTo, UsedWillBeReferred DEF InUse
<1>2. low'[call[t].dl].at # <<>>
  BY <1>1, UsedWillBeNamed, NoEntryIsEmpty DEF LowersNamed
<1>3. Steady(call[t].dl)
  BY DEF WalksInv, SteadyOf
<1> QED
  BY <1>1, <1>2, <1>3 DEF CalmStep, CalmCall, Fading, Steady

LEMMA CalmKeeps ==
  ASSUME RefsInv, RefsInv', PlaceInv, WalksInv, NEW t, CalmStep(t),
         t \in Tasks => InodeOf(t)' /\ WalkOf(t)'
  PROVE  WalksInv'
<1>1. LowerSole'
  BY SoleKeeps, CalmOthers, CalmGuards, FadesIn DEF CalmStep, CalmCall, WalksInv
<1>2. Coherent'
  BY FadesCoherent DEF CalmStep, CalmCall, WalksInv
<1>3. Footing(t)
  BY CalmFooting, FadesIn, FadesAtStays DEF CalmStep
<1> QED
  BY <1>1, <1>2, <1>3, CalmSteady, WalksKeep DEF OwnOf

-----------------------------------------------------------------------------
(* Walks that go on as they are.                                            *)

\* The dentries stay as they are.
LEMMA SameUps ==
  ASSUME RefsInv, NEW t, UNCHANGED <<up, low, content, seen>>, Alone(t), HoldsOn(t), LooksAt(t),
         KeepsRenaming(t), t \in Tasks => ~Made(t)'
  PROVE  CalmStep(t)
BY SameFades DEF CalmStep, CalmCall, CalmUp, NoneHashed

\* A walk that takes a dentry for valid takes what it says from the directory.
LEMMA ValidAnswers ==
  ASSUME RefsInv, WalksInv, NEW t \in Tasks, Op(t) = "walk", At(t, "reval"), Valid(call[t].du[1])
  PROVE  Answering(t, call[t].du[1])
<1> DEFINE u == call[t].du[1]
           l == up[u].lower
<1>1. u \in Uppers /\ l \in Lowers /\ low[l].at \in Entries
  <2>1. call[t] \in Calls /\ CallOf(t) /\ UseOf(t) /\ InUse
    BY UsedAreReferred DEF RefsInv, Types
  <2>2. Reached(t, 1)
    BY <2>1 DEF Reached, CallOf, Calls, Pair, At
  <2>3. u \in Uppers /\ l \in Lowers
    BY <2>1, <2>2 DEF UseOf, Lower
  <2> QED
    BY <2>1, <2>3, UsedAreNamed DEF InUse, LowersNamed
<1>2. ~low[l].stale /\ low[l].inode = up[u].inode /\ (up[u].inode # NoInode => low[l].hashed)
  BY DEF Valid
<1>3. up[u].inode \in seen[t]
  <2>1. Promising(t, u) /\ content[call[t].ent[1]] \in seen[t]
    BY DEF WalksInv, WalkOf, At
  <2>2. CASE low[l].hashed /\ low[l].at = call[t].ent[1]
    BY <1>1, <1>2, <2>1, <2>2 DEF WalksInv, Coherent
  <2> QED
    BY <1>2, <2>1, <2>2 DEF Promising
<1>4. ~\E s \in Tasks : MadeBy(s, u)
  BY <1>2 DEF WalksInv, InodeOf, MadeBy, Made, At, Lower
<1> QED
  BY <1>3, <1>4 DEF Answering

LEMMA QuietWalks ==
  ASSUME RefsInv, RefsInv', PlaceInv, WalksInv, NEW t \in Tasks, QuietStep(t), QuietCall(t), GoesOn(t),
         "busy" \notin scenario.others
  PROVE  WalksInv'
<1>1. /\ call[t] \in Calls /\ CallOf(t) /\ UseOf(t) /\ InodeOf(t) /\ WalkOf(t)
      /\ UNCHANGED <<up, low, content, seen>>
      /\ Alone(t) /\ call'[t].ent = call[t].ent /\ call'[t].op = call[t].op /\ call'[t].du = call[t].du
      /\ call'[t].cur = call[t].cur /\ call'[t].dl = call[t].dl /\ Op(t)' = Op(t)
      /\ \A k \in 1..2 : Reached(t, k)' => Reached(t, k)
      /\ call'[t].pc # "add"
      /\ call'[t].pc \in {"lreval", "read"} => call[t].pc \in {"lreval", "read"}
  BY DEF RefsInv, Types, WalksInv, QuietCall, SameCall, GoesOn, Op
<1>2. CalmStep(t)
  <2>1. HoldsOn(t)
    BY <1>1 DEF HoldsOn, Holding, LockedName, UseOf, Op
  <2>2. LooksAt(t)
    BY <1>1 DEF LooksAt
  <2>3. KeepsRenaming(t) /\ ~Made(t)'
    BY <1>1 DEF KeepsRenaming, Renamed, Made, QuietCall, Op, At, Making
  <2> QED
    BY <1>1, <2>1, <2>2, <2>3, SameUps
<1>3. InodeOf(t)'
  BY <1>1, <1>2 DEF InodeOf, CalmStep, CalmCall, QuietCall, Op, At, OpPcs, Lower, Made, Making, Removing
<1>4. WalkOf(t)'
  <2> SUFFICES ASSUME Op(t) = "walk" PROVE WalkOf(t)'
    BY <1>1 DEF WalkOf
  <2>1. call[t].cur = 1 /\ Found(t) = call[t].du[1]
    BY <1>1 DEF CallOf, Calls, Pair, Found
  <2>2. CASE RevalValid(t)
    <3>1. At(t, "reval") /\ call'[t].pc = "found" /\ Answering(t, call[t].du[1]) /\ ~At(t, "idle")
      BY <1>1, <2>1, <2>2, ValidAnswers DEF RevalValid, QuietCall, Goto, At
    <3>2. Answering(t, call[t].du[1])'
      <4>1. \A s \in Tasks : MadeBy(s, call[t].du[1])' => MadeBy(s, call[t].du[1])
        <5>1. ~Made(t)'
          BY <1>2 DEF CalmStep, CalmCall
        <5> QED
          BY <1>1, <5>1 DEF MadeBy, Made, Alone, Op, At
      <4> QED
        BY <1>1, <3>1, <4>1 DEF Answering
    <3>3. Around(t, call[t].du[1])'
      <4>1. \A s \in Tasks, k \in 1..2 : Holding(s, k)' => Holding(s, k) /\ call'[s].du = call[s].du
        BY <1>1 DEF Holding, LockedName, Reached, Alone, At, Op
      <4> QED
        BY <1>1, <3>1, <4>1 DEF WalkOf, Around, At
    <3> QED
      BY <1>1, <3>1, <3>2, <3>3 DEF WalkOf, Finding, At
  <2>3. CASE LookupLowerValid(t)
    <3>1. At(t, "lreval") /\ ~low[call[t].dl].stale /\ call'[t].pc = "read"
      BY <1>1, <2>3 DEF LookupLowerValid, LookupGoesOn, QuietCall, At
    <3> QED
      BY <1>1, <3>1 DEF WalkOf, Finding, At
  <2>4. CASE WalkEnds(t)
    <3>1. At(t, "found") /\ call'[t].li = up[call[t].du[1]].inode /\ call'[t].pc = "return"
      BY <1>1, <2>1, <2>4 DEF WalkEnds, RefsInv, Types
    <3> QED
      BY <1>1, <3>1 DEF WalkOf, Finding, Answering, At
  <2>5. CASE ~RevalValid(t) /\ ~LookupLowerValid(t) /\ ~WalkEnds(t)
    <3>1. RevalError(t) \/ AddOops(t)
      BY <1>1, <2>5 DEF QuietStep, LinkSource, Refused, LockParents, VfsOops, VfsFails, FinishRename,
        Goto, At, CallOf, OpPcs
    <3>2. \/ call'[t].pc = "return" /\ ~call'[t].rc
          \/ call'[t].pc = "null_inode"
      <4>1. call \in [Tasks -> Calls] /\ {"return", "null_inode"} \subseteq Pcs
        BY DEF RefsInv, Types, Pcs
      <4>2. CASE RevalError(t)
        BY <4>1, <4>2, PcRcStep DEF RevalError
      <4>3. CASE AddOops(t)
        BY <4>1, <4>3, PcStep DEF AddOops, Goto
      <4> QED
        BY <3>1, <4>2, <4>3
    <3>3. ~At(t, "idle")
      BY <3>1 DEF RevalError, AddOops, Goto, At
    <3> QED
      BY <1>1, <3>2, <3>3 DEF WalkOf, Finding, At
  <2> QED
    BY <2>2, <2>3, <2>4, <2>5
<1> QED
  BY <1>2, <1>3, <1>4, CalmKeeps

\* A rename that is done holds both its dentries.
LEMMA RenamedHolds ==
  ASSUME RefsInv, NEW t \in Tasks, Renamed(t), NEW k \in 1..2
  PROVE  Holding(t, k) /\ call[t].du[k] \in Uppers /\ up[call[t].du[k]].at = call[t].ent[k]
         /\ ulock[call[t].ent[k][1]] = t
<1>1. CallOf(t) /\ LocksOf(t) /\ SoleOf(t) /\ UseOf(t) /\ call[t] \in Calls
  BY DEF RefsInv, Types
<1>2. call[t].cur = 2 /\ LockedName(t, k) /\ Reached(t, k)
  BY <1>1 DEF Renamed, CallOf, LockedName, Reached, At, OpPcs, Pair
<1>3. Under(t, k)
  BY <1>2 DEF Under
<1> QED
  BY <1>1, <1>2, <1>3, UnderIsLocked DEF Holding, SoleOf, UseOf

\* What the dcache has for an entry that no rename has locked is where the
\* entry is, and is positive or steady.
LEMMA CachedPromises ==
  ASSUME RefsInv, PlaceInv, WalksInv, NEW u \in Uppers, up[u].hashed,
         \A s \in Tasks, k \in 1..2 : Renamed(s) => u # call[s].du[k]
  PROVE  \/ up[u].inode # low[up[u].lower].inode
         \/ low[up[u].lower].stale
         \/ low[up[u].lower].at = up[u].at /\ (low[up[u].lower].hashed \/ up[u].inode # NoInode)
<1>1. low[up[u].lower].at = up[u].at
  BY DEF PlaceInv, Placed
<1>2. ~Replaced(u)
  BY DEF Replaced
<1> QED
  BY <1>1, <1>2 DEF WalksInv, UpperSteady, Steady

\* A walk counts a file that is renamed at e as seen there.
LEMMA RenamedIsViewed ==
  ASSUME NEW s \in Tasks, NEW k \in 1..2, Renamed(s)
  PROVE  up[call[s].du[k]].inode \in Views(call[s].ent[k])
<1> DEFINE e == call[s].ent[k]
           T == {t \in Tasks : Op(t) = "rename" /\ call[t].rc /\ call[t].pc \in {"finish", "put", "return"}}
           F(t) == {up[call[t].du[j]].inode : j \in {j \in 1..2 : call[t].ent[j] = e}}
<1>1. s \in T /\ up[call[s].du[k]].inode \in F(s)
  BY DEF Renamed
<1>2. up[call[s].du[k]].inode \in UNION {F(t) : t \in T}
  <2> HIDE DEF T, F
  <2> QED
    BY <1>1
<1> QED
  BY <1>2 DEF Views

LEMMA BeginWalks ==
  ASSUME RefsInv, PlaceInv, WalksInv, NEW t \in Tasks, NEW o \in OpNames, NEW e \in scenario.entries,
         NEW f \in scenario.entries, Begin(t, o, e, f)
  PROVE  WalksInv'
<1> DEFINE path == o \in {"walk", "link"}
           u == UpperAt(e)
           x == IF path THEN u ELSE NoDentry
           p == IF path /\ u # NoDentry THEN "reval" ELSE "lock"
<1>1. RefsInv' /\ call[t] = Idle /\ e \in Entries /\ f \in Entries /\ call \in [Tasks -> Calls]
  BY BeginKeeps, EntriesInUse DEF RefsInv, Types
<1>2. x \in Uppers \cup {NoDentry} /\ p \in Pcs /\ p \in {"reval", "lock"}
      /\ (p = "reval" => path /\ x \in Uppers /\ up[x].hashed /\ up[x].at = e)
  BY UpperFound, Numbers DEF Pcs
<1>3. BegunCall(t, p, o, e, f, x)
  <2> HIDE DEF x, p
  <2>1. call[t].du[1] = NoDentry
    BY <1>1 DEF Idle
  <2>2. call' = [call EXCEPT ![t].pc = p, ![t].op = o, ![t].ent = <<e, f>>, ![t].du[1] = x]
    BY <2>1 DEF Begin, x, p
  <2> QED
    BY <1>1, <1>2, <2>2, BeginCall
<1> HIDE DEF x, p
<1>4. /\ Alone(t) /\ call'[t].pc = p /\ call'[t].op = o /\ call'[t].ent = <<e, f>>
      /\ call'[t].du[1] = x /\ call'[t].cur = 1
  BY <1>3 DEF BegunCall
<1>5. UNCHANGED <<content, low, up>> /\ \A s \in Tasks \ {t} : seen'[s] = seen[s]
  BY DEF Begin, RefsInv, Types
<1>6. CalmStep(t)
  <2>1. ~Renamed(t) /\ ~Made(t)'
    BY <1>1, <1>2, <1>4 DEF Renamed, Made, Idle, At
  <2>2. \A k \in 1..2 : ~Holding(t, k)'
    BY <1>2, <1>4 DEF Holding, LockedName, Reached, At, Op, OpPcs
  <2> QED
    BY <1>2, <1>4, <1>5, <2>1, <2>2, SameFades
       DEF CalmStep, CalmCall, CalmUp, NoneHashed, HoldsOn, LooksAt, KeepsRenaming
<1>7. InodeOf(t)'
  BY <1>2, <1>4 DEF InodeOf, At, Op, OpPcs, Made
<1>8. WalkOf(t)'
  <2> SUFFICES ASSUME o = "walk" PROVE WalkOf(t)'
    BY <1>4 DEF WalkOf, Op
  <2>1. seen'[t] = Views(e) /\ call'[t].ent[1] = e
    BY <1>4 DEF Begin, RefsInv, Types
  <2>2. content[e] \in Views(e)
    BY DEF Views
  <2>3. ASSUME p = "reval" PROVE Around(t, call[t].du[1])' /\ Promising(t, call[t].du[1])'
    <3>1. x \in Uppers /\ up[x].hashed /\ up[x].at = e
      BY <1>2, <2>3
    <3>2. ASSUME NEW s \in Tasks, NEW k \in 1..2, Renamed(s), x = call[s].du[k]
          PROVE  up[x].inode \in Views(e)
      <4>1. call[s].ent[k] = e
        BY <3>1, <3>2, RenamedHolds
      <4> QED
        BY <3>2, <4>1, RenamedIsViewed
    <3>3. \/ up[x].inode \in Views(e)
          \/ up[x].inode # low[up[x].lower].inode
          \/ low[up[x].lower].stale
          \/ low[up[x].lower].at = e /\ (low[up[x].lower].hashed \/ up[x].inode # NoInode)
      BY <3>1, <3>2, CachedPromises
    <3> QED
      BY <1>4, <1>5, <2>1, <3>1, <3>3 DEF Around, Promising
  <2> QED
    BY <1>2, <1>4, <1>5, <2>1, <2>2, <2>3 DEF WalkOf, Finding, At
<1> QED
  BY <1>1, <1>6, <1>7, <1>8, CalmKeeps

-----------------------------------------------------------------------------
(* Names that are taken up.                                                 *)

LEMMA ReleaseFades ==
  ASSUME RefsInv, NEW f, Release(f, call')
  PROVE  Fading /\ Kept(f)
<1> DEFINE holding == {u \in Unused(f, call') : f[u].lower # NoDentry}
           g == [l \in Lowers |-> [low[l] EXCEPT !.refs = @ - Cardinality({u \in holding : f[u].lower = l})]]
<1>1. low' = Settled(g) /\ up' = [u \in Uppers |-> IF u \in Unused(f, call') THEN FreeUpper ELSE f[u]]
  BY DEF Release
<1>2. low \in [Lowers -> LowerRecs]
  BY DEF RefsInv, Types, LowerRecs
<1>3. ASSUME NEW l \in Lowers
      PROVE  /\ g[l].at = low[l].at /\ g[l].inode = low[l].inode
             /\ g[l].stale = low[l].stale /\ g[l].hashed = low[l].hashed
  BY <1>2 DEF LowerRecs
<1>4. Kept(f)
  BY <1>1 DEF Kept, Unused
<1> HIDE DEF g
<1> QED
  BY <1>1, <1>3, <1>4, FadesIf

LEMMA NewIsCalm ==
  ASSUME RefsInv, NEW t \in Tasks, NEW k \in 1..2, NEW g, NewDentry(t, k, g),
         g = up \/ (Found(t) \in Uppers /\ g = Unhash(up, Found(t))),
         NameCall(t, "dlookup", k, call'[t].du[k])
  PROVE  /\ CalmUp(t) /\ Fading
         /\ \A j \in 1..2 : j # k /\ call[t].du[j] \in Uppers =>
               up'[call[t].du[j]].inode = up[call[t].du[j]].inode
<1> DEFINE u == Some(FreeUppers)
           f == [g EXCEPT ![u].at = call[t].ent[k]]
<1>1. u \in Uppers /\ up[u] = FreeUpper /\ Release(f, call')
  <2>1. FreeUppers # {} /\ Release(f, [call EXCEPT ![t].pc = "dlookup", ![t].cur = k, ![t].du[k] = u])
    BY DEF NewDentry
  <2>2. u \in FreeUppers
    BY <2>1, SomeIsIn
  <2> HIDE DEF u, f
  <2>3. Release(f, call')
    BY <2>1 DEF Release
  <2> QED
    BY <2>2, <2>3 DEF FreeUppers
<1> HIDE DEF u
<1>2. up \in [Uppers -> UpperDentries]
  BY DEF RefsInv, Types
<1>3. g \in [Uppers -> UpperDentries]
      /\ \A w \in Uppers : /\ g[w].at = up[w].at /\ g[w].inode = up[w].inode /\ g[w].lower = up[w].lower
                           /\ g[w].hashed => up[w].hashed
  <2>1. CASE g = up
    BY <1>2, <2>1
  <2>2. CASE Found(t) \in Uppers /\ g = Unhash(up, Found(t))
    <3>1. g = [up EXCEPT ![Found(t)].hashed = FALSE]
      BY <2>2, Numbers DEF Unhash
    <3>2. up[Found(t)] \in UpperDentries
      BY <1>2, <2>2
    <3> DEFINE r == [up[Found(t)] EXCEPT !.hashed = FALSE]
    <3>3. /\ r \in UpperDentries /\ r.at = up[Found(t)].at /\ r.inode = up[Found(t)].inode
          /\ r.lower = up[Found(t)].lower /\ ~r.hashed
      BY <3>2 DEF UpperDentries
    <3>4. g = [up EXCEPT ![Found(t)] = r]
      BY <3>1
    <3> HIDE DEF r
    <3> QED
      BY <1>2, <2>2, <3>3, <3>4
  <2> QED
    BY <2>1, <2>2
<1>4. \A w \in Uppers : /\ w # u => f[w] = g[w]
                        /\ f[w].inode = up[w].inode /\ f[w].lower = up[w].lower
                        /\ f[w].hashed => up[w].hashed /\ w # u
  BY <1>1, <1>2, <1>3, FreesAreFree DEF UpperDentries
<1> HIDE DEF f
<1>5. Fading /\ Kept(f)
  BY <1>1, ReleaseFades
<1>6. \A s \in Tasks, j \in 1..2 : call[s].du[j] \in Uppers => call[s].du[j] # u
  BY <1>1, FreesAreFree, NoEntryIsEmpty DEF RefsInv, UseOf
<1>7. ASSUME NEW s \in Tasks, NEW j \in 1..2, ~(s = t /\ j = k), call[s].du[j] \in Uppers
      PROVE  /\ up'[call[s].du[j]].inode = up[call[s].du[j]].inode
             /\ up'[call[s].du[j]].at = up[call[s].du[j]].at
             /\ up'[call[s].du[j]].lower = up[call[s].du[j]].lower
  <2>1. call'[s].du[j] = call[s].du[j]
    BY <1>7 DEF NameCall, Alone
  <2>2. up'[call[s].du[j]] = f[call[s].du[j]]
    BY <1>5, <1>7, <2>1 DEF Kept
  <2> QED
    BY <1>3, <1>4, <1>6, <1>7, <2>2
<1>8. NoneHashed /\ \A w \in Uppers : up'[w].inode # NoInode \/ up'[w].hashed =>
                       up'[w].inode = up[w].inode /\ up'[w].lower = up[w].lower
  BY <1>3, <1>4, <1>5, FreesAreFree DEF Kept, NoneHashed
<1> QED
  BY <1>5, <1>7, <1>8 DEF CalmUp

LEMMA NamingWalks ==
  ASSUME RefsInv, RefsInv', PlaceInv, WalksInv, NEW t \in Tasks, NEW k \in 1..2,
         Settles(t, k), TakesUp(t, k), Fading, CalmUp(t), UNCHANGED <<content, seen>>,
         \A j \in 1..2 : j # k /\ call[t].du[j] \in Uppers =>
            up'[call[t].du[j]].inode = up[call[t].du[j]].inode,
         \/ call[t].pc \in {"lock", "reval"} /\ k = call[t].cur
         \/ call[t].pc = "found" /\ call[t].cur = 1 /\ k = 2 /\ Op(t) = "rename",
         Op(t) = "walk" /\ call'[t].pc = "reval" => ulock[call[t].ent[k][1]] = NoOne
  PROVE  WalksInv'
<1>1. /\ call[t] \in Calls /\ CallOf(t) /\ UseOf(t) /\ InodeOf(t) /\ WalkOf(t) /\ call[t].cur \in 1..2
  BY DEF RefsInv, Types, WalksInv, Calls
<1>2. PICK p \in {"dlookup", "lock", "reval"}, u \in {call'[t].du[k]} : NameCall(t, p, k, u)
        /\ (p = "reval" => u \in Uppers /\ up' = up /\ low' = low /\ up[u].hashed /\ up[u].at = call[t].ent[k])
  BY DEF TakesUp, NameCall
<1>3. /\ Alone(t) /\ call'[t].pc = p /\ call'[t].cur = k /\ call'[t].du[k] = u
      /\ call'[t].op = call[t].op /\ call'[t].ent = call[t].ent
      /\ \A j \in 1..2 : j # k => call'[t].du[j] = call[t].du[j]
  BY <1>2 DEF NameCall
<1>4. CalmStep(t)
  <2>1. HoldsOn(t)
    <3> SUFFICES ASSUME NEW j \in 1..2, Holding(t, j)'
                 PROVE  /\ call'[t].du[j] \in Uppers /\ up'[call'[t].du[j]].lower = up[call'[t].du[j]].lower
                        /\ (Holding(t, j) /\ call[t].du[j] = call'[t].du[j]) \/ up[call'[t].du[j]].hashed
      BY DEF HoldsOn
    <3>1. CASE j = k
      <4>1. p = "reval"
        BY <1>3, <3>1 DEF Holding, Reached, At, OpPcs
      <4> QED
        BY <1>2, <1>3, <3>1, <4>1
    <3>2. CASE j # k
      <4>1. j = 1 /\ k = 2 /\ LockedName(t, 1) /\ Op(t) # "link"
        BY <1>3, <3>2 DEF Holding, Reached, LockedName, At, Op
      <4>2. Reached(t, 1)
        BY <1>1, <4>1 DEF Reached, CallOf, At
      <4>3. call[t].du[1] \in Uppers /\ call'[t].du[1] = call[t].du[1]
        BY <1>1, <1>3, <4>1, <4>2 DEF UseOf
      <4> QED
        BY <4>1, <4>2, <4>3 DEF Settles, Holding
    <3> QED
      BY <3>1, <3>2
  <2>2. ~Renamed(t) /\ ~Made(t)' /\ LooksAt(t)
    BY <1>2, <1>3 DEF Renamed, Made, LooksAt, At
  <2> QED
    BY <1>3, <2>1, <2>2 DEF CalmStep, CalmCall, KeepsRenaming
<1>5. InodeOf(t)'
  <2>1. ASSUME Op(t) = "link", k = 2 PROVE up'[call'[t].du[1]].inode # NoInode
    <3>1. call[t].cur = 2 /\ Reached(t, 1)
      BY <1>1, <2>1 DEF Reached
    <3> QED
      BY <1>1, <1>3, <2>1, <3>1 DEF UseOf, InodeOf
  <2> QED
    BY <1>2, <1>3, <2>1 DEF InodeOf, Made, At, Op, OpPcs
<1>6. WalkOf(t)'
  <2> SUFFICES ASSUME Op(t) = "walk" PROVE WalkOf(t)'
    BY <1>3 DEF WalkOf, Op
  <2>1. k = 1 /\ ~At(t, "idle")
    BY <1>1 DEF CallOf, Pair, At
  <2>2. ASSUME p = "reval" PROVE Around(t, call[t].du[1])' /\ Promising(t, call[t].du[1])'
    <3>1. \A s \in Tasks, j \in 1..2 : Renamed(s) => u # call[s].du[j]
      BY <1>2, <1>3, <2>1, <2>2, RenamedHolds, NoOneIsNoTask
    <3>2. \/ up[u].inode # low[up[u].lower].inode
          \/ low[up[u].lower].stale
          \/ low[up[u].lower].at = up[u].at /\ (low[up[u].lower].hashed \/ up[u].inode # NoInode)
      BY <1>2, <2>2, <3>1, CachedPromises
    <3> QED
      BY <1>2, <1>3, <2>1, <2>2, <3>2 DEF Around, Promising
  <2> QED
    BY <1>1, <1>2, <1>3, <2>1, <2>2 DEF WalkOf, Finding, At
<1> QED
  BY <1>4, <1>5, <1>6, CalmKeeps

LEMMA LockWalks ==
  ASSUME RefsInv, PlaceInv, WalksInv, NEW t \in Tasks, Lock(t) \/ SecondName(t)
  PROVE  WalksInv'
<1> DEFINE k == IF At(t, "lock") THEN call[t].cur ELSE 2
<1>1. /\ k \in 1..2 /\ call[t] \in Calls /\ CallOf(t) /\ LocksOf(t)
      /\ RefsInv' /\ NameTaken(t, k) /\ TakeName(t, k) /\ UNCHANGED <<content, seen>>
      /\ \/ Lock(t) /\ call[t].pc = "lock" /\ k = call[t].cur
         \/ SecondName(t) /\ call[t].pc = "found" /\ call[t].cur = 1 /\ k = 2 /\ Op(t) = "rename"
  BY LockKeeps, SecondNameKeeps DEF RefsInv, Types, Calls, Lock, SecondName, At, below
<1> HIDE DEF k
<1>2. Lock(t) => ulock[call[t].ent[k][1]] = NoOne
  <2> SUFFICES ASSUME Lock(t) PROVE ulock[call[t].ent[k][1]] = NoOne
    OBVIOUS
  <2>1. \A d \in UpperDirs(t) : ulock[d] = NoOne
    BY DEF Lock
  <2>2. call[t].pc = "lock" /\ k = call[t].cur
    BY <1>1 DEF Lock, SecondName, At
  <2>3. Op(t) = "rename" => k = 1
    BY <1>1, <2>2 DEF CallOf, At, Calls
  <2>4. call[t].ent[k][1] \in UpperDirs(t)
    BY <2>2, <2>3 DEF UpperDirs, Entry
  <2> QED
    BY <2>1, <2>4
<1>3. TakesUp(t, k) /\ Settles(t, k)
  <2>1. LockedName(t, k) => ulock[call[t].ent[k][1]] \in {NoOne, t}
    BY <1>1, <1>2 DEF LocksOf, LockedName, Pair
  <2> QED
    BY <1>1, <2>1 DEF TakesUp, NameTaken
<1>4. /\ CalmUp(t) /\ Fading
      /\ \A j \in 1..2 : j # k /\ call[t].du[j] \in Uppers =>
            up'[call[t].du[j]].inode = up[call[t].du[j]].inode
  <2>1. CASE TakeCached(t, k)
    <3>1. up' = up /\ low' = low
      BY <2>1 DEF TakeCached
    <3> QED
      BY <3>1, SameFades DEF CalmUp, NoneHashed
  <2>2. CASE NewDentry(t, k, up)
    <3>1. NameCall(t, "dlookup", k, call'[t].du[k])
      <4>1. call \in [Tasks -> Calls] /\ "dlookup" \in Pcs
        BY DEF RefsInv, Types, Pcs
      <4>2. call' = [call EXCEPT ![t].pc = "dlookup", ![t].cur = k, ![t].du[k] = Some(FreeUppers)]
            /\ Some(FreeUppers) \in Uppers
        BY <2>2, SomeIsIn DEF NewDentry, Release, FreeUppers
      <4>3. NameCall(t, "dlookup", k, Some(FreeUppers))
        BY <1>1, <4>1, <4>2, NameStep
      <4> QED
        BY <4>3 DEF NameCall
    <3> QED
      BY <1>1, <2>2, <3>1, NewIsCalm
  <2> QED
    BY <1>1, <2>1, <2>2 DEF TakeName
<1>5. Op(t) = "walk" => Lock(t)
  BY <1>1
<1> QED
  BY <1>1, <1>2, <1>3, <1>4, <1>5, NamingWalks

LEMMA RevalWalks ==
  ASSUME RefsInv, PlaceInv, WalksInv, NEW t \in Tasks, RevalInvalid(t)
  PROVE  WalksInv'
<1> DEFINE k == call[t].cur
           f == Unhash(up, Found(t))
<1>1. /\ k = call[t].cur /\ k \in 1..2 /\ CallOf(t) /\ RefsInv' /\ Settles(t, k) /\ call[t].pc = "reval"
      /\ \/ NameCall(t, "dlookup", k, call'[t].du[k])
         \/ Walking(t) /\ NameCall(t, "lock", k, NoDentry)
      /\ Found(t) \in Uppers /\ Found(t) = call[t].du[k] /\ up \in [Uppers -> UpperDentries]
  BY RevalInvalidKeeps DEF RefsInv, Types, Calls, CallOf, Found
<1>2. /\ UNCHANGED <<content, seen>>
      /\ IF Walking(t) THEN Release(f, [call EXCEPT ![t].pc = "lock", ![t].du[k] = NoDentry])
         ELSE NewDentry(t, k, f)
  BY DEF RevalInvalid, below
<1> HIDE DEF k
<1>3. CASE ~Walking(t)
  <2>1. NameCall(t, "dlookup", k, call'[t].du[k]) /\ NewDentry(t, k, f)
    BY <1>1, <1>2, <1>3
  <2>2. /\ CalmUp(t) /\ Fading
        /\ \A j \in 1..2 : j # k /\ call[t].du[j] \in Uppers =>
              up'[call[t].du[j]].inode = up[call[t].du[j]].inode
    BY <1>1, <2>1, NewIsCalm
  <2>3. TakesUp(t, k) /\ call'[t].pc = "dlookup"
    BY <2>1 DEF TakesUp, NameCall
  <2> QED
    BY <1>1, <1>2, <2>2, <2>3, NamingWalks
<1>4. CASE Walking(t)
  <2> HIDE DEF f
  <2>1. Release(f, call') /\ call' = [call EXCEPT ![t].pc = "lock", ![t].cur = k, ![t].du[k] = NoDentry]
    <3>0. call[t] \in Calls
      BY DEF RefsInv, Types
    <3>1. call' = [call EXCEPT ![t].pc = "lock", ![t].du[k] = NoDentry]
      BY <1>2, <1>4 DEF Release
    <3>2. [call[t] EXCEPT !.pc = "lock", !.cur = k, !.du[k] = NoDentry] = [call[t] EXCEPT !.pc = "lock", !.du[k] = NoDentry]
      BY <1>1, <3>0 DEF Calls
    <3>3. Release(f, call')
      BY <1>2, <1>4, <3>1
    <3> QED
      BY <3>1, <3>2, <3>3
  <2>2. NameCall(t, "lock", k, NoDentry)
    <3>1. call \in [Tasks -> Calls] /\ "lock" \in Pcs
      BY DEF RefsInv, Types, Pcs
    <3> QED
      BY <1>1, <2>1, <3>1, NameStep
  <2>3. Fading /\ Kept(f)
    BY <2>1, ReleaseFades
  <2>4. up[Found(t)] \in UpperDentries /\ UseOf(t)
    BY <1>1 DEF RefsInv
  <2>5. Fades(f)
    BY <1>1, <2>4, UnhashFades, NoEntryIsEmpty DEF UseOf, f
  <2>6. \A w \in Uppers : f[w].inode = up[w].inode
    <3>1. f = [up EXCEPT ![Found(t)] = [up[Found(t)] EXCEPT !.hashed = FALSE]]
      BY <1>1, Numbers DEF Unhash, f
    <3>2. [up[Found(t)] EXCEPT !.hashed = FALSE].inode = up[Found(t)].inode
      BY <2>4 DEF UpperDentries
    <3> QED
      BY <1>1, <3>1, <3>2
  <2>7. ASSUME NEW s \in Tasks, NEW j \in 1..2, ~(s = t /\ j = k), call[s].du[j] \in Uppers
        PROVE  up'[call[s].du[j]] = f[call[s].du[j]]
    BY <2>2, <2>3, <2>7 DEF Kept, NameCall, Alone
  <2>8. CalmUp(t)
    <3>1. \A w \in Uppers : up'[w].inode # NoInode \/ up'[w].hashed => up'[w] = f[w]
      BY <2>3, FreesAreFree DEF Kept
    <3> QED
      BY <2>5, <2>6, <2>7, <3>1 DEF CalmUp, NoneHashed, Fades
  <2>9. TakesUp(t, k) /\ call'[t].pc = "lock"
    BY <1>4, <2>2 DEF TakesUp, NameCall
  <2> QED
    BY <1>1, <1>2, <2>3, <2>6, <2>7, <2>8, <2>9, NamingWalks
<1> QED
  BY <1>3, <1>4

-----------------------------------------------------------------------------
(* Lookups that leave the lofs dentries alone.                              *)

LEMMA RefFields ==
  ASSUME NEW f, f \in [Lowers -> LowerRecs], NEW l \in Lowers, NEW g \in {Dget(f, l), Dput(f, l)}
  PROVE  /\ g \in [Lowers -> LowerRecs]
         /\ \A m \in Lowers : /\ g[m].at = f[m].at /\ g[m].inode = f[m].inode
                              /\ g[m].stale = f[m].stale /\ g[m].hashed = f[m].hashed
BY DEF Dget, Dput, LowerRecs

LEMMA UnhashFields ==
  ASSUME NEW f, f \in [Lowers -> LowerRecs], NEW x \in Lowers \cup {NoDentry}
  PROVE  /\ Unhash(f, x) \in [Lowers -> LowerRecs]
         /\ \A m \in Lowers : /\ Unhash(f, x)[m].at = f[m].at /\ Unhash(f, x)[m].inode = f[m].inode
                              /\ Unhash(f, x)[m].stale = f[m].stale /\ Unhash(f, x)[m].refs = f[m].refs
                              /\ Unhash(f, x)[m].hashed <=> f[m].hashed /\ m # x
BY Numbers DEF Unhash, LowerRecs

\* A hashed dentry that stays hashed stays what it is, and says what is there.
LEMMA HashedSays ==
  ASSUME RefsInv', WalksInv, Fading, NEW l \in Lowers, low[l].hashed, low'[l].hashed
  PROVE  low'[l].inode = low[l].inode /\ low'[l].stale = low[l].stale
         /\ (low[l].stale \/ content[low[l].at] = low[l].inode)
<1>1. low'[l].at # <<>>
  BY UsedWillBeNamed, NoEntryIsEmpty DEF LowersNamed
<1> QED
  BY <1>1 DEF Fading, WalksInv, Coherent

LEMMA LooksCalmly ==
  ASSUME RefsInv, RefsInv', PlaceInv, WalksInv, NEW t \in Tasks, call[t].pc \in LookPcs,
         Fading, UNCHANGED <<up, content, seen>>,
         \/ EndCall(t, FALSE) \/ \E m : LookCall(t, "relook", m)
         \/ \E p \in {"lreval", "read"}, l \in Lowers :
               /\ LookCall(t, p, l) /\ low[l].hashed /\ low'[l].hashed /\ low[l].at = Entry(t)
               /\ p = "read" => ~low[l].stale
  PROVE  WalksInv'
<1>1. /\ call[t] \in Calls /\ CallOf(t) /\ UseOf(t) /\ InodeOf(t) /\ WalkOf(t) /\ call[t].cur \in 1..2
  BY DEF RefsInv, Types, WalksInv, Calls
<1>2. /\ Alone(t) /\ call'[t].ent = call[t].ent /\ call'[t].op = call[t].op /\ call'[t].du = call[t].du
      /\ call'[t].cur = call[t].cur
      /\ \/ call'[t].pc = "return" /\ ~call'[t].rc
         \/ call'[t].pc = "relook"
         \/ /\ call'[t].pc \in {"lreval", "read"} /\ call'[t].dl \in Lowers
            /\ low[call'[t].dl].hashed /\ low'[call'[t].dl].hashed
            /\ low[call'[t].dl].at = Entry(t)
            /\ call'[t].pc = "read" => ~low[call'[t].dl].stale
  BY DEF EndCall, LookCall
<1>3. CalmStep(t)
  <2>1. HoldsOn(t)
    <3> SUFFICES ASSUME NEW k \in 1..2, Holding(t, k)' PROVE Holding(t, k) /\ call[t].du[k] \in Uppers
      BY <1>2 DEF HoldsOn
    <3>1. k < call[t].cur
      BY <1>2 DEF Holding, Reached, At, OpPcs
    <3> QED
      BY <1>1, <1>2, <3>1 DEF Holding, Reached, LockedName, UseOf, Op
  <2>2. ~Renamed(t) /\ ~Made(t)' /\ LooksAt(t)
    BY <1>2 DEF Renamed, Made, LooksAt, At, LookPcs
  <2>3. CalmUp(t)
    BY DEF CalmUp, NoneHashed
  <2> QED
    BY <1>2, <2>1, <2>2, <2>3 DEF CalmStep, CalmCall, KeepsRenaming
<1>4. InodeOf(t)'
  BY <1>1, <1>2 DEF InodeOf, Made, At, Op, OpPcs
<1>5. WalkOf(t)'
  <2> SUFFICES ASSUME Op(t) = "walk" PROVE WalkOf(t)'
    BY <1>2 DEF WalkOf, Op
  <2>1. call[t].cur = 1 /\ ~At(t, "idle") /\ Entry(t) = call[t].ent[1]
    BY <1>1 DEF CallOf, Pair, At, LookPcs, Entry
  <2>2. call'[t].pc \in {"lreval", "read"} => Finding(t, call[t].dl)'
    BY <1>1, <1>2, <2>1, HashedSays DEF Finding, At, WalkOf
  <2> QED
    BY <1>1, <1>2, <2>1, <2>2 DEF WalkOf, Finding, At
<1> QED
  BY <1>3, <1>4, <1>5, CalmKeeps

\* What lofs_lookup does with a lower dentry of the dcache.
LEMMA CachedWalks ==
  ASSUME RefsInv, PlaceInv, WalksInv, NEW t \in Tasks, LookupCached(t)
  PROVE  WalksInv'
<1> DEFINE l == LowerAt(Entry(t))
<1>1. /\ RefsInv' /\ LookCall(t, "lreval", l) /\ l \in Lowers /\ call[t].pc \in LookPcs
      /\ low[l].hashed /\ low[l].at = Entry(t)
      /\ low' = Dget(low, l) /\ UNCHANGED <<up, content, seen>> /\ low \in [Lowers -> LowerRecs]
  BY LookupCachedKeeps, LowerFound
     DEF LookupCached, LookupGoesOn, below, At, LookPcs, RefsInv, Types, LowerRecs
<1> HIDE DEF l
<1>2. \A m \in Lowers : /\ low'[m].at = low[m].at /\ low'[m].inode = low[m].inode
                        /\ low'[m].stale = low[m].stale /\ low'[m].hashed = low[m].hashed
  BY <1>1, RefFields
<1>3. Fading
  BY <1>2, FadesIf
<1> QED
  BY <1>1, <1>2, <1>3, LooksCalmly

LEMMA StopWalks ==
  ASSUME RefsInv, PlaceInv, WalksInv, NEW t \in Tasks,
         LookupLowerError(t) \/ InterposeFails(t) \/ AddFails(t) \/ LookupLowerInvalid(t)
  PROVE  WalksInv'
<1>1. /\ RefsInv' /\ call[t].pc \in LookPcs /\ UNCHANGED <<up, content, seen>>
      /\ EndCall(t, FALSE) \/ LookCall(t, "relook", NoDentry)
      /\ low \in [Lowers -> LowerRecs]
  <2>1. call[t].pc \in LookPcs /\ UNCHANGED <<up, content, seen>>
    BY DEF LookupLowerError, InterposeFails, AddFails, LookupLowerInvalid, LookupEnds, LookupGoesOn,
           below, At, LookPcs
  <2> QED
    BY <2>1, LookupLowerErrorKeeps, AddFailsKeeps, LookupLowerInvalidKeeps DEF RefsInv, Types, LowerRecs
<1>2. Fading
  <2>1. CASE AddFails(t)
    BY <2>1, SameFades DEF AddFails
  <2>2. CASE LookupLowerError(t) \/ InterposeFails(t)
    <3>1. call[t].dl \in Lowers /\ low' = Settled(Dput(low, call[t].dl))
      BY <2>2 DEF LookupLowerError, InterposeFails, At, RefsInv, CallOf
    <3> QED
      BY <1>1, <3>1, RefFields, FadesIf
  <2>3. CASE LookupLowerInvalid(t)
    <3> DEFINE l == call[t].dl
               f == Unhash(low, l)
    <3>1. l \in Lowers /\ low[l].stale /\ low' = Settled(Dput(f, l))
      BY <2>3 DEF LookupLowerInvalid, At, RefsInv, CallOf
    <3>2. f \in [Lowers -> LowerRecs]
          /\ \A m \in Lowers : /\ f[m].at = low[m].at /\ f[m].inode = low[m].inode /\ f[m].stale = low[m].stale
                               /\ f[m].hashed <=> low[m].hashed /\ m # l
      BY <1>1, <3>1, UnhashFields
    <3> HIDE DEF f, l
    <3>3. \A m \in Lowers : /\ Dput(f, l)[m].at = f[m].at /\ Dput(f, l)[m].inode = f[m].inode
                            /\ Dput(f, l)[m].stale = f[m].stale /\ Dput(f, l)[m].hashed = f[m].hashed
      BY <3>1, <3>2, RefFields
    <3> QED
      BY <3>1, <3>2, <3>3, FadesIf
  <2> QED
    BY <2>1, <2>2, <2>3
<1> QED
  BY <1>1, <1>2, LooksCalmly

\* Before lofs_lookup has found a lower dentry only hashed ones have the name.
LEMMA NobodyHas ==
  ASSUME RefsInv, PlaceInv, NEW t \in Tasks, call[t].pc \in {"dlookup", "relook"},
         NEW l \in Lowers, low[l].at = Entry(t)
  PROVE  /\ \A u \in Uppers : up[u].hashed => up[u].lower # l
         /\ \A s \in Tasks, k \in 1..2 : Holding(s, k) => Lower(s, k) # l
         /\ \A s \in Tasks : call[s].pc \in {"lreval", "read", "add"} => call[s].dl # l
<1>1. /\ call[t] \in Calls /\ CallOf(t) /\ LocksOf(t) /\ FreshOf(t) /\ SoleOf(t) /\ call[t].cur \in 1..2
      /\ ulock[Entry(t)[1]] = t /\ Under(t, call[t].cur) /\ ~Renamed(t)
      /\ ~At(t, "idle")
  BY DEF RefsInv, Types, Calls, LocksOf, LookPcs, Under, Renamed, At
<1>2. ASSUME NEW s \in Tasks, NEW k \in 1..2, Holding(s, k), Lower(s, k) = l PROVE FALSE
  <2>1. /\ ulock[call[s].ent[k][1]] = s
        /\ low[l].at = call[s].ent[IF Renamed(s) THEN 3 - k ELSE k]
    BY <1>2, HeldAt
  <2>2. ~Renamed(s)
    <3> SUFFICES ASSUME Renamed(s) PROVE FALSE
      OBVIOUS
    <3>1. 3 - k \in 1..2
      OBVIOUS
    <3>2. ulock[call[s].ent[3 - k][1]] = s
      BY <3>1, RenamedHolds
    <3> QED
      BY <1>1, <2>1, <3>2
  <2>3. s = t /\ call[t].ent[k] = call[t].ent[call[t].cur]
    BY <1>1, <2>1, <2>2 DEF Entry
  <2>4. k = 1 /\ call[t].cur = 2
    BY <1>1, <1>2, <2>3 DEF Holding, Reached, At, OpPcs
  <2> QED
    BY <1>1, <2>3, <2>4 DEF CallOf
<1>3. ASSUME NEW u \in Uppers, up[u].hashed, up[u].lower = l PROVE FALSE
  <2>1. CASE up[u].at = low[l].at
    <3>1. u = Found(t)
      BY <1>1, <1>3, <2>1 DEF SoleOf, Entry, Found
    <3> QED
      BY <1>1, <1>3, <3>1 DEF FreshOf, LookPcs
  <2>2. CASE \E s \in Tasks, k \in 1..2 : Renamed(s) /\ u = call[s].du[k]
    <3>1. PICK s \in Tasks, k \in 1..2 : Renamed(s) /\ u = call[s].du[k]
      BY <2>2
    <3>2. Holding(s, k) /\ Lower(s, k) = l
      BY <1>3, <3>1, RenamedHolds DEF Lower
    <3> QED
      BY <1>2, <3>2
  <2> QED
    BY <1>3, <2>1, <2>2 DEF PlaceInv, Placed
<1>4. ASSUME NEW s \in Tasks, call[s].pc \in {"lreval", "read", "add"}, call[s].dl = l PROVE FALSE
  <2>1. PlaceOf(s) /\ LocksOf(s)
    BY DEF PlaceInv, RefsInv
  <2>2. low[l].at = Entry(s) /\ ulock[Entry(s)[1]] = s
    BY <1>4, <2>1 DEF PlaceOf, LocksOf, LookPcs
  <2> QED
    BY <1>1, <1>4, <2>2
<1> QED
  BY <1>2, <1>3, <1>4

\* lookup_one_len makes n.
NewLower(t, n) ==
    /\ low[n] = FreeLower
    /\ low'[n].at = Entry(t) /\ low'[n].inode = content[Entry(t)] /\ low'[n].hashed /\ ~low'[n].stale
    /\ \A m \in Lowers \ {n} : low'[m].at # <<>> \/ low[m].refs # 0 =>
          /\ low'[m].at = low[m].at /\ low'[m].inode = low[m].inode /\ low'[m].stale = low[m].stale
          /\ low'[m].hashed => low[m].hashed /\ low[m].at # Entry(t)
          /\ low[m].hashed /\ ~low'[m].hashed => low[m].stale

LEMMA NewLowerSole ==
  ASSUME RefsInv, RefsInv', PlaceInv, LowerSole, NEW t \in Tasks, call[t].pc \in {"dlookup", "relook"},
         NEW n \in Lowers, NewLower(t, n), LookCall(t, "read", n), up' = up
  PROVE  LowerSole'
<1> SUFFICES ASSUME NEW l \in Lowers, Guarded(l)', NEW m \in Lowers, low'[m].hashed, low'[m].at = low'[l].at
             PROVE  m = l
  BY DEF LowerSole, SoleBelow
<1>1. low'[l].at \in Entries /\ low'[m].at \in Entries
  BY GuardedWillBeNamed, UsedWillBeNamed DEF GuardedInUse, LowersNamed
<1>2. CASE l = n
  BY <1>1, <1>2, NoEntryIsEmpty DEF NewLower
<1>3. CASE l # n
  <2>1. /\ low'[l].at = low[l].at /\ (low'[l].hashed => low[l].hashed /\ low[l].at # Entry(t))
    BY <1>1, <1>3, NoEntryIsEmpty DEF NewLower
  <2>2. \/ low'[l].hashed
        \/ \E u \in Uppers : up[u].hashed /\ up[u].lower = l
        \/ \E s \in Tasks, k \in 1..2 : Holding(s, k) /\ Lower(s, k) = l
        \/ \E s \in Tasks : call[s].pc \in {"lreval", "read", "add"} /\ call[s].dl = l
    <3>1. \A s \in Tasks : s # t => call'[s] = call[s]
      BY DEF LookCall, Alone
    <3>2. \A s \in Tasks : call'[s].du = call[s].du /\ call'[s].op = call[s].op /\ call'[s].cur = call[s].cur
      BY <3>1 DEF LookCall
    <3>3. \A s \in Tasks, k \in 1..2 : Holding(s, k)' => Holding(s, k)
      <4> SUFFICES ASSUME NEW s \in Tasks, NEW k \in 1..2, Holding(s, k)' PROVE Holding(s, k)
        OBVIOUS
      <4>1. CASE s = t
        BY <3>2, <4>1 DEF Holding, Reached, LockedName, At, Op, OpPcs, LookCall
      <4>2. CASE s # t
        BY <3>1, <4>2 DEF Holding, Reached, LockedName, At, Op
      <4> QED
        BY <4>1, <4>2
    <3>4. \A s \in Tasks, k \in 1..2 : Lower(s, k)' = Lower(s, k)
      BY <3>2 DEF Lower
    <3>5. \A s \in Tasks : call'[s].pc \in {"lreval", "read", "add"} /\ call'[s].dl = l => s # t
      BY <1>3 DEF LookCall
    <3> QED
      BY <3>1, <3>3, <3>4, <3>5 DEF Guarded
  <2>3. Guarded(l)
    BY <2>1, <2>2 DEF Guarded
  <2>4. low[l].at # Entry(t)
    BY <2>1, <2>2, NobodyHas
  <2>5. m # n /\ low[m].hashed /\ low[m].at = low[l].at
    BY <1>1, <2>1, <2>4, NoEntryIsEmpty DEF NewLower
  <2> QED
    BY <2>3, <2>5 DEF LowerSole, SoleBelow
<1> QED
  BY <1>2, <1>3

LEMMA NewLowerWalks ==
  ASSUME RefsInv, RefsInv', PlaceInv, WalksInv, NEW t \in Tasks, call[t].pc \in {"dlookup", "relook"},
         NEW n \in Lowers, NewLower(t, n), LookCall(t, "read", n), UNCHANGED <<up, content, seen>>
  PROVE  WalksInv'
<1>1. /\ call[t] \in Calls /\ CallOf(t) /\ UseOf(t) /\ InodeOf(t) /\ WalkOf(t) /\ call[t].cur \in 1..2
  BY DEF RefsInv, Types, WalksInv, Calls
<1>2. /\ Alone(t) /\ call'[t].ent = call[t].ent /\ call'[t].op = call[t].op /\ call'[t].du = call[t].du
      /\ call'[t].cur = call[t].cur /\ call'[t].pc = "read" /\ call'[t].dl = n
  BY DEF LookCall
<1>3. CalmCall(t)
  <2>1. HoldsOn(t)
    <3> SUFFICES ASSUME NEW k \in 1..2, Holding(t, k)' PROVE Holding(t, k) /\ call[t].du[k] \in Uppers
      BY <1>2 DEF HoldsOn
    <3>1. k < call[t].cur
      BY <1>2 DEF Holding, Reached, At, OpPcs
    <3> QED
      BY <1>1, <1>2, <3>1 DEF Holding, Reached, LockedName, UseOf, Op
  <2>2. ~Renamed(t) /\ ~Made(t)'
    BY <1>2 DEF Renamed, Made, At
  <2>3. CalmUp(t)
    BY DEF CalmUp, NoneHashed
  <2> QED
    BY <1>2, <2>1, <2>2, <2>3 DEF CalmCall, KeepsRenaming
<1>4. InStep(t) /\ AtStays
  BY FreesAreFree DEF NewLower, InStep, AtStays
<1>5. Footing(t)
  BY <1>3, <1>4, CalmFooting
<1>6. Coherent'
  <2> SUFFICES ASSUME NEW l \in Lowers, low'[l].hashed, ~low'[l].stale PROVE content[low'[l].at] = low'[l].inode
    BY DEF Coherent
  <2>1. low'[l].at # <<>>
    BY UsedWillBeNamed, NoEntryIsEmpty DEF LowersNamed
  <2> QED
    BY <2>1 DEF NewLower, WalksInv, Coherent
<1>7. SteadyOf(t)'
  BY <1>2 DEF SteadyOf, Steady, NewLower
<1>8. InodeOf(t)'
  BY <1>1, <1>2 DEF InodeOf, Made, At, Op, OpPcs
<1>9. WalkOf(t)'
  <2> SUFFICES ASSUME Op(t) = "walk" PROVE WalkOf(t)'
    BY <1>2 DEF WalkOf, Op
  <2>1. call[t].cur = 1 /\ ~At(t, "idle") /\ Entry(t) = call[t].ent[1]
    BY <1>1 DEF CallOf, Pair, At, Entry
  <2> QED
    BY <1>1, <1>2, <2>1 DEF WalkOf, Finding, At, NewLower
<1>10. LowerSole'
  BY NewLowerSole DEF WalksInv
<1> QED
  BY <1>5, <1>6, <1>7, <1>8, <1>9, <1>10, WalksKeep DEF OwnOf

LEMMA OneLenWalks ==
  ASSUME RefsInv, PlaceInv, WalksInv, NEW t \in Tasks, call[t].pc \in {"dlookup", "relook"}, LookupOneLen(t)
  PROVE  WalksInv'
<1> DEFINE e == Entry(t)
           c == LowerAt(e)
           n == Some(FreeLowers)
           valid == c # NoDentry /\ ~low[c].stale
           rest == IF valid THEN low ELSE Unhash(low, c)
           rec == [at |-> e, inode |-> content[e], hashed |-> TRUE, stale |-> FALSE, refs |-> 1]
<1>1. /\ call[t].pc \in LookPcs /\ RefsInv' /\ low \in [Lowers -> LowerRecs] /\ call \in [Tasks -> Calls]
      /\ {"read", "return"} \subseteq Pcs
  BY LookupOneLenKeeps DEF LookPcs, RefsInv, Types, LowerRecs, Pcs
<1>2. c \in Lowers \cup {NoDentry} /\ (c \in Lowers => low[c].hashed /\ low[c].at = e)
      /\ (c = NoDentry => \A l \in Lowers : ~(low[l].hashed /\ low[l].at = e))
  BY LowerFound
<1>3. \/ valid /\ low' = Dget(low, c) /\ LookupGoesOn(t, "read", c)
      \/ /\ ~valid /\ FreeLowers # {} /\ low' = Settled([rest EXCEPT ![n] = rec])
         /\ LookupGoesOn(t, "read", n)
      \/ low' = Settled(rest) /\ LookupEnds(t, FALSE) /\ UNCHANGED <<up, mntRefs>>
  BY DEF LookupOneLen
<1>4. n = Some(FreeLowers) /\ e = Entry(t)
  OBVIOUS
<1> HIDE DEF e, c, n
<1>5. rest \in [Lowers -> LowerRecs]
      /\ \A m \in Lowers : /\ rest[m].at = low[m].at /\ rest[m].inode = low[m].inode
                           /\ rest[m].stale = low[m].stale /\ rest[m].refs = low[m].refs
                           /\ rest[m].hashed => low[m].hashed
                           /\ ~valid /\ rest[m].hashed => m # c
                           /\ low[m].hashed /\ ~rest[m].hashed => low[m].stale
  <2>1. CASE valid
    BY <1>1, <2>1
  <2>2. CASE ~valid
    <3>1. rest = Unhash(low, c) /\ (c \in Lowers => low[c].stale)
      BY <1>2, <2>2, Numbers
    <3>2. /\ Unhash(low, c) \in [Lowers -> LowerRecs]
          /\ \A m \in Lowers : /\ Unhash(low, c)[m].at = low[m].at /\ Unhash(low, c)[m].inode = low[m].inode
                               /\ Unhash(low, c)[m].stale = low[m].stale /\ Unhash(low, c)[m].refs = low[m].refs
                               /\ Unhash(low, c)[m].hashed <=> low[m].hashed /\ m # c
      BY <1>1, <1>2, UnhashFields
    <3> HIDE DEF rest
    <3> QED
      BY <2>2, <3>1, <3>2
  <2> QED
    BY <2>1, <2>2
<1> HIDE DEF rest
<1>6. CASE valid /\ low' = Dget(low, c) /\ LookupGoesOn(t, "read", c)
  <2>1. c \in Lowers /\ ~low[c].stale /\ low[c].hashed /\ low[c].at = Entry(t)
    BY <1>2, <1>4, <1>6
  <2>2. LookCall(t, "read", c) /\ UNCHANGED <<up, content, seen>>
    BY <1>1, <1>6, <2>1, LookStep DEF LookupGoesOn, below
  <2>3. \A m \in Lowers : /\ low'[m].at = low[m].at /\ low'[m].inode = low[m].inode
                          /\ low'[m].stale = low[m].stale /\ low'[m].hashed = low[m].hashed
    BY <1>1, <1>6, <2>1, RefFields
  <2>4. Fading
    BY <2>3, FadesIf
  <2> QED
    BY <1>1, <2>1, <2>2, <2>3, <2>4, LooksCalmly
<1>7. CASE /\ ~valid /\ FreeLowers # {} /\ low' = Settled([rest EXCEPT ![n] = rec])
           /\ LookupGoesOn(t, "read", n)
  <2>1. n \in Lowers /\ low[n] = FreeLower
    BY <1>4, <1>7, SomeIsIn DEF FreeLowers
  <2>2. LookCall(t, "read", n) /\ UNCHANGED <<up, content, seen>>
    BY <1>1, <1>7, <2>1, LookStep DEF LookupGoesOn, below
  <2>3. rec.refs = 1 /\ rec.at = e /\ rec.inode = content[e] /\ rec.hashed /\ ~rec.stale
    OBVIOUS
  <2> HIDE DEF rec
  <2>4. \A m \in Lowers : low'[m] = LET x == IF m = n THEN rec ELSE rest[m]
                                    IN  IF x.refs = 0 /\ ~x.hashed THEN FreeLower ELSE x
    BY <1>5, <1>7, <2>1 DEF Settled
  <2>5. low'[n] = rec
    BY <2>1, <2>3, <2>4
  <2>6. ASSUME NEW m \in Lowers \ {n}, low'[m].at # <<>> \/ low[m].refs # 0
        PROVE  low'[m] = rest[m] /\ (low'[m].hashed => low[m].hashed /\ low[m].at # e)
    <3>1. low'[m] = rest[m]
      BY <1>5, <2>4, <2>6, FreesAreFree
    <3>2. low[m].hashed /\ low[m].at = e => m = c
      <4>1. low[m].hashed /\ low[m].at = e => c \in Lowers /\ low[c].hashed /\ low[c].at = e
        BY <1>2
      <4> QED
        BY <4>1 DEF WalksInv, LowerSole, SoleBelow, Guarded
    <3> QED
      BY <1>5, <1>7, <3>1, <3>2
  <2>7. NewLower(t, n)
    BY <1>4, <1>5, <2>1, <2>3, <2>5, <2>6 DEF NewLower
  <2> QED
    BY <1>1, <2>1, <2>2, <2>7, NewLowerWalks
<1>8. CASE low' = Settled(rest) /\ LookupEnds(t, FALSE) /\ UNCHANGED <<up, mntRefs>>
  <2>1. EndCall(t, FALSE) /\ UNCHANGED <<up, content, seen>>
    BY <1>1, <1>8, EndStep DEF LookupEnds, below
  <2>2. Fading
    BY <1>5, <1>8, FadesIf
  <2> QED
    BY <1>1, <2>1, <2>2, LooksCalmly
<1> QED
  BY <1>3, <1>6, <1>7, <1>8

-----------------------------------------------------------------------------
(* lofs_lookup_and_interpose_lower.                                         *)

LEMMA InterposeWalks ==
  ASSUME RefsInv, PlaceInv, WalksInv, NEW t \in Tasks, InterposeRead(t)
  PROVE  WalksInv'
<1> DEFINE u == Found(t)
<1>1. /\ RefsInv' /\ SameCall(t) /\ call'[t].pc = "add" /\ call[t].pc = "read"
      /\ \A w \in Uppers \ {u} : up'[w] = up[w]
      /\ low' = low /\ content' = content /\ seen' = seen
  BY InterposeReadKeeps DEF InterposeRead, At, below
<1>2. /\ call[t] \in Calls /\ CallOf(t) /\ UseOf(t) /\ FreshOf(t) /\ InodeOf(t) /\ WalkOf(t)
      /\ SteadyOf(t) /\ call[t].cur \in 1..2 /\ u \in Uppers /\ call[t].dl \in Lowers
  BY <1>1 DEF RefsInv, Types, WalksInv, Calls, CallOf, LookPcs
<1>3. call'[t].li = low[call[t].dl].inode
  BY <1>2 DEF InterposeRead, RefsInv, Types
<1>4. /\ up[u].inode = NoInode /\ ~up[u].hashed /\ up'[u].inode = NoInode /\ ~up'[u].hashed
      /\ \A s \in Tasks, k \in 1..2 : call[s].du[k] = u => s = t /\ k = call[t].cur
  BY <1>1, <1>2 DEF FreshOf, LookPcs, InterposeRead, RefsInv, Types
<1> HIDE DEF u
<1>5. /\ Alone(t) /\ call'[t].ent = call[t].ent /\ call'[t].op = call[t].op /\ call'[t].du = call[t].du
      /\ call'[t].cur = call[t].cur /\ call'[t].dl = call[t].dl
  BY <1>1 DEF SameCall
<1>6. CalmStep(t)
  <2>1. HoldsOn(t)
    <3> SUFFICES ASSUME NEW k \in 1..2, Holding(t, k)'
                 PROVE  Holding(t, k) /\ call[t].du[k] \in Uppers /\ call[t].du[k] # u
      BY <1>1, <1>5 DEF HoldsOn
    <3>1. k < call[t].cur
      BY <1>1, <1>5 DEF Holding, Reached, At, OpPcs
    <3> QED
      BY <1>2, <1>4, <1>5, <3>1 DEF Holding, Reached, LockedName, UseOf, Op
  <2>2. ~Renamed(t) /\ ~Made(t)' /\ LooksAt(t)
    BY <1>1, <1>5 DEF Renamed, Made, LooksAt, At
  <2>3. CalmUp(t)
    BY <1>1, <1>4 DEF CalmUp, NoneHashed
  <2> QED
    BY <1>1, <1>5, <2>1, <2>2, <2>3, SameFades DEF CalmStep, CalmCall, KeepsRenaming
<1>7. InodeOf(t)'
  <2>1. Op(t) = "link" /\ call[t].cur = 2 => up'[call[t].du[1]].inode # NoInode
    <3>1. call[t].cur = 2 => call[t].du[1] \in Uppers /\ call[t].du[1] # u
      BY <1>2, <1>4 DEF UseOf, Reached
    <3> QED
      BY <1>1, <1>2, <3>1 DEF InodeOf
  <2> QED
    BY <1>1, <1>3, <1>5, <2>1 DEF InodeOf, Made, At, Op, OpPcs
<1>8. WalkOf(t)'
  BY <1>1, <1>2, <1>3, <1>5 DEF WalkOf, Finding, At, Op
<1> QED
  BY <1>1, <1>6, <1>7, <1>8, CalmKeeps

-----------------------------------------------------------------------------
(* Operations that take and put references, and what is pruned.             *)

LEMMA LinkWalks ==
  ASSUME RefsInv, PlaceInv, WalksInv, NEW t \in Tasks, LinkSource(t), Positive(t, 1)
  PROVE  WalksInv'
<1>1. /\ RefsInv' /\ NameCall(t, "lock", 2, call[t].du[2]) /\ Op(t) = "link" /\ call[t].pc = "found"
      /\ UNCHANGED <<up, low, content, seen>>
  BY LinkGoesOn DEF LinkSource, At, below
<1>2. /\ Alone(t) /\ call'[t].op = "link" /\ call'[t].pc = "lock" /\ call'[t].cur = 2
      /\ call'[t].du[1] = call[t].du[1]
  BY <1>1 DEF NameCall, Op
<1>3. CalmStep(t)
  <2>1. HoldsOn(t)
    BY <1>2 DEF HoldsOn, Holding, Reached, LockedName, At, Op, OpPcs
  <2>2. LooksAt(t) /\ KeepsRenaming(t) /\ ~Made(t)'
    BY <1>1, <1>2 DEF LooksAt, KeepsRenaming, Renamed, Made, At, Op
  <2> QED
    BY <1>1, <1>2, <2>1, <2>2, SameUps
<1>4. InodeOf(t)' /\ WalkOf(t)'
  BY <1>1, <1>2 DEF InodeOf, WalkOf, Positive, Made, At, Op, OpPcs, Making, Removing
<1> QED
  BY <1>1, <1>3, <1>4, CalmKeeps

\* An operation takes or puts references: the dentries stay as they are.
LEMMA DirWalks ==
  ASSUME RefsInv, RefsInv', PlaceInv, WalksInv, NEW t \in Tasks, NEW p \in {"plock", "return"}, NEW D,
         DirCall(t, p, call[t].rc, D), UNCHANGED <<up, content, seen>>, Fading, Op(t) # "walk",
         p = "plock" => LastFound(t) /\ Permitted(t),
         p = "return" => call[t].pc = "put"
  PROVE  WalksInv'
<1>1. /\ call[t] \in Calls /\ CallOf(t) /\ UseOf(t) /\ InodeOf(t)
      /\ Alone(t) /\ call'[t].op = call[t].op /\ call'[t].du = call[t].du
      /\ call'[t].cur = call[t].cur /\ call'[t].rc = call[t].rc /\ call'[t].pc = p
  BY DEF RefsInv, Types, WalksInv, DirCall
<1>2. \A k \in 1..2 : Reached(t, k)' => Reached(t, k)
  BY <1>1 DEF Reached, At, LastFound, OpPcs
<1>3. CalmStep(t)
  <2>1. HoldsOn(t)
    BY <1>1, <1>2 DEF HoldsOn, Holding, LockedName, UseOf, Op
  <2>2. LooksAt(t) /\ KeepsRenaming(t) /\ ~Made(t)'
    BY <1>1 DEF LooksAt, KeepsRenaming, Renamed, Made, At, Op, LastFound
  <2>3. CalmUp(t)
    BY DEF CalmUp, NoneHashed
  <2> QED
    BY <1>1, <2>1, <2>2, <2>3 DEF CalmStep, CalmCall
<1>4. InodeOf(t)'
  <2>1. CASE p = "return"
    BY <1>1, <2>1 DEF InodeOf, Made, At, Op, OpPcs
  <2>2. CASE p = "plock"
    <3>1. Permitted(t) /\ LastFound(t)
      BY <2>2
    <3>2. CASE Op(t) \in Making /\ ~Positive(t, Target(Op(t)))
      BY <1>1, <2>2, <3>2 DEF InodeOf, Made, At, Op, Positive, Making, Removing
    <3>3. CASE Op(t) \in Removing \cup {"rename"} /\ Positive(t, 1)
      BY <1>1, <2>2, <3>3 DEF InodeOf, Made, At, Op, Positive, Making, Removing
    <3> QED
      BY <3>1, <3>2, <3>3 DEF Permitted, Removing
  <2> QED
    BY <2>1, <2>2
<1>5. WalkOf(t)'
  BY <1>1 DEF WalkOf, Op
<1> QED
  BY <1>3, <1>4, <1>5, CalmKeeps

LEMMA TakeWalks ==
  ASSUME RefsInv, PlaceInv, WalksInv, NEW t \in Tasks, TakeParents(t) \/ RenamePut(t)
  PROVE  WalksInv'
<1>1. low \in [Lowers -> LowerRecs] /\ CallOf(t)
  BY DEF RefsInv, Types, LowerRecs
<1>2. CASE TakeParents(t)
  <2> DEFINE f == [l \in Lowers |-> [low[l] EXCEPT !.refs = @ + Held(t, l)]]
  <2>1. /\ RefsInv' /\ DirCall(t, "plock", call[t].rc, Taken(t)) /\ LastFound(t) /\ Permitted(t)
        /\ UNCHANGED <<up, content, seen>> /\ Op(t) # "walk" /\ low' = f
    BY <1>2, TakeParentsKeeps DEF TakeParents, below, Permitted, Making, Removing
  <2>2. \A l \in Lowers : /\ f[l].at = low[l].at /\ f[l].inode = low[l].inode
                          /\ f[l].stale = low[l].stale /\ f[l].hashed = low[l].hashed
    BY <1>1 DEF LowerRecs
  <2> HIDE DEF f
  <2>3. Fading
    BY <2>1, <2>2, FadesIf
  <2> QED
    BY <2>1, <2>3, DirWalks
<1>3. CASE RenamePut(t)
  <2> DEFINE f == [l \in Lowers |-> [low[l] EXCEPT !.refs = @ - Held(t, l)]]
  <2>1. /\ RefsInv' /\ DirCall(t, "return", call[t].rc, <<>>) /\ call[t].pc = "put"
        /\ UNCHANGED <<up, content, seen>> /\ Op(t) # "walk" /\ low' = Settled(f)
    BY <1>1, <1>3, RenamePutKeeps DEF RenamePut, below, At, LetGo, CallOf, OpPcs
  <2>2. \A l \in Lowers : /\ f[l].at = low[l].at /\ f[l].inode = low[l].inode
                          /\ f[l].stale = low[l].stale /\ f[l].hashed = low[l].hashed
    BY <1>1 DEF LowerRecs
  <2> HIDE DEF f
  <2>3. Fading
    BY <2>1, <2>2, FadesIf
  <2> QED
    BY <2>1, <2>3, DirWalks
<1> QED
  BY <1>2, <1>3

LEMMA PruneWalks ==
  ASSUME RefsInv, PlaceInv, WalksInv,
         (\E u \in Uppers : UpperPrune(u)) \/ (\E l \in Lowers : LowerPrune(l))
  PROVE  WalksInv'
<1>1. CASE \E u \in Uppers : UpperPrune(u)
  <2>1. PICK u \in Uppers : UpperPrune(u)
    BY <1>1
  <2> DEFINE f == Unhash(up, u)
  <2>2. RefsInv' /\ call' = call /\ UNCHANGED <<content, seen>> /\ Release(f, call')
    BY <2>1, UpperPruneKeeps DEF UpperPrune, below, Release
  <2>3. \A s \in Tasks, k \in 1..2 : call[s].du[k] # u
    BY <2>1 DEF UpperPrune
  <2>4. \A w \in Uppers : /\ f[w].at = up[w].at /\ f[w].inode = up[w].inode /\ f[w].lower = up[w].lower
                          /\ f[w].hashed => up[w].hashed
                          /\ w # u => f[w] = up[w]
    BY Numbers DEF Unhash, RefsInv, Types, UpperDentries
  <2> HIDE DEF f
  <2>5. Fading /\ Kept(f)
    BY <2>2, ReleaseFades
  <2>6. CalmUp(NoOne)
    BY <2>2, <2>3, <2>4, <2>5, FreesAreFree DEF CalmUp, NoneHashed, Kept
  <2>7. CalmStep(NoOne)
    BY <2>2, <2>5, <2>6, NoOneIsNoTask DEF CalmStep, CalmCall, Alone, HoldsOn, KeepsRenaming, LooksAt
  <2> QED
    BY <2>2, <2>7, NoOneIsNoTask, CalmKeeps
<1>2. CASE \E l \in Lowers : LowerPrune(l)
  <2>1. PICK l \in Lowers : LowerPrune(l)
    BY <1>2
  <2>2. /\ RefsInv' /\ UNCHANGED <<up, call, content, seen>> /\ low' = Settled(Unhash(low, l))
        /\ low[l].refs = 0 \/ low[l].stale
    BY <2>1, LowerPruneKeeps DEF LowersOnly, LowerPrune, below
  <2>3. \A m \in Lowers :
           /\ Unhash(low, l)[m].at = low[m].at /\ Unhash(low, l)[m].inode = low[m].inode
           /\ Unhash(low, l)[m].stale = low[m].stale
           /\ Unhash(low, l)[m].hashed <=> low[m].hashed /\ m # l
    BY UnhashFields DEF RefsInv, Types, LowerRecs
  <2>4. Fading
    BY <2>2, <2>3, FadesIf
  <2>5. CalmStep(NoOne)
    BY <2>2, <2>4, NoOneIsNoTask
       DEF CalmStep, CalmCall, CalmUp, NoneHashed, Alone, HoldsOn, KeepsRenaming, LooksAt
  <2> QED
    BY <2>2, <2>5, NoOneIsNoTask, CalmKeeps
<1> QED
  BY <1>1, <1>2

-----------------------------------------------------------------------------
(* The dentry that was looked up is hashed.                                 *)

LEMMA AddWalks ==
  ASSUME RefsInv, PlaceInv, WalksInv, NEW t \in Tasks, AddNegative(t) \/ AddPositive(t)
  PROVE  WalksInv'
<1> DEFINE u == Found(t)
           l == call[t].dl
<1>1. /\ RefsInv' /\ EndCall(t, TRUE) /\ low' = low /\ call[t].pc = "add"
      /\ up'[u].lower = l /\ up'[u].at = Entry(t) /\ \A w \in Uppers \ {u} : up'[w] = up[w]
      /\ content' = content /\ seen' = seen
  BY AddKeeps DEF AddNegative, AddPositive, LookupEnds, At, below
<1>2. /\ call[t] \in Calls /\ CallOf(t) /\ UseOf(t) /\ FreshOf(t) /\ InodeOf(t) /\ WalkOf(t)
      /\ SteadyOf(t) /\ call[t].cur \in 1..2 /\ u \in Uppers /\ l \in Lowers
  BY <1>1 DEF RefsInv, Types, WalksInv, Calls, CallOf, LookPcs
<1>3. /\ up[u].inode = NoInode /\ ~up[u].hashed /\ up[u].lower = l /\ up[u].at = Entry(t)
      /\ \A s \in Tasks, k \in 1..2 : call[s].du[k] = u => s = t /\ k = call[t].cur
  BY <1>1, <1>2 DEF FreshOf, LookPcs
<1>4. up'[u].hashed /\ up'[u].inode = low[l].inode
  <2>1. up \in [Uppers -> UpperDentries]
    BY DEF RefsInv, Types
  <2>2. CASE AddNegative(t)
    BY <1>2, <1>3, <2>1, <2>2 DEF AddNegative, UpperDentries
  <2>3. CASE AddPositive(t)
    BY <1>1, <1>2, <2>1, <2>3 DEF AddPositive, InodeOf, At, UpperDentries
  <2> QED
    BY <2>2, <2>3
<1>5. /\ Alone(t) /\ call'[t].ent = call[t].ent /\ call'[t].op = call[t].op /\ call'[t].du = call[t].du
      /\ call'[t].cur = call[t].cur /\ call'[t].pc = "found"
  BY <1>1 DEF EndCall
<1>6. call[t].du[call[t].cur] = u /\ call'[t].du[call[t].cur] = u /\ u' = u
  BY <1>5 DEF Found
<1> HIDE DEF u, l
<1>7. \A k \in 1..2 : Holding(t, k)' =>
         \/ k = call[t].cur
         \/ Holding(t, k) /\ call[t].du[k] # u /\ call[t].du[k] \in Uppers
  <2> SUFFICES ASSUME NEW k \in 1..2, Holding(t, k)', k # call[t].cur
               PROVE  Holding(t, k) /\ call[t].du[k] # u /\ call[t].du[k] \in Uppers
    OBVIOUS
  <2>1. Holding(t, k)
    BY <1>5 DEF Holding, Reached, LockedName, At, Op, OpPcs
  <2> QED
    BY <1>2, <1>3, <2>1 DEF UseOf, Holding
<1>8. Footing(t)
  <2>1. OthersUp(t)
    <3>1. FreshChanges(t, u) /\ call[t].pc \in LookPcs
      BY <1>1, <1>3 DEF FreshChanges, RefsInv, Types, LookPcs
    <3>2. u = Found(t)
      BY DEF u
    <3> QED
      BY <1>5, <3>1, <3>2, FreshOnly
  <2>2. UpStep(t)
    BY <1>1, <1>3 DEF UpStep
  <2>3. HoldStep(t)
    <3> SUFFICES ASSUME NEW k \in 1..2, Holding(t, k)'
                 PROVE  \/ Holding(t, k) /\ call[t].du[k] = call'[t].du[k]
                        \/ \A s \in Tasks \ {t}, j \in 1..2 : call[s].du[j] # call'[t].du[k]
      BY DEF HoldStep
    <3> QED
      BY <1>3, <1>5, <1>6, <1>7
  <2>4. InStep(t) /\ SeenStep(t) /\ MadeStep(t)
    BY <1>1, <1>5 DEF InStep, SeenStep, MadeStep, Made, At, WalksInv, WalkOf
  <2>5. InodeStep
    BY <1>1, <1>2, <1>4 DEF InodeStep, WalksInv, Agreeing
  <2>6. HashStep(t)
    <3> SUFFICES ASSUME NEW w \in Uppers, up'[w].hashed, up'[w].inode = NoInode
                 PROVE  \/ Steady(up[w].lower)'
                        \/ /\ up[w].hashed /\ up[w].inode = NoInode /\ up'[w].lower = up[w].lower
                           /\ ~Renamed(t) /\ low'[up[w].lower].at = low[up[w].lower].at
      BY DEF HashStep
    <3>1. CASE w = u
      <4>1. Steady(l)
        BY <1>1, <1>2 DEF SteadyOf, l
      <4> QED
        BY <1>1, <3>1, <4>1 DEF Steady
    <3>2. CASE w # u
      BY <1>1, <3>2 DEF Renamed
    <3> QED
      BY <3>1, <3>2
  <2> QED
    BY <1>5, <2>1, <2>2, <2>3, <2>4, <2>5, <2>6 DEF Footing
<1>9. LowerSole'
  <2>1. Guarded(l)
    BY <1>1 DEF Guarded, l
  <2>2. \A w \in Uppers : up'[w].hashed => Guarded(up'[w].lower)
    BY <1>1, <2>1 DEF Guarded
  <2>3. ASSUME NEW k \in 1..2, Holding(t, k)' PROVE Guarded(Lower(t, k)')
    <3>1. Lower(t, k)' = up'[call[t].du[k]].lower
      BY <1>5 DEF Lower
    <3>2. CASE k = call[t].cur
      BY <1>1, <1>6, <2>1, <3>1, <3>2
    <3>3. CASE k # call[t].cur
      <4>1. Holding(t, k) /\ Lower(t, k)' = Lower(t, k)
        BY <1>1, <1>7, <2>3, <3>1, <3>3 DEF Lower
      <4> QED
        BY <4>1 DEF Guarded
    <3> QED
      BY <3>2, <3>3
  <2>4. Guards(t) /\ NoneComes
    BY <1>1, <1>5, <2>2, <2>3 DEF Guards, NoneComes
  <2> QED
    BY <1>1, <1>8, <2>4, SoleKeeps DEF Footing, WalksInv
<1>10. Coherent'
  BY <1>1 DEF WalksInv, Coherent
<1>11. SteadyOf(t)'
  BY <1>5 DEF SteadyOf
<1>12. InodeOf(t)'
  <2>1. Op(t) = "link" /\ call[t].cur = 2 => up'[call[t].du[1]].inode # NoInode
    <3>1. call[t].cur = 2 => call[t].du[1] \in Uppers /\ call[t].du[1] # u
      BY <1>2, <1>3 DEF UseOf, Reached
    <3> QED
      BY <1>1, <1>2, <3>1 DEF InodeOf
  <2> QED
    BY <1>5, <2>1 DEF InodeOf, Made, At, Op, OpPcs
<1>13. WalkOf(t)'
  <2> SUFFICES ASSUME Op(t) = "walk" PROVE WalkOf(t)'
    BY <1>5 DEF WalkOf, Op
  <2>1. call[t].cur = 1 /\ Entry(t) = call[t].ent[1] /\ ~At(t, "idle")
    BY <1>1, <1>2 DEF CallOf, Pair, Entry, At
  <2>2. Answering(t, u)'
    <3>1. low[l].inode \in seen[t]
      BY <1>1, <1>2 DEF WalkOf, Finding, l
    <3>2. ASSUME NEW s \in Tasks, MadeBy(s, u)' PROVE FALSE
      <4>1. s # t /\ call'[s] = call[s]
        BY <1>5, <3>2 DEF MadeBy, Made, At, Alone
      <4>2. call'[s].du[Target(call'[s].op)] = u /\ Target(call'[s].op) \in 1..2
        BY <1>6, <3>2 DEF MadeBy, Target, Op
      <4> QED
        BY <1>3, <4>1, <4>2
    <3> QED
      BY <1>1, <1>4, <1>6, <3>1, <3>2 DEF Answering
  <2> QED
    BY <1>1, <1>2, <1>5, <1>6, <2>1, <2>2 DEF WalkOf, Finding, Around, At
<1> QED
  BY <1>1, <1>8, <1>9, <1>10, <1>11, <1>12, <1>13, WalksKeep DEF OwnOf

-----------------------------------------------------------------------------
(* What was made is stored, and the lower dentries are let go.              *)

\* What lofs_create and the like do to the dentry u of the name.
Finished(t, u, good) ==
    /\ call'[t].rc = good /\ (good => call[t].rc)
    /\ up'[u].inode = IF Op(t) \in Making /\ good THEN low[up[u].lower].inode ELSE up[u].inode

LEMMA FinishIs ==
  ASSUME RefsInv, NEW t \in Tasks, Finish(t)
  PROVE  /\ \E good \in BOOLEAN : Finished(t, call[t].du[Target(Op(t))], good)
         /\ Fading /\ UNCHANGED <<content, seen>>
<1> DEFINE u == call[t].du[Target(Op(t))]
           f == [l \in Lowers |-> [low[l] EXCEPT !.refs = @ - Held(t, l)]]
<1>1. /\ call \in [Tasks -> Calls] /\ up \in [Uppers -> UpperDentries] /\ low \in [Lowers -> LowerRecs]
      /\ call[t].rc \in BOOLEAN
  BY DEF RefsInv, Types, LowerRecs, Calls
<1>2. u \in Uppers
  <2>1. Target(Op(t)) = 1 \/ (Target(Op(t)) = 2 /\ Op(t) \in Pair)
    BY DEF Target, Pair
  <2>2. call[t].pc \in OpPcs
    BY DEF Finish, At, OpPcs
  <2> QED
    BY <2>1, <2>2, OpDentries
<1>3. low' = Settled(f) /\ UNCHANGED <<content, seen>>
  BY DEF Finish, LetGo, below
<1>4. \A l \in Lowers : /\ f[l].at = low[l].at /\ f[l].inode = low[l].inode
                        /\ f[l].stale = low[l].stale /\ f[l].hashed = low[l].hashed
  BY <1>1 DEF LowerRecs
<1>5. PICK good \in {call[t].rc} \cup (IF Op(t) \in Making /\ scenario.fails THEN {FALSE} ELSE {}) :
         /\ call' = [call EXCEPT ![t].pc = "return", ![t].rc = good, ![t].dir = <<>>]
         /\ up' = [up EXCEPT ![u].inode = IF Op(t) \in Making /\ good THEN low[up[u].lower].inode ELSE @,
                             ![u].hashed = @ /\ (Op(t) \in {"mkdir", "symlink"} => good)]
  BY DEF Finish
<1>6. good \in BOOLEAN /\ (good => call[t].rc)
  BY <1>1, <1>5
<1> HIDE DEF f, u
<1>7. Finished(t, u, good)
  <2>1. call'[t].rc = good
    BY <1>1, <1>5
  <2>2. up'[u].inode = IF Op(t) \in Making /\ good THEN low[up[u].lower].inode ELSE up[u].inode
    BY <1>1, <1>2, <1>5 DEF UpperDentries
  <2> QED
    BY <1>6, <2>1, <2>2 DEF Finished
<1>8. Fading
  BY <1>3, <1>4, FadesIf
<1> QED
  BY <1>3, <1>6, <1>7, <1>8 DEF u

LEMMA FinishWalks ==
  ASSUME RefsInv, PlaceInv, WalksInv, NEW t \in Tasks, Finish(t)
  PROVE  WalksInv'
<1> DEFINE x == Target(Op(t))
           u == call[t].du[x]
           l == up[u].lower
<1>1. /\ RefsInv' /\ AtStays /\ call[t].pc = "finish" /\ Op(t) # "rename" /\ Dimmed(u)
      /\ Fading /\ content' = content /\ seen' = seen
  BY FinishKeeps, FinishIs
<1>2. PICK good \in BOOLEAN : Finished(t, u, good)
  BY FinishIs
<1>3. /\ Alone(t) /\ call'[t].ent = call[t].ent /\ call'[t].op = call[t].op /\ call'[t].du = call[t].du
      /\ call'[t].cur = call[t].cur /\ call'[t].pc = "return" /\ call'[t].rc = good
  BY <1>2, FinishKeeps DEF DirCall, Finished
<1>4. /\ CallOf(t) /\ UseOf(t) /\ InodeOf(t) /\ Op(t) # "walk" /\ InUse /\ InUse'
  BY <1>1, UsedAreReferred, UsedWillBeReferred DEF RefsInv, WalksInv, CallOf, OpPcs
<1>5. /\ x \in 1..2 /\ Reached(t, x) /\ u \in Uppers /\ l \in Lowers /\ low[l].refs # 0
      /\ (Op(t) # "link" => x = 1)
  <2>1. (x = 1 \/ (x = 2 /\ Op(t) \in Pair)) /\ (Op(t) # "link" => x = 1)
    BY DEF Target, Pair
  <2> QED
    <3>1. call[t].pc \in OpPcs
      BY <1>1 DEF OpPcs
    <3> QED
      BY <2>1, <3>1, OpDentries DEF Lower
<1>6. low'[l].refs # 0 /\ low'[l].at = low[l].at /\ low'[l].inode = low[l].inode
  <2>1. up'[u].lower = l
    BY <1>1 DEF Dimmed
  <2>2. low'[l].refs # 0
    BY <1>4, <1>5, <2>1 DEF InUse
  <2>3. low'[l].at # <<>>
    BY <1>1, <1>5, <2>2, UsedWillBeNamed, NoEntryIsEmpty DEF LowersNamed
  <2> QED
    BY <1>1, <1>5, <2>2, <2>3 DEF Fading
<1>7. Op(t) \in Making => up[u].inode = NoInode
  BY <1>1, <1>4 DEF InodeOf
<1>8. Op(t) \in Making /\ good => MadeBy(t, u) /\ up'[u].inode = low[l].inode /\ low[l].inode # NoInode
  BY <1>1, <1>2, <1>4 DEF MadeBy, Made, At, InodeOf, Finished, Lower
<1>9. ~(Op(t) \in Making /\ good) => up'[u].inode = up[u].inode
  BY <1>2 DEF Finished
<1> HIDE DEF l, u, x
<1>10. \A w \in Uppers : /\ up'[w].at = up[w].at /\ up'[w].lower = up[w].lower /\ (up'[w].hashed => up[w].hashed)
                         /\ w # u => up'[w] = up[w]
  BY <1>1 DEF Dimmed
<1>11. \A k \in 1..2 : Holding(t, k)' => Holding(t, k) /\ call[t].du[k] \in Uppers
  BY <1>1, <1>3, <1>4 DEF Holding, Reached, LockedName, UseOf, At, Op, OpPcs
<1>12. Footing(t)
  <2>1. OthersUp(t)
    <3>1. ASSUME NEW s \in Tasks \ {t}, NEW k \in 1..2, call[s].du[k] \in Uppers
          PROVE  /\ up'[call[s].du[k]].at = up[call[s].du[k]].at /\ up[call[s].du[k]].at \in Entries
                 /\ k = call[s].cur /\ call[s].pc \in LookPcs =>
                       up'[call[s].du[k]].inode = NoInode /\ ~up'[call[s].du[k]].hashed
      <4>1. UseOf(s) /\ FreshOf(s)
        BY DEF RefsInv
      <4>2. k = call[s].cur /\ call[s].pc \in LookPcs => call[s].du[k] # u
        BY <1>5, <4>1 DEF FreshOf, Found, u
      <4> QED
        BY <1>10, <3>1, <4>1, <4>2 DEF UseOf, FreshOf, Found
    <3> QED
      BY <1>10, <3>1 DEF OthersUp
  <2>2. UpStep(t)
    <3> SUFFICES ASSUME NEW w \in Uppers, up'[w].inode # up[w].inode PROVE Stored(t, w)
      BY <1>10 DEF UpStep
    <3>1. w = u /\ Op(t) \in Making /\ good
      BY <1>9, <1>10
    <3> QED
      BY <1>5, <1>6, <1>8, <1>10, <3>1 DEF Stored, l
  <2>3. HoldStep(t)
    BY <1>3, <1>11 DEF HoldStep
  <2>4. InStep(t) /\ SeenStep(t) /\ MadeStep(t)
    BY <1>1, <1>3, FadesIn DEF SeenStep, MadeStep, Made, At, WalksInv, WalkOf
  <2>5. InodeStep
    <3> SUFFICES ASSUME NEW w \in Uppers, up'[w].inode # NoInode
                 PROVE  /\ up'[w].lower \in Lowers
                        /\ \/ up'[w].inode = up[w].inode /\ up'[w].lower = up[w].lower
                           \/ low'[up'[w].lower].inode = up'[w].inode
      BY DEF InodeStep
    <3>1. CASE w = u /\ Op(t) \in Making /\ good
      BY <1>5, <1>6, <1>8, <1>10, <3>1 DEF l
    <3>2. CASE ~(w = u /\ Op(t) \in Making /\ good)
      BY <1>9, <1>10, <3>2 DEF WalksInv, Agreeing
    <3> QED
      BY <3>1, <3>2
  <2>6. HashStep(t)
    <3> SUFFICES ASSUME NEW w \in Uppers, up'[w].hashed, up'[w].inode = NoInode
                 PROVE  /\ up[w].hashed /\ up[w].inode = NoInode /\ up'[w].lower = up[w].lower
                        /\ ~Renamed(t) /\ low'[up[w].lower].at = low[up[w].lower].at
      BY DEF HashStep
    <3>1. up[w].hashed /\ up[w].inode = NoInode /\ up'[w].lower = up[w].lower
      BY <1>8, <1>9, <1>10
    <3>2. up[w].lower \in Lowers
      BY <3>1 DEF RefsInv, UpperDcache
    <3>3. low[up[w].lower].refs # 0 /\ low'[up[w].lower].refs # 0
      BY <1>4, <3>1, <3>2 DEF InUse
    <3> QED
      BY <1>1, <3>1, <3>2, <3>3 DEF AtStays, Renamed
  <2> QED
    BY <1>3, <2>1, <2>2, <2>3, <2>4, <2>5, <2>6 DEF Footing
<1>13. LowerSole'
  <2>1. Guards(t)
    <3>1. \A w \in Uppers : up'[w].hashed => Guarded(up'[w].lower)
      BY <1>10 DEF Guarded
    <3>2. \A k \in 1..2 : Holding(t, k)' => Guarded(Lower(t, k)')
      BY <1>3, <1>10, <1>11 DEF Guarded, Lower
    <3> QED
      BY <1>3, <3>1, <3>2 DEF Guards
  <2> QED
    BY <1>1, <1>12, <2>1, FadesIn, SoleKeeps DEF Footing, WalksInv
<1>14. Coherent'
  BY <1>1, FadesCoherent DEF WalksInv
<1>15. SteadyOf(t)' /\ WalkOf(t)'
  BY <1>3, <1>4 DEF SteadyOf, WalkOf, Op
<1>16. InodeOf(t)'
  <2>1. Op(t) = "link" /\ call[t].cur = 2 => up'[call[t].du[1]].inode # NoInode
    <3> SUFFICES ASSUME Op(t) = "link", call[t].cur = 2 PROVE up'[call[t].du[1]].inode # NoInode
      OBVIOUS
    <3>1. call[t].du[1] \in Uppers /\ up[call[t].du[1]].inode # NoInode
      BY <1>4 DEF UseOf, Reached, InodeOf
    <3>2. call[t].du[1] # u
      BY <1>7, <3>1 DEF Making
    <3> QED
      BY <1>10, <3>1, <3>2
  <2>2. Op(t) \in Removing \cup {"rename"} /\ good => up'[call[t].du[1]].inode # NoInode
    <3> SUFFICES ASSUME Op(t) \in Removing, good PROVE up'[call[t].du[1]].inode # NoInode
      BY <1>1
    <3>1. u = call[t].du[1]
      BY <1>5 DEF Removing, u
    <3>2. up[u].inode # NoInode
      BY <1>1, <1>4, <3>1 DEF InodeOf, OpPcs
    <3> QED
      BY <1>9, <3>1, <3>2 DEF Removing, Making
  <2> QED
    BY <1>3, <2>1, <2>2 DEF InodeOf, Made, At, Op, OpPcs
<1> QED
  BY <1>1, <1>12, <1>13, <1>14, <1>15, <1>16, WalksKeep DEF OwnOf

-----------------------------------------------------------------------------
(* Calls that return.                                                       *)

\* f is what the dentries become.  A dentry of others that is not moved keeps
\* its inode; one that loses its inode was positive; of those that a rename
\* exchanges the second is unhashed.
Leaves(t, f) ==
    /\ Kept(f) /\ Fading
    /\ \A w \in Uppers :
          /\ f[w].lower = up[w].lower
          /\ f[w].inode # NoInode => f[w].inode = up[w].inode
          /\ f[w].hashed /\ ~up[w].hashed => Renamed(t) /\ w = call[t].du[1]
          /\ f[w].at # up[w].at => Renamed(t) /\ \E k \in 1..2 : w = call[t].du[k]
          /\ f[w].inode # up[w].inode => \A s \in Tasks \ {t}, k \in 1..2 : call[s].du[k] # w
          /\ Renamed(t) /\ w = call[t].du[2] => ~f[w].hashed
          /\ Renamed(t) => f[w].inode = up[w].inode

LEMMA ReturnIs ==
  ASSUME RefsInv, WalksInv, NEW t \in Tasks, Return(t)
  PROVE  \E f : Leaves(t, f)
<1> DEFINE u == call[t].du[1]
           v == call[t].du[2]
           alone == \A s \in Tasks \ {t}, k \in 1..2 : call[s].du[k] # u
           F == CASE call[t].rc /\ Op(t) \in Removing ->
                       IF alone THEN [up EXCEPT ![u].inode = NoInode] ELSE Unhash(up, u)
                  [] call[t].rc /\ Op(t) = "rename" -> Moved(up, u, v)
                  [] OTHER -> up
<1>1. /\ up \in [Uppers -> UpperDentries] /\ call[t] \in Calls /\ CallOf(t) /\ UseOf(t) /\ call[t].pc = "return"
  BY DEF RefsInv, Types, Return, At
<1>2. Release(F, call')
  <2>1. Release(F, [call EXCEPT ![t] = Idle])
    BY DEF Return
  <2> HIDE DEF F
  <2>2. call' = [call EXCEPT ![t] = Idle]
    BY <2>1 DEF Release
  <2> QED
    BY <2>1, <2>2
<1>3. Kept(F) /\ Fading
  BY <1>2, ReleaseFades
<1>4. CASE call[t].rc /\ Op(t) \in Removing
  <2> HIDE DEF alone
  <2>1. F = IF alone THEN [up EXCEPT ![u].inode = NoInode] ELSE Unhash(up, u)
    BY <1>4 DEF Removing
  <2>2. ~Renamed(t)
    BY <1>4 DEF Renamed, Removing
  <2> HIDE DEF F, u
  <2>3. CASE alone
    <3>1. F = [up EXCEPT ![u].inode = NoInode]
      BY <2>1, <2>3
    <3>2. \A w \in Uppers : /\ F[w].lower = up[w].lower /\ F[w].at = up[w].at /\ F[w].hashed = up[w].hashed
                            /\ F[w].inode \in {up[w].inode, NoInode}
                            /\ w # u => F[w] = up[w]
      BY <1>1, <3>1 DEF UpperDentries
    <3>3. \A s \in Tasks \ {t}, k \in 1..2 : call[s].du[k] # u
      BY <2>3 DEF alone, u
    <3> QED
      BY <1>3, <2>2, <3>2, <3>3 DEF Leaves
  <2>4. CASE ~alone
    <3>1. F = Unhash(up, u)
      BY <2>1, <2>4
    <3>2. \A w \in Uppers : /\ F[w].lower = up[w].lower /\ F[w].at = up[w].at /\ F[w].inode = up[w].inode
                            /\ F[w].hashed => up[w].hashed
      BY <1>1, <3>1 DEF Unhash, UpperDentries
    <3> QED
      BY <1>3, <2>2, <3>2 DEF Leaves
  <2> QED
    BY <2>3, <2>4
<1>5. CASE call[t].rc /\ Op(t) = "rename"
  <2>1. F = Moved(up, u, v)
    BY <1>5 DEF Removing
  <2>2. u \in Uppers /\ v \in Uppers /\ u # v /\ Exchanged(Uppers, up, u, v, F)
    BY <1>1, <1>5, <2>1, RenamesAllowed DEF At
  <2> HIDE DEF F
  <2>3. Renamed(t)
    BY <1>1, <1>5 DEF Renamed, At
  <2>4. /\ F[u] = [up[u] EXCEPT !.at = up[v].at, !.hashed = TRUE]
        /\ F[v] = [up[v] EXCEPT !.at = up[u].at, !.hashed = FALSE]
        /\ \A w \in Uppers \ {u, v} : F[w] = up[w]
    BY <2>2 DEF Exchanged
  <2>5. /\ F[u].lower = up[u].lower /\ F[u].inode = up[u].inode
        /\ F[v].lower = up[v].lower /\ F[v].inode = up[v].inode /\ ~F[v].hashed
    BY <1>1, <2>2, <2>4 DEF UpperDentries
  <2>6. \A w \in Uppers :
           /\ F[w].lower = up[w].lower /\ F[w].inode = up[w].inode
           /\ F[w].hashed /\ ~up[w].hashed => w = u
           /\ F[w].at # up[w].at => w = u \/ w = v
           /\ w = v => ~F[w].hashed
    BY <2>4, <2>5
  <2>7. \A w \in Uppers : F[w].at # up[w].at => \E k \in 1..2 : w = call[t].du[k]
    BY <2>6
  <2> QED
    BY <1>3, <2>3, <2>6, <2>7 DEF Leaves
<1>6. CASE ~(call[t].rc /\ Op(t) \in Removing) /\ ~(call[t].rc /\ Op(t) = "rename")
  <2>1. F = up
    BY <1>6
  <2> HIDE DEF F
  <2>2. ~Renamed(t)
    BY <1>6 DEF Renamed
  <2> QED
    BY <1>3, <2>1, <2>2 DEF Leaves
<1> QED
  BY <1>4, <1>5, <1>6

LEMMA ReturnWalks ==
  ASSUME RefsInv, PlaceInv, WalksInv, NEW t \in Tasks, Return(t)
  PROVE  WalksInv'
<1>1. /\ RefsInv' /\ AtStays /\ Alone(t) /\ call'[t] = Idle /\ call[t].pc = "return" /\ OthersUp(t)
  BY ReturnKeeps DEF At
<1>2. PICK f : Leaves(t, f)
  BY ReturnIs
<1>3. /\ call'[t].pc = "idle" /\ call'[t].op = "walk" /\ call'[t].cur = 1 /\ call'[t].dl = NoDentry
  BY <1>1 DEF Idle
<1>4. /\ \A w \in Uppers : up'[w] \in {f[w], FreeUpper}
      /\ \A s \in Tasks \ {t}, k \in 1..2 : call[s].du[k] \in Uppers => up'[call[s].du[k]] = f[call[s].du[k]]
      /\ Fading
  BY <1>1, <1>2 DEF Leaves, Kept, Alone
<1>5. \A s \in Tasks \ {t} : seen'[s] = seen[s]
  BY DEF Return, RefsInv, Types
<1>6. content' = content
  BY DEF Return
<1>7. Renamed(t) => /\ Holding(t, 1) /\ Holding(t, 2) /\ call[t].du[1] \in Uppers
                    /\ up[call[t].du[1]].inode # NoInode
  BY <1>1, RenamedHolds DEF WalksInv, InodeOf, Renamed, At
<1>8. \A k \in 1..2 : ~Holding(t, k)'
  BY <1>3 DEF Holding, Reached, At, OpPcs
<1>9. InUse /\ InUse' /\ InStep(t) /\ NoneComes
  BY <1>1, <1>4, UsedAreReferred, UsedWillBeReferred, FadesIn
<1>10. UpStep(t)
  <2> SUFFICES ASSUME NEW s \in Tasks \ {t}, NEW k \in 1..2, call[s].du[k] \in Uppers, NEW u, u = call[s].du[k]
               PROVE  /\ up'[u].inode = up[u].inode
                      /\ up'[u].at # up[u].at =>
                            \/ up[u].inode # NoInode
                            \/ ~up'[u].hashed /\ \A r \in Tasks, j \in 1..2 : Holding(r, j)' => call'[r].du[j] # u
                      /\ up'[u].hashed /\ ~up[u].hashed => up[u].inode # NoInode
    BY DEF UpStep
  <2>1. up'[u] = f[u]
    BY <1>4
  <2>2. up'[u].inode = up[u].inode
    BY <1>2, <2>1 DEF Leaves
  <2>3. up'[u].hashed /\ ~up[u].hashed => up[u].inode # NoInode
    BY <1>2, <1>7, <2>1 DEF Leaves
  <2>4. ASSUME up'[u].at # up[u].at, up[u].inode = NoInode
        PROVE  ~up'[u].hashed /\ \A r \in Tasks, j \in 1..2 : Holding(r, j)' => call'[r].du[j] # u
    <3>1. Renamed(t) /\ u = call[t].du[2] /\ ~up'[u].hashed
      <4>1. Renamed(t) /\ \E j \in 1..2 : u = call[t].du[j]
        BY <1>2, <2>1, <2>4 DEF Leaves
      <4>2. u = call[t].du[2]
        BY <1>7, <2>4, <4>1
      <4> QED
        BY <1>2, <2>1, <4>1, <4>2 DEF Leaves
    <3>2. ASSUME NEW r \in Tasks, NEW j \in 1..2, Holding(r, j)', call'[r].du[j] = u PROVE FALSE
      <4>1. r # t
        BY <1>8, <3>2
      <4>2. Holding(r, j) /\ call[r].du[j] = u
        BY <1>1, <3>2, <4>1, OthersHold DEF Alone
      <4>3. Holding(t, 2) /\ call[t].du[2] = u
        BY <1>7, <3>1
      <4>4. \A i \in 1..2 : Holding(t, i) /\ call[r].du[j] = call[t].du[i] => r = t
        BY <4>2, HoldersDiffer
      <4> QED
        BY <4>1, <4>2, <4>3, <4>4
    <3> QED
      BY <3>1, <3>2
  <2> QED
    BY <2>2, <2>3, <2>4
<1>11. InodeStep
  <2> SUFFICES ASSUME NEW u \in Uppers, up'[u].inode # NoInode
               PROVE  up'[u].lower \in Lowers /\ up'[u].inode = up[u].inode /\ up'[u].lower = up[u].lower
    BY DEF InodeStep
  <2>1. up'[u] = f[u]
    BY <1>4, FreesAreFree
  <2> QED
    BY <1>2, <2>1 DEF Leaves, WalksInv, Agreeing
<1>12. HashStep(t)
  <2> SUFFICES ASSUME NEW u \in Uppers, up'[u].hashed, up'[u].inode = NoInode
               PROVE  \/ Steady(up[u].lower)'
                      \/ /\ up[u].hashed /\ up[u].inode = NoInode /\ up'[u].lower = up[u].lower
                         /\ Renamed(t) => u # call[t].du[2]
                         /\ low'[up[u].lower].at = low[up[u].lower].at
    BY DEF HashStep
  <2>1. up'[u] = f[u]
    BY <1>4, FreesAreFree
  <2>2. up'[u].lower = up[u].lower /\ up'[u].lower \in Lowers
    BY <1>1, <1>2, <2>1 DEF Leaves, RefsInv, UpperDcache
  <2>3. low[up[u].lower].refs # 0 /\ low'[up[u].lower].refs # 0
    BY <1>9, <2>2 DEF InUse
  <2>4. CASE up[u].inode # NoInode
    <3>1. low'[up[u].lower].at # <<>>
      BY <1>1, <2>2, <2>3, UsedWillBeNamed, NoEntryIsEmpty DEF LowersNamed
    <3>2. low'[up[u].lower].inode # NoInode
      BY <1>4, <2>2, <2>4, <3>1 DEF Fading, WalksInv, Agreeing
    <3> QED
      BY <2>2, <3>2 DEF Steady
  <2>5. CASE up[u].inode = NoInode
    <3>1. up[u].hashed
      BY <1>2, <1>7, <2>1, <2>5 DEF Leaves
    <3>2. Renamed(t) => u # call[t].du[2]
      BY <1>2, <2>1 DEF Leaves
    <3> QED
      BY <1>1, <2>2, <2>3, <2>5, <3>1, <3>2 DEF AtStays
  <2> QED
    BY <2>4, <2>5
<1>13. Footing(t)
  <2>1. HoldStep(t) /\ MadeStep(t)
    BY <1>3, <1>8 DEF HoldStep, MadeStep, Made, At
  <2>2. SeenStep(t)
    BY <1>5, <1>6 DEF SeenStep, WalksInv, WalkOf
  <2> QED
    BY <1>1, <1>9, <1>10, <1>11, <1>12, <2>1, <2>2 DEF Footing
<1>14. Guards(t)
  <2>1. ASSUME NEW u \in Uppers, up'[u].hashed PROVE Guarded(up'[u].lower)
    <3>1. up'[u] = f[u] /\ up'[u].lower = up[u].lower
      BY <1>2, <1>4, <2>1, FreesAreFree DEF Leaves
    <3>2. up[u].hashed \/ (Renamed(t) /\ u = call[t].du[1])
      BY <1>2, <2>1, <3>1 DEF Leaves
    <3> QED
      BY <1>7, <3>1, <3>2 DEF Guarded, Lower
  <2> QED
    BY <1>3, <1>8, <2>1 DEF Guards
<1>15. LowerSole' /\ Coherent'
  BY <1>1, <1>4, <1>6, <1>9, <1>14, SoleKeeps, FadesCoherent DEF WalksInv
<1>16. OwnOf(t)'
  BY <1>3 DEF OwnOf, SteadyOf, InodeOf, WalkOf, Finding, Made, At, Op, Making, Removing, OpPcs
<1> QED
  BY <1>1, <1>13, <1>15, <1>16, WalksKeep

-----------------------------------------------------------------------------
(* Changes of the lower directories.                                        *)

\* Walks see what the lower directories become.
LEMMA ChangesAreSeen ==
  ASSUME RefsInv, NEW t, NEW c, Contents(c)
  PROVE  content' = c /\ SeenStep(t)
<1>1. seen \in [Tasks -> SUBSET Maybe]
  BY DEF RefsInv, Types
<1> QED
  BY <1>1 DEF Contents, SeenStep, At, Op

\* The lower dentries are those of f, and are stale where c says something else.
LowersAs(f, c) ==
    \A l \in Lowers : low'[l].at # <<>> \/ f[l].refs # 0 =>
        /\ low'[l].at = f[l].at /\ low'[l].inode = f[l].inode /\ low'[l].hashed = f[l].hashed
        /\ low'[l].stale <=> f[l].stale \/ (f[l].hashed /\ f[l].inode # c[f[l].at])

LEMMA RestaledIs ==
  ASSUME NEW f, f \in [Lowers -> LowerRecs], NEW c, low' = Settled(Restaled(f, c))
  PROVE  LowersAs(f, c)
<1> SUFFICES ASSUME NEW l \in Lowers, low'[l].at # <<>> \/ f[l].refs # 0
             PROVE  /\ low'[l].at = f[l].at /\ low'[l].inode = f[l].inode /\ low'[l].hashed = f[l].hashed
                    /\ low'[l].stale <=> f[l].stale \/ (f[l].hashed /\ f[l].inode # c[f[l].at])
  BY DEF LowersAs
<1> DEFINE b == f[l].stale \/ (f[l].hashed /\ f[l].inode # c[f[l].at])
           g == [f[l] EXCEPT !.stale = b]
<1>1. f[l] \in LowerRecs /\ b \in BOOLEAN
  BY DEF LowerRecs
<1>2. low'[l] = IF g.refs = 0 /\ ~g.hashed THEN FreeLower ELSE g
  BY DEF Settled, Restaled
<1> HIDE DEF b
<1>3. g.at = f[l].at /\ g.inode = f[l].inode /\ g.hashed = f[l].hashed /\ g.stale = b /\ g.refs = f[l].refs
  BY <1>1 DEF LowerRecs
<1> HIDE DEF g
<1>4. low'[l] = g
  BY <1>2, <1>3, FreesAreFree
<1> QED
  BY <1>1, <1>3, <1>4 DEF b

LEMMA RestaledCoheres ==
  ASSUME RefsInv', NEW f, NEW c, LowersAs(f, c), content' = c
  PROVE  Coherent'
<1> SUFFICES ASSUME NEW l \in Lowers, low'[l].hashed, ~low'[l].stale PROVE content'[low'[l].at] = low'[l].inode
  BY DEF Coherent
<1>1. low'[l].at # <<>>
  BY UsedWillBeNamed, NoEntryIsEmpty DEF LowersNamed
<1> QED
  BY <1>1 DEF LowersAs

\* An operation has changed the lower directory.
LEMMA ChangeWalks ==
  ASSUME RefsInv, RefsInv', PlaceInv, WalksInv, NEW t \in Tasks, SameCall(t), call[t].pc = "vfs",
         call'[t].pc = "finish", call'[t].rc = call[t].rc, up' = up, NEW c, Contents(c), InStep(t), HashStep(t),
         LowerSole', Coherent', Op(t) \in Making => low'[Lower(t, Target(Op(t)))].inode # NoInode
             /\ low'[Lower(t, Target(Op(t)))].inode = content'[low[Lower(t, Target(Op(t)))].at]
  PROVE  WalksInv'
<1>1. /\ CallOf(t) /\ UseOf(t) /\ InodeOf(t) /\ Op(t) # "walk"
      /\ Alone(t) /\ call'[t].ent = call[t].ent /\ call'[t].op = call[t].op /\ call'[t].du = call[t].du
      /\ call'[t].cur = call[t].cur
  BY DEF RefsInv, WalksInv, CallOf, OpPcs, SameCall
<1>2. \A k \in 1..2 : Holding(t, k)' => Holding(t, k) /\ call[t].du[k] \in Uppers
  BY <1>1 DEF Holding, Reached, LockedName, UseOf, At, Op, OpPcs
<1>3. CalmUp(t)
  BY DEF CalmUp, NoneHashed
<1>4. MadeStep(t)
  <2> SUFFICES ASSUME Op(t) \in Making
               PROVE  LET k == Target(Op(t))
                          u == call[t].du[k]
                      IN  /\ Holding(t, k) /\ up[u].inode = NoInode
                          /\ low'[up[u].lower].inode = content'[low[up[u].lower].at]
    BY <1>1 DEF MadeStep, Made, Op
  <2>1. Holding(t, Target(Op(t)))
    BY MadeIsHeld
  <2> QED
    BY <1>1, <2>1 DEF InodeOf, Lower
<1>5. Footing(t)
  <2>1. UpStep(t) /\ HoldStep(t)
    BY <1>1, <1>2 DEF UpStep, HoldStep
  <2>2. InodeStep
    BY DEF InodeStep, WalksInv, Agreeing
  <2> QED
    BY <1>1, <1>3, <1>4, <2>1, <2>2, CalmOthers, ChangesAreSeen DEF Footing
<1>6. InodeOf(t)'
  <2>1. Lower(t, Target(Op(t)))' = Lower(t, Target(Op(t)))
    BY <1>1 DEF Lower, Op
  <2>2. Made(t)' => low'[Lower(t, Target(Op(t)))'].inode # NoInode
    BY <1>1, <2>1 DEF Made, Op
  <2> QED
    BY <1>1, <2>2 DEF InodeOf, At, Op, OpPcs
<1>7. SteadyOf(t)' /\ WalkOf(t)'
  BY <1>1 DEF SteadyOf, WalkOf, Op
<1> QED
  BY <1>5, <1>6, <1>7, WalksKeep DEF OwnOf

\* Where no lower dentry is hashed or moved.
LEMMA ChangeInPlace ==
  ASSUME RefsInv, RefsInv', PlaceInv, WalksInv, NEW t \in Tasks, SameCall(t), call[t].pc = "vfs",
         call'[t].pc = "finish", call'[t].rc = call[t].rc, up' = up, NEW c, Contents(c), InStep(t),
         NoneComes, AtStays, Coherent', Op(t) # "rename", Op(t) \in Making =>
             low'[Lower(t, Target(Op(t)))].inode # NoInode
             /\ low'[Lower(t, Target(Op(t)))].inode = content'[low[Lower(t, Target(Op(t)))].at]
  PROVE  WalksInv'
<1>1. /\ CallOf(t) /\ UseOf(t) /\ Alone(t) /\ call'[t].op = call[t].op /\ call'[t].du = call[t].du
      /\ call'[t].cur = call[t].cur
  BY DEF RefsInv, SameCall
<1>2. CalmUp(t)
  BY DEF CalmUp, NoneHashed
<1>3. Guards(t)
  <2>1. \A k \in 1..2 : Holding(t, k)' => Holding(t, k)
    BY <1>1 DEF Holding, Reached, LockedName, At, Op, OpPcs
  <2>2. \A k \in 1..2 : Lower(t, k)' = Lower(t, k)
    BY <1>1 DEF Lower
  <2> QED
    BY <2>1, <2>2 DEF Guards, Guarded
<1>4. LowerSole'
  BY <1>1, <1>2, <1>3, SoleKeeps, CalmOthers DEF WalksInv
<1>5. HashStep(t)
  <2> SUFFICES ASSUME NEW w \in Uppers, up[w].hashed PROVE low'[up[w].lower].at = low[up[w].lower].at
    BY DEF HashStep, Renamed
  <2>1. up[w].lower \in Lowers
    BY DEF RefsInv, UpperDcache
  <2> QED
    BY <2>1, UsedAreReferred, UsedWillBeReferred DEF AtStays, InUse
<1> QED
  BY <1>4, <1>5, ChangeWalks

LEMMA UnusedIsPositive == UnusedInodes # {} => Some(UnusedInodes) # NoInode
BY SomeIsIn, Numbers DEF UnusedInodes

LEMMA MakeWalks ==
  ASSUME RefsInv, PlaceInv, WalksInv, NEW t \in Tasks, VfsMake(t)
  PROVE  WalksInv'
<1> DEFINE l == Lower(t, Target(Op(t)))
           i == IF Op(t) = "link" THEN low[Lower(t, 1)].inode ELSE Some(UnusedInodes)
           f == [low EXCEPT ![l].inode = i]
           c == [content EXCEPT ![low[l].at] = i]
<1>1. /\ RefsInv' /\ SameCall(t) /\ call[t].pc = "vfs" /\ call'[t].pc = "finish" /\ call'[t].rc = call[t].rc
      /\ up' = up /\ AtStays /\ Op(t) # "rename" /\ Op(t) \in Making
  BY VfsMakeKeeps DEF AtStays, VfsMake
<1>2. /\ low \in [Lowers -> LowerRecs] /\ content \in [Entries -> Maybe]
      /\ CallOf(t) /\ UseOf(t) /\ InodeOf(t)
  BY DEF RefsInv, Types, LowerRecs, WalksInv
<1>3. l \in Lowers /\ low[l].refs # 0 /\ low[l].at \in Entries
  <2>1. Target(Op(t)) = 1 \/ (Target(Op(t)) = 2 /\ Op(t) \in Pair)
    BY DEF Target, Pair
  <2> QED
    BY <1>1, <2>1, OpDentries DEF OpPcs
<1>4. low' = Settled(Restaled(f, c)) /\ Contents(c) /\ low[l].inode = NoInode
  BY <1>1 DEF VfsMake, VfsWorks, Fits
<1>5. i # NoInode
  <2>1. CASE Op(t) = "link"
    <3>1. call[t].cur = 2
      BY <1>1, <1>2, <2>1 DEF CallOf, OpPcs, Pair
    <3>2. up[call[t].du[1]].inode # NoInode /\ call[t].du[1] \in Uppers
      BY <1>2, <2>1, <3>1 DEF InodeOf, UseOf, Reached
    <3> QED
      BY <2>1, <3>2 DEF WalksInv, Agreeing, Lower
  <2>2. CASE Op(t) # "link"
    BY <2>2, UnusedIsPositive DEF VfsMake
  <2> QED
    BY <2>1, <2>2
<1>6. i \in Maybe
  <2>1. CASE Op(t) = "link"
    <3>1. Op(t) \in Pair /\ call[t].pc \in OpPcs
      BY <1>1, <2>1 DEF Pair, OpPcs
    <3>2. Lower(t, 1) \in Lowers
      BY <3>1, OpDentries
    <3> QED
      BY <1>2, <2>1, <3>2 DEF LowerRecs
  <2>2. CASE Op(t) # "link"
    BY <2>2, UnusedAreInodes DEF VfsMake
  <2> QED
    BY <2>1, <2>2
<1>7. l = Lower(t, Target(Op(t)))
  OBVIOUS
<1> HIDE DEF l, i
<1>8. /\ f \in [Lowers -> LowerRecs]
      /\ \A m \in Lowers : /\ f[m].at = low[m].at /\ f[m].hashed = low[m].hashed
                           /\ f[m].stale = low[m].stale /\ f[m].refs = low[m].refs
                           /\ f[m].inode = IF m = l THEN i ELSE low[m].inode
  BY <1>2, <1>3, <1>6 DEF LowerRecs
<1>9. c[low[l].at] = i
  BY <1>2, <1>3
<1> HIDE DEF f, c
<1>10. LowersAs(f, c) /\ content' = c
  BY <1>4, <1>8, RestaledIs, ChangesAreSeen
<1>11. Coherent'
  BY <1>1, <1>10, RestaledCoheres
<1>12. NoneComes
  BY <1>8, <1>10 DEF LowersAs, NoneComes
<1>13. InStep(t)
  BY <1>4, <1>5, <1>8, <1>9, <1>10 DEF LowersAs, InStep
<1>14. low'[l].inode = i
  BY <1>3, <1>8, <1>10 DEF LowersAs
<1> QED
  BY <1>1, <1>4, <1>5, <1>7, <1>9, <1>10, <1>11, <1>12, <1>13, <1>14, ChangeInPlace

LEMMA RemoveWalks ==
  ASSUME RefsInv, PlaceInv, WalksInv, NEW t \in Tasks, VfsRemove(t)
  PROVE  WalksInv'
<1> DEFINE l == Lower(t, 1)
           f == Unhash(low, l)
           c == [content EXCEPT ![low[l].at] = NoInode]
<1>1. /\ RefsInv' /\ SameCall(t) /\ call[t].pc = "vfs" /\ call'[t].pc = "finish" /\ call'[t].rc = call[t].rc
      /\ up' = up /\ AtStays /\ Op(t) # "rename" /\ Op(t) \in Removing /\ Op(t) \notin Making
  BY VfsRemoveKeeps DEF AtStays, VfsRemove, Removing, Making
<1>2. low \in [Lowers -> LowerRecs] /\ InodeOf(t)
  BY DEF RefsInv, Types, LowerRecs, WalksInv
<1>3. l \in Lowers /\ call[t].du[1] \in Uppers
  BY <1>1, OpDentries DEF OpPcs
<1>4. low' = Settled(Restaled(f, c)) /\ Contents(c)
  BY DEF VfsRemove, VfsWorks
<1>5. low[l].inode # NoInode
  BY <1>1, <1>2, <1>3 DEF InodeOf, OpPcs, WalksInv, Agreeing, Lower
<1> HIDE DEF l
<1>6. /\ f \in [Lowers -> LowerRecs]
      /\ \A m \in Lowers : /\ f[m].at = low[m].at /\ f[m].inode = low[m].inode
                           /\ f[m].stale = low[m].stale /\ f[m].refs = low[m].refs
                           /\ f[m].hashed <=> low[m].hashed /\ m # l
  BY <1>2, <1>3, UnhashFields
<1> HIDE DEF f, c
<1>7. LowersAs(f, c) /\ content' = c
  BY <1>4, <1>6, RestaledIs, ChangesAreSeen
<1>8. Coherent'
  BY <1>1, <1>7, RestaledCoheres
<1>9. NoneComes /\ InStep(t)
  BY <1>5, <1>6, <1>7 DEF LowersAs, NoneComes, InStep
<1> QED
  BY <1>1, <1>4, <1>8, <1>9, ChangeInPlace

\* The lower dentry of a name that t holds is the only one in use with the name.
LEMMA HolderIsOnly ==
  ASSUME RefsInv, PlaceInv, WalksInv, NEW t \in Tasks, NEW k \in 1..2, Holding(t, k), ~Renamed(t),
         NEW l \in Lowers, Guarded(l), low[l].at = low[Lower(t, k)].at
  PROVE  l = Lower(t, k)
<1>1. /\ call[t] \in Calls /\ CallOf(t) /\ SoleOf(t) /\ Under(t, k) /\ ~At(t, "idle")
      /\ Lower(t, k) \in Lowers /\ low[l].at = call[t].ent[k] /\ ulock[call[t].ent[k][1]] = t
  BY HeldAt DEF RefsInv, Types, Under, Holding, Reached, At, OpPcs, CallOf, Idle
<1>2. ASSUME NEW s \in Tasks, NEW j \in 1..2, Holding(s, j), Lower(s, j) = l PROVE l = Lower(t, k)
  <2>1. /\ ulock[call[s].ent[j][1]] = s
        /\ low[l].at = call[s].ent[IF Renamed(s) THEN 3 - j ELSE j]
    BY <1>2, HeldAt
  <2>2. ~Renamed(s)
    <3> SUFFICES ASSUME Renamed(s) PROVE FALSE
      OBVIOUS
    <3>1. 3 - j \in 1..2
      OBVIOUS
    <3>2. ulock[call[s].ent[3 - j][1]] = s
      BY <3>1, RenamedHolds
    <3> QED
      BY <1>1, <2>1, <3>2
  <2>3. s = t /\ call[t].ent[j] = call[t].ent[k]
    BY <1>1, <2>1, <2>2
  <2>4. j = k
    <3> SUFFICES ASSUME j # k PROVE FALSE
      OBVIOUS
    <3>1. call[t].cur = 2
      BY <1>1, <1>2, <2>3 DEF Holding, Reached, Calls
    <3> QED
      BY <1>1, <2>3, <3>1 DEF CallOf
  <2> QED
    BY <1>2, <2>3, <2>4
<1>3. ASSUME NEW u \in Uppers, up[u].hashed, up[u].lower = l PROVE l = Lower(t, k)
  <2>1. CASE up[u].at = low[l].at
    <3>1. u = call[t].du[k]
      BY <1>1, <1>3, <2>1 DEF SoleOf
    <3> QED
      BY <1>3, <3>1 DEF Lower
  <2>2. CASE \E s \in Tasks, j \in 1..2 : Renamed(s) /\ u = call[s].du[j]
    <3>1. PICK s \in Tasks, j \in 1..2 : Renamed(s) /\ u = call[s].du[j]
      BY <2>2
    <3>2. Holding(s, j) /\ Lower(s, j) = l
      BY <1>3, <3>1, RenamedHolds DEF Lower
    <3> QED
      BY <1>2, <3>2
  <2> QED
    BY <1>3, <2>1, <2>2 DEF PlaceInv, Placed
<1>4. ASSUME NEW s \in Tasks, call[s].pc \in {"lreval", "read", "add"}, call[s].dl = l PROVE l = Lower(t, k)
  <2>1. PlaceOf(s) /\ LocksOf(s)
    BY DEF PlaceInv, RefsInv
  <2>2. low[l].at = Entry(s) /\ ulock[Entry(s)[1]] = s
    BY <1>4, <2>1 DEF PlaceOf, LocksOf, LookPcs
  <2>3. s = t /\ call[t].ent[call[t].cur] = call[t].ent[k]
    BY <1>1, <2>2 DEF Entry
  <2>4. k = 1 /\ call[t].cur = 2
    BY <1>1, <1>4, <2>3 DEF Holding, Reached, At, OpPcs, Calls
  <2> QED
    BY <1>1, <2>3, <2>4 DEF CallOf
<1>5. CASE low[l].hashed
  <2>1. Guarded(Lower(t, k))
    BY DEF Guarded
  <2> QED
    BY <1>1, <1>5, <2>1 DEF WalksInv, LowerSole, SoleBelow
<1> QED
  BY <1>2, <1>3, <1>4, <1>5 DEF Guarded

\* vfs_rename, with the lower dentries a and b.
RenamedBelow(t, a, b) ==
    /\ low'[a].at = low[b].at /\ low'[a].hashed /\ low'[b].at = low[a].at /\ ~low'[b].hashed
    /\ \A m \in Lowers : low'[m].at # <<>> \/ low[m].refs # 0 =>
          /\ low'[m].inode = low[m].inode /\ (low[m].stale => low'[m].stale)
          /\ m \notin {a, b} => low'[m].at = low[m].at /\ low'[m].hashed = low[m].hashed

LEMMA RenameIs ==
  ASSUME RefsInv, PlaceInv, NEW t \in Tasks, VfsRename(t)
  PROVE  /\ RenamedBelow(t, Lower(t, 1), Lower(t, 2)) /\ Coherent' /\ \E c : Contents(c)
         /\ \A k \in 1..2 : content[low[Lower(t, k)].at] = low[Lower(t, k)].inode
         /\ low[Lower(t, 1)].at # low[Lower(t, 2)].at
<1> DEFINE a == Lower(t, 1)
           b == Lower(t, 2)
           f == Moved(low, a, b)
           c == [content EXCEPT ![low[a].at] = NoInode, ![low[b].at] = low[a].inode]
<1>1. RefsInv' /\ call[t].pc \in OpPcs /\ Op(t) \in Pair /\ Op(t) = "rename"
  BY VfsRenameKeeps DEF OpPcs, Pair
<1>2. a \in Lowers /\ b \in Lowers /\ low[a].refs # 0 /\ low[b].refs # 0
  BY <1>1, OpDentries
<1>3. /\ low' = Settled(Restaled(f, c)) /\ Contents(c) /\ low[a].at # low[b].at
      /\ content[low[a].at] = low[a].inode /\ content[low[b].at] = low[b].inode
  BY <1>1 DEF VfsRename, VfsWorks, Fits, Target
<1>4. low \in [Lowers -> LowerRecs]
  BY DEF RefsInv, Types, LowerRecs
<1>5. \A k \in 1..2 : Lower(t, k) \in {a, b}
  OBVIOUS
<1> HIDE DEF a, b
<1>6. Exchanged(Lowers, low, a, b, f)
  BY <1>2, <1>3, <1>4, MovedIs
<1> HIDE DEF f
<1>7. /\ f[a] = [low[a] EXCEPT !.at = low[b].at, !.hashed = TRUE]
       /\ f[b] = [low[b] EXCEPT !.at = low[a].at, !.hashed = FALSE]
       /\ \A m \in Lowers \ {a, b} : f[m] = low[m]
  BY <1>6 DEF Exchanged
<1>8. f \in [Lowers -> LowerRecs]
  <2>1. f = [low EXCEPT ![a] = [low[a] EXCEPT !.at = low[b].at, !.hashed = TRUE],
                        ![b] = [low[b] EXCEPT !.at = low[a].at, !.hashed = FALSE]]
    BY <1>6 DEF Exchanged
  <2>2. /\ [low[a] EXCEPT !.at = low[b].at, !.hashed = TRUE] \in LowerRecs
        /\ [low[b] EXCEPT !.at = low[a].at, !.hashed = FALSE] \in LowerRecs
    BY <1>2, <1>4 DEF LowerRecs
  <2> QED
    BY <1>2, <1>4, <2>1, <2>2
<1>9. /\ f[a].at = low[b].at /\ f[a].hashed /\ f[a].inode = low[a].inode /\ f[a].stale = low[a].stale
      /\ f[a].refs = low[a].refs
      /\ f[b].at = low[a].at /\ ~f[b].hashed /\ f[b].inode = low[b].inode /\ f[b].stale = low[b].stale
      /\ f[b].refs = low[b].refs
  BY <1>2, <1>4, <1>7 DEF LowerRecs
<1> HIDE DEF c
<1>10. LowersAs(f, c) /\ content' = c
  BY <1>3, <1>8, RestaledIs, ChangesAreSeen
<1>11. Coherent'
  BY <1>1, <1>10, RestaledCoheres
<1>12. RenamedBelow(t, a, b)
  <2>1. \A m \in Lowers : f[m].inode = low[m].inode /\ f[m].stale = low[m].stale /\ f[m].refs = low[m].refs
    BY <1>9, <1>7
  <2>2. /\ low'[a].at = low[b].at /\ low'[a].hashed /\ low'[b].at = low[a].at /\ ~low'[b].hashed
    BY <1>2, <1>9, <1>10 DEF LowersAs
  <2>3. ASSUME NEW m \in Lowers, low'[m].at # <<>> \/ low[m].refs # 0
        PROVE  /\ low'[m].inode = low[m].inode /\ (low[m].stale => low'[m].stale)
               /\ m \notin {a, b} => low'[m].at = low[m].at /\ low'[m].hashed = low[m].hashed
    BY <1>10, <1>7, <2>1, <2>3 DEF LowersAs
  <2> QED
    BY <2>2, <2>3 DEF RenamedBelow
<1> QED
  BY <1>3, <1>5, <1>11, <1>12 DEF a, b

LEMMA RenameSole ==
  ASSUME RefsInv, RefsInv', PlaceInv, WalksInv, NEW t \in Tasks, SameCall(t), call[t].pc = "vfs",
         call'[t].pc = "finish", up' = up, Holding(t, 1), Holding(t, 2), ~Renamed(t),
         RenamedBelow(t, Lower(t, 1), Lower(t, 2)), low[Lower(t, 1)].at # low[Lower(t, 2)].at
  PROVE  LowerSole'
<1> DEFINE a == Lower(t, 1)
           b == Lower(t, 2)
<1> SUFFICES ASSUME NEW l \in Lowers, Guarded(l)', NEW m \in Lowers, low'[m].hashed, low'[m].at = low'[l].at
             PROVE  m = l
  BY DEF LowerSole, SoleBelow
<1>1. Guarded(a) /\ Guarded(b) /\ a \in Lowers /\ b \in Lowers
  BY HeldAt DEF Guarded
<1>2. /\ Alone(t) /\ call'[t].op = call[t].op /\ call'[t].du = call[t].du /\ call'[t].cur = call[t].cur
  BY DEF SameCall
<1>3. Guards(t) /\ OthersUp(t)
  <2>1. \A k \in 1..2 : Holding(t, k)' => Holding(t, k)
    BY <1>2 DEF Holding, Reached, LockedName, At, Op, OpPcs
  <2>2. \A k \in 1..2 : Lower(t, k)' = Lower(t, k)
    BY <1>2 DEF Lower
  <2>3. CalmUp(t)
    BY DEF CalmUp, NoneHashed
  <2> QED
    BY <2>1, <2>2, <2>3, CalmOthers DEF Guards, Guarded
<1>4. low'[l].at # <<>> /\ low'[m].at # <<>>
  BY GuardedWillBeNamed, UsedWillBeNamed, NoEntryIsEmpty DEF GuardedInUse, LowersNamed
<1>5. \A x \in Lowers : Guarded(x) =>
         /\ low[x].at = low[a].at => x = a
         /\ low[x].at = low[b].at => x = b
  BY HolderIsOnly
<1>6. RenamedBelow(t, a, b) /\ low[a].at # low[b].at
  OBVIOUS
<1> HIDE DEF a, b
<1>7. ASSUME NEW x \in Lowers, x \notin {a, b}, low'[x].at # <<>>
      PROVE  low'[x].at = low[x].at /\ (low'[x].hashed <=> low[x].hashed)
  BY <1>6, <1>7 DEF RenamedBelow
<1>8. Guarded(l)
  <2>1. low'[l].hashed \/ Guarded(l)
    BY <1>2, <1>3, GuardsKept
  <2> QED
    BY <1>1, <1>4, <1>7, <2>1 DEF Guarded
<1>9. Guarded(m)
  BY <1>1, <1>4, <1>7 DEF Guarded
<1>10. m # b
  BY <1>6 DEF RenamedBelow
<1>11. CASE m = a
  <2>1. low'[l].at = low[b].at
    BY <1>6, <1>11 DEF RenamedBelow
  <2>2. l # b
    BY <1>6, <2>1 DEF RenamedBelow
  <2>3. l \notin {a, b} => l = b
    BY <1>4, <1>5, <1>7, <1>8, <2>1
  <2> QED
    BY <1>11, <2>2, <2>3
<1>12. CASE m # a
  <2>1. low'[m].at = low[m].at /\ low[m].hashed
    BY <1>4, <1>7, <1>10, <1>12
  <2>2. l # a /\ l # b
    <3>1. low'[a].at = low[b].at /\ low'[b].at = low[a].at
      BY <1>6 DEF RenamedBelow
    <3>2. low[m].at # low[a].at /\ low[m].at # low[b].at
      BY <1>5, <1>9, <1>10, <1>12
    <3> QED
      BY <2>1, <3>1, <3>2
  <2>3. low[m].at = low[l].at
    BY <1>4, <1>7, <2>1, <2>2
  <2> QED
    BY <1>8, <2>1, <2>3 DEF WalksInv, LowerSole, SoleBelow
<1> QED
  BY <1>11, <1>12

LEMMA RenameWalks ==
  ASSUME RefsInv, PlaceInv, WalksInv, NEW t \in Tasks, VfsRename(t)
  PROVE  WalksInv'
<1> DEFINE a == Lower(t, 1)
           b == Lower(t, 2)
<1>1. /\ RefsInv' /\ SameCall(t) /\ call[t].pc = "vfs" /\ call'[t].pc = "finish" /\ call'[t].rc = call[t].rc
      /\ up' = up /\ Op(t) = "rename" /\ a # b
  BY VfsRenameKeeps
<1>2. PICK c : Contents(c)
  BY RenameIs
<1>3. /\ RenamedBelow(t, a, b) /\ Coherent' /\ low[a].at # low[b].at
      /\ content[low[a].at] = low[a].inode /\ content[low[b].at] = low[b].inode
  BY RenameIs
<1>4. Holding(t, 1) /\ Holding(t, 2) /\ ~Renamed(t) /\ Renamed(t)'
  <2>1. CallOf(t) /\ PlaceOf(t) /\ call'[t].op = call[t].op
    BY <1>1 DEF RefsInv, PlaceInv, SameCall
  <2>2. call[t].rc /\ call[t].cur = 2
    BY <1>1, <2>1 DEF PlaceOf, CallOf, OpPcs, Pair
  <2> QED
    BY <1>1, <2>1, <2>2 DEF Holding, LockedName, Reached, Renamed, At, Op, OpPcs
<1>5. /\ a \in Lowers /\ b \in Lowers /\ call[t].du[1] \in Uppers /\ call[t].du[2] \in Uppers
      /\ low[a].refs # 0 /\ low[b].refs # 0
      /\ low[a].at = call[t].ent[1] /\ low[b].at = call[t].ent[2]
      /\ ulock[call[t].ent[1][1]] = t /\ ulock[call[t].ent[2][1]] = t
  BY <1>4, HeldAt
<1>6. LowerSole'
  BY <1>1, <1>3, <1>4, RenameSole
<1>7. up[call[t].du[1]].inode # NoInode /\ low[a].inode # NoInode
  BY <1>1, <1>5 DEF WalksInv, InodeOf, OpPcs, Agreeing, Lower
<1>8. \A w \in Uppers : up[w].hashed /\ up[w].lower = b => w = call[t].du[2]
  <2> SUFFICES ASSUME NEW w \in Uppers, up[w].hashed, up[w].lower = b PROVE w = call[t].du[2]
    OBVIOUS
  <2>1. SoleOf(t) /\ Under(t, 2)
    BY <1>4 DEF RefsInv, Holding, Under
  <2>2. CASE up[w].at = low[b].at
    BY <1>5, <2>1, <2>2 DEF SoleOf
  <2>3. CASE \E s \in Tasks, k \in 1..2 : Renamed(s) /\ w = call[s].du[k]
    <3>1. PICK s \in Tasks, k \in 1..2 : Renamed(s) /\ w = call[s].du[k]
      BY <2>3
    <3>2. Holding(s, k) /\ Lower(s, k) = b /\ 3 - k \in 1..2
      BY <3>1, RenamedHolds DEF Lower
    <3>3. low[b].at = call[s].ent[3 - k] /\ ulock[call[s].ent[3 - k][1]] = s
      BY <3>1, <3>2, HeldAt, RenamedHolds
    <3> QED
      BY <1>4, <1>5, <3>1, <3>3
  <2> QED
    BY <2>2, <2>3 DEF PlaceInv, Placed
<1> HIDE DEF a, b
<1>9. InStep(t)
  <2> SUFFICES ASSUME NEW l \in Lowers, low[l].refs # 0, low'[l].refs # 0
               PROVE  /\ low[l].stale => low'[l].stale
                      /\ low'[l].inode = low[l].inode
                      /\ low'[l].at # low[l].at => content[low[l].at] = low[l].inode /\ ulock[low[l].at[1]] = t
                      /\ low[l].hashed /\ ~low'[l].hashed => low'[l].at # low[l].at
    BY DEF InStep
  <2>1. CASE l \in {a, b}
    BY <1>3, <1>5, <2>1 DEF RenamedBelow
  <2>2. CASE l \notin {a, b}
    BY <1>3, <2>2 DEF RenamedBelow
  <2> QED
    BY <2>1, <2>2
<1>10. HashStep(t)
  <2> SUFFICES ASSUME NEW w \in Uppers, up[w].hashed, up[w].inode = NoInode
               PROVE  \/ Steady(up[w].lower)'
                      \/ Replaced(w)'
                      \/ low'[up[w].lower].at = low[up[w].lower].at
    BY <1>1, <1>4 DEF HashStep
  <2>1. up[w].lower \in Lowers /\ low[up[w].lower].refs # 0
    BY UsedAreReferred DEF RefsInv, UpperDcache, InUse
  <2>2. CASE up[w].lower = a
    <3>1. low'[a].inode # NoInode
      BY <1>3, <1>5, <1>7 DEF RenamedBelow
    <3> QED
      BY <1>1, <2>2, <3>1 DEF Steady
  <2>3. CASE up[w].lower = b
    <3>1. w = call[t].du[2] /\ call'[t].du = call[t].du
      BY <1>1, <1>8, <2>3 DEF SameCall
    <3> QED
      BY <1>4, <3>1 DEF Replaced
  <2>4. CASE up[w].lower \notin {a, b}
    BY <1>3, <2>1, <2>4 DEF RenamedBelow
  <2> QED
    BY <2>2, <2>3, <2>4
<1> QED
  BY <1>1, <1>2, <1>3, <1>6, <1>9, <1>10, ChangeWalks DEF Making

-----------------------------------------------------------------------------
(* What others do below.                                                    *)

LEMMA BelowWalks ==
  ASSUME RefsInv, RefsInv', PlaceInv, WalksInv, LowersOnly, NEW c, Contents(c),
         InStep(NoOne), NoneComes, Coherent'
  PROVE  WalksInv'
<1>1. call' = call /\ up' = up /\ NoOne \notin Tasks /\ Alone(NoOne)
  BY NoOneIsNoTask DEF LowersOnly, Alone
<1>2. OthersUp(NoOne)
  BY <1>1, CalmOthers DEF CalmUp, NoneHashed
<1>3. Guards(NoOne)
  BY <1>1 DEF Guards, Guarded
<1>4. LowerSole'
  BY <1>1, <1>2, <1>3, SoleKeeps DEF WalksInv
<1>5. HashStep(NoOne)
  <2> SUFFICES ASSUME NEW w \in Uppers, up[w].hashed PROVE low'[up[w].lower].at = low[up[w].lower].at
    BY <1>1 DEF HashStep
  <2>1. up[w].lower \in Lowers
    BY DEF RefsInv, UpperDcache
  <2>2. low'[up[w].lower].refs # 0
    BY <1>1, <2>1, UsedWillBeReferred DEF InUse
  <2>3. low'[up[w].lower].at # <<>>
    BY <2>1, <2>2, UsedWillBeNamed, NoEntryIsEmpty DEF LowersNamed
  <2> QED
    BY <2>1, <2>3 DEF NoneComes
<1>6. Footing(NoOne)
  <2>1. UpStep(NoOne) /\ HoldStep(NoOne) /\ MadeStep(NoOne)
    BY <1>1 DEF UpStep, HoldStep, MadeStep
  <2>2. InodeStep
    BY <1>1 DEF InodeStep, WalksInv, Agreeing
  <2> QED
    BY <1>1, <1>2, <1>5, <2>1, <2>2, ChangesAreSeen DEF Footing
<1> QED
  BY <1>1, <1>4, <1>6, WalksKeep

\* The lower directory changes at e to hold i, and with it the dentry l, if there is one: the
\* lower dentries are those of f, but for the ones nobody needs any more.
ChangesAt(e, i, l, f) ==
  /\ content' = [content EXCEPT ![e] = i]
  /\ l = LowerAt(e)
  /\ f \in [Lowers -> LowerRecs]
  /\ low' = Settled(f)
  /\ \A m \in Lowers : /\ f[m].at = low[m].at /\ f[m].stale = low[m].stale
                       /\ f[m].hashed => low[m].hashed
                       /\ m # l => f[m].inode = low[m].inode
  /\ l \in Lowers => ~f[l].hashed \/ f[l].inode = i

LEMMA ChangedAt ==
  ASSUME RefsInv, RefsInv', WalksInv, NEW e \in Entries, NEW i, NEW l, NEW f, ChangesAt(e, i, l, f)
  PROVE  /\ Coherent' /\ NoneComes
         /\ \A m \in Lowers : low'[m].refs # 0 => low'[m] = f[m]
<1> SUFFICES ASSUME content' = [content EXCEPT ![e] = i], l = LowerAt(e),
                    f \in [Lowers -> LowerRecs], low' = Settled(f),
                    \A m \in Lowers : /\ f[m].at = low[m].at /\ f[m].stale = low[m].stale
                                      /\ f[m].hashed => low[m].hashed
                                      /\ m # l => f[m].inode = low[m].inode,
                    l \in Lowers => ~f[l].hashed \/ f[l].inode = i
             PROVE  /\ Coherent' /\ NoneComes
                    /\ \A m \in Lowers : low'[m].refs # 0 => low'[m] = f[m]
  BY DEF ChangesAt
<1>1. \A m \in Lowers : low'[m] \in {f[m], FreeLower}
  BY DEF Settled
<1>2. \A m \in Lowers : low'[m].at # <<>> \/ low'[m].refs # 0 => low'[m] = f[m]
  BY <1>1, FreesAreFree
<1>3. NoneComes
  BY <1>2 DEF NoneComes
<1>4. Coherent'
  <2> SUFFICES ASSUME NEW m \in Lowers, low'[m].hashed, ~low'[m].stale PROVE content'[low'[m].at] = low'[m].inode
    BY DEF Coherent
  <2>1. low'[m].at \in Entries
    BY UsedWillBeNamed DEF LowersNamed
  <2>2. low'[m] = f[m] /\ low[m].hashed /\ f[m].at = low[m].at /\ ~low[m].stale
    BY <1>2, <2>1, NoEntryIsEmpty
  <2>3. content[low[m].at] = low[m].inode
    BY <2>2 DEF WalksInv, Coherent
  <2>4. low[m].at = e => m = l
    <3> SUFFICES ASSUME low[m].at = e PROVE m = l
      OBVIOUS
    <3>1. l \in Lowers /\ low[l].hashed /\ low[l].at = e
      BY <2>2, LowerFound
    <3> QED
      BY <2>2, <3>1 DEF WalksInv, LowerSole, SoleBelow, Guarded
  <2>5. content \in [Entries -> Maybe]
    BY DEF RefsInv, Types
  <2>6. CASE m = l
    <3>1. f[m].inode = i
      BY <2>2, <2>6
    <3>2. low[m].at = e
      BY <2>2, <2>6, LowerFound
    <3> QED
      BY <2>2, <2>5, <3>1, <3>2
  <2>7. CASE m # l
    <3>1. low'[m].inode = low[m].inode /\ low'[m].at = low[m].at /\ low[m].at # e /\ low[m].at \in Entries
      BY <2>1, <2>2, <2>4, <2>7
    <3> QED
      BY <2>3, <2>5, <3>1
  <2> QED
    BY <2>6, <2>7
<1> QED
  BY <1>2, <1>3, <1>4

LEMMA CreatesWalks ==
  ASSUME RefsInv, PlaceInv, WalksInv, NEW e \in scenario.entries, OtherCreates(e)
  PROVE  WalksInv'
<1> DEFINE l == LowerAt(e)
           i == Some(UnusedInodes)
           f == IF Lone(l) THEN [low EXCEPT ![l].inode = i] ELSE Unhash(low, l)
           c == [content EXCEPT ![e] = i]
<1>1. RefsInv' /\ LowersOnly /\ e \in Entries /\ low \in [Lowers -> LowerRecs]
  BY OtherStepsKeep, EntriesInUse DEF RefsInv, Types, LowerRecs
<1>2. low' = Settled(f) /\ Contents(c) /\ content[e] = NoInode /\ i # NoInode /\ i \in Maybe
  BY UnusedIsPositive, UnusedAreInodes DEF OtherCreates, OtherChanges
<1>3. l \in Lowers \cup {NoDentry} /\ (l \in Lowers => low[l].hashed /\ low[l].at = e)
  BY LowerFound
<1>4. content' = c
  BY <1>2, ChangesAreSeen
<1>5. l = LowerAt(e)
  OBVIOUS
<1> HIDE DEF l, i
<1>6. /\ f \in [Lowers -> LowerRecs]
      /\ \A m \in Lowers : /\ f[m].at = low[m].at /\ f[m].stale = low[m].stale /\ f[m].refs = low[m].refs
                           /\ f[m].hashed => low[m].hashed
                           /\ m # l => f[m].inode = low[m].inode /\ f[m].hashed = low[m].hashed
      /\ l \in Lowers => \/ ~low[l].stale /\ f[l].inode = i /\ f[l].hashed = low[l].hashed
                         \/ low[l].stale /\ f[l].inode = low[l].inode /\ ~f[l].hashed
  <2>1. CASE Lone(l)
    <3>1. l \in Lowers /\ ~low[l].stale /\ f = [low EXCEPT ![l].inode = i]
      BY <1>3, <2>1 DEF Lone
    <3> HIDE DEF f
    <3> QED
      BY <1>1, <1>2, <3>1 DEF LowerRecs
  <2>2. CASE ~Lone(l)
    <3>1. f = Unhash(low, l) /\ (l \in Lowers => low[l].stale)
      BY <1>3, <2>2, Numbers DEF Lone
    <3>2. /\ Unhash(low, l) \in [Lowers -> LowerRecs]
          /\ \A m \in Lowers : /\ Unhash(low, l)[m].at = low[m].at /\ Unhash(low, l)[m].inode = low[m].inode
                               /\ Unhash(low, l)[m].stale = low[m].stale /\ Unhash(low, l)[m].refs = low[m].refs
                               /\ Unhash(low, l)[m].hashed <=> low[m].hashed /\ m # l
      BY <1>1, <1>3, UnhashFields
    <3>3. \A m \in Lowers : f[m].hashed \in BOOLEAN /\ low[m].hashed \in BOOLEAN
      BY <1>1, <3>1, <3>2 DEF LowerRecs
    <3> HIDE DEF f
    <3> QED
      BY <3>1, <3>2, <3>3
  <2> QED
    BY <2>1, <2>2
<1> HIDE DEF f
<1>7. /\ Coherent' /\ NoneComes /\ \A m \in Lowers : low'[m].refs # 0 => low'[m] = f[m]
  <2>1. /\ \A m \in Lowers : /\ f[m].at = low[m].at /\ f[m].stale = low[m].stale
                             /\ f[m].hashed => low[m].hashed
                             /\ m # l => f[m].inode = low[m].inode
        /\ l \in Lowers => ~f[l].hashed \/ f[l].inode = i
    BY <1>6
  <2>2. content' = [content EXCEPT ![e] = i]
    BY <1>4
  <2> HIDE DEF c
  <2> QED
    <3>1. ChangesAt(e, i, l, f)
      BY <1>2, <1>5, <1>6, <2>1, <2>2 DEF ChangesAt
    <3> QED
      BY <1>1, <3>1, ChangedAt
<1>8. l \in Lowers /\ ~low[l].stale => low[l].inode = NoInode /\ content'[low[l].at] = i
  BY <1>1, <1>2, <1>3, <1>4 DEF WalksInv, Coherent, RefsInv, Types
<1>9. InStep(NoOne)
  BY <1>2, <1>6, <1>7, <1>8 DEF InStep
<1> QED
  BY <1>1, <1>2, <1>7, <1>9, BelowWalks

LEMMA RemovesWalks ==
  ASSUME RefsInv, PlaceInv, WalksInv, NEW e \in scenario.entries, OtherRemoves(e)
  PROVE  WalksInv'
<1> DEFINE l == LowerAt(e)
           f == IF Lone(l) /\ low[l].refs = 0 THEN [low EXCEPT ![l].inode = NoInode] ELSE Unhash(low, l)
           c == [content EXCEPT ![e] = NoInode]
<1>1. RefsInv' /\ LowersOnly /\ e \in Entries /\ low \in [Lowers -> LowerRecs]
  BY OtherStepsKeep, EntriesInUse DEF RefsInv, Types, LowerRecs
<1>2. low' = Settled(f) /\ Contents(c) /\ content[e] # NoInode
  BY DEF OtherRemoves, OtherChanges
<1>3. l \in Lowers \cup {NoDentry} /\ (l \in Lowers => low[l].hashed /\ low[l].at = e)
  BY LowerFound
<1>4. content' = c
  BY <1>2, ChangesAreSeen
<1>5. l = LowerAt(e)
  OBVIOUS
<1> HIDE DEF l
<1>6. /\ f \in [Lowers -> LowerRecs]
      /\ \A m \in Lowers : /\ f[m].at = low[m].at /\ f[m].stale = low[m].stale /\ f[m].refs = low[m].refs
                           /\ f[m].hashed => low[m].hashed
                           /\ m # l => f[m].inode = low[m].inode /\ f[m].hashed = low[m].hashed
      /\ l \in Lowers => \/ low[l].refs = 0 /\ f[l].inode = NoInode
                         \/ f[l].inode = low[l].inode /\ ~f[l].hashed
  <2>1. CASE Lone(l) /\ low[l].refs = 0
    <3>1. l \in Lowers /\ f = [low EXCEPT ![l].inode = NoInode]
      BY <1>3, <2>1 DEF Lone
    <3> HIDE DEF f
    <3> QED
      BY <1>1, <2>1, <3>1 DEF LowerRecs, Maybe
  <2>2. CASE ~(Lone(l) /\ low[l].refs = 0)
    <3>1. f = Unhash(low, l)
      BY <2>2
    <3>2. /\ Unhash(low, l) \in [Lowers -> LowerRecs]
          /\ \A m \in Lowers : /\ Unhash(low, l)[m].at = low[m].at /\ Unhash(low, l)[m].inode = low[m].inode
                               /\ Unhash(low, l)[m].stale = low[m].stale /\ Unhash(low, l)[m].refs = low[m].refs
                               /\ Unhash(low, l)[m].hashed <=> low[m].hashed /\ m # l
      BY <1>1, <1>3, UnhashFields
    <3>3. \A m \in Lowers : f[m].hashed \in BOOLEAN /\ low[m].hashed \in BOOLEAN
      BY <1>1, <3>1, <3>2 DEF LowerRecs
    <3> HIDE DEF f
    <3> QED
      BY <3>1, <3>2, <3>3
  <2> QED
    BY <2>1, <2>2
<1> HIDE DEF f
<1>7. /\ Coherent' /\ NoneComes /\ \A m \in Lowers : low'[m].refs # 0 => low'[m] = f[m]
  <2>1. /\ \A m \in Lowers : /\ f[m].at = low[m].at /\ f[m].stale = low[m].stale
                             /\ f[m].hashed => low[m].hashed
                             /\ m # l => f[m].inode = low[m].inode
        /\ l \in Lowers => ~f[l].hashed \/ f[l].inode = NoInode
    BY <1>6
  <2>2. content' = [content EXCEPT ![e] = NoInode]
    BY <1>4
  <2> HIDE DEF c
  <2> QED
    <3>1. ChangesAt(e, NoInode, l, f)
      BY <1>2, <1>5, <1>6, <2>1, <2>2 DEF ChangesAt
    <3> QED
      BY <1>1, <3>1, ChangedAt
<1>8. l \in Lowers => low[l].stale \/ low[l].inode # NoInode
  BY <1>2, <1>3 DEF WalksInv, Coherent
<1>9. InStep(NoOne)
  BY <1>6, <1>7, <1>8 DEF InStep
<1> QED
  BY <1>1, <1>2, <1>7, <1>9, BelowWalks

LEMMA RemoteWalks ==
  ASSUME RefsInv, PlaceInv, WalksInv, NEW e \in scenario.entries, RemoteChange(e)
  PROVE  WalksInv'
<1> DEFINE c == [content EXCEPT ![e] = IF content[e] = NoInode THEN Some(UnusedInodes) ELSE NoInode]
<1>1. RefsInv' /\ LowersOnly /\ low \in [Lowers -> LowerRecs]
  BY OtherStepsKeep DEF RefsInv, Types, LowerRecs
<1>2. low' = Settled(Restaled(low, c)) /\ Contents(c)
  BY DEF RemoteChange, OtherChanges
<1> HIDE DEF c
<1>3. LowersAs(low, c) /\ content' = c
  BY <1>1, <1>2, RestaledIs, ChangesAreSeen
<1>4. Coherent'
  BY <1>1, <1>3, RestaledCoheres
<1>5. NoneComes /\ InStep(NoOne)
  BY <1>3 DEF LowersAs, NoneComes, InStep
<1> QED
  BY <1>1, <1>2, <1>4, <1>5, BelowWalks

-----------------------------------------------------------------------------
(* All of them.                                                             *)

LEMMA StepWalks ==
  ASSUME RefsInv, PlaceInv, WalksInv, scenario.others \cap {"rename", "busy"} = {}, Next
  PROVE  WalksInv'
<1>1. ASSUME NEW t \in Tasks, CallStep(t) PROVE WalksInv'
  <2>1. ASSUME NEW o \in OpNames, NEW e \in scenario.entries, NEW f \in scenario.entries, Begin(t, o, e, f)
        PROVE  WalksInv'
    BY <2>1, BeginWalks
  <2>2. CASE QuietStep(t)
    BY <2>2, QuietsKeep, QuietWalks
  <2>3. CASE LookupStep(t)
    <3>1. \/ QuietStep(t) \/ Lock(t) \/ SecondName(t) \/ RevalInvalid(t)
          \/ LookupCached(t) \/ LookupUncached(t) \/ LookupAgain(t) \/ LookupLowerInvalid(t)
          \/ LookupLowerError(t) \/ InterposeFails(t)
          \/ InterposeRead(t) \/ AddNegative(t) \/ AddPositive(t) \/ AddFails(t)
      BY <2>3 DEF LookupStep, QuietStep
    <3>2. ASSUME LookupUncached(t) \/ LookupAgain(t) PROVE WalksInv'
      <4>1. call[t].pc \in {"dlookup", "relook"} /\ LookupOneLen(t)
        BY <3>2 DEF LookupUncached, LookupAgain, At
      <4> QED
        BY <4>1, OneLenWalks
    <3> QED
      BY <2>2, <3>1, <3>2, LockWalks, RevalWalks, CachedWalks, StopWalks, InterposeWalks, AddWalks
  <2>4. CASE OpStep(t)
    <3>1. \/ QuietStep(t) \/ (LinkSource(t) /\ Positive(t, 1))
          \/ TakeParents(t) \/ Finish(t) \/ RenamePut(t)
          \/ VfsMake(t) \/ VfsRemove(t) \/ VfsRename(t) \/ Return(t)
      BY <2>4 DEF OpStep, QuietStep, Positive
    <3> QED
      BY <2>2, <3>1, LinkWalks, TakeWalks, FinishWalks, MakeWalks, RemoveWalks, RenameWalks, ReturnWalks
  <2> QED
    BY <1>1, <2>1, <2>3, <2>4 DEF CallStep
<1>2. CASE OtherStep
  <2>1. ASSUME NEW e \in scenario.entries, NEW f \in scenario.entries, e # f, OtherRenames(e, f) PROVE FALSE
    BY <2>1, OtherRenamesKeep
  <2> QED
    BY <1>2, <2>1, PruneWalks, CreatesWalks, RemovesWalks, RemoteWalks DEF OtherStep
<1> QED
  BY <1>1, <1>2 DEF Next

LEMMA StutterWalks ==
  ASSUME WalksInv, UNCHANGED vars
  PROVE  WalksInv'
<1>1. UNCHANGED <<scenario, content, seen, low, up, mntRefs, dirRefs, ulock, llock, call>>
  BY DEF vars, below, locks
<1>2. /\ \A t, k : (Holding(t, k)' <=> Holding(t, k)) /\ Lower(t, k)' = Lower(t, k)
      /\ \A t : (Renamed(t)' <=> Renamed(t)) /\ (Made(t)' <=> Made(t)) /\ Op(t)' = Op(t)
      /\ \A t, p : At(t, p)' <=> At(t, p)
  BY <1>1 DEF Holding, LockedName, Reached, Under, Renamed, Made, At, Op, Found, Entry, Lower
<1>3. \A l : (Guarded(l)' <=> Guarded(l)) /\ (SoleBelow(l)' <=> SoleBelow(l)) /\ (Steady(l)' <=> Steady(l))
  BY <1>1, <1>2 DEF Guarded, SoleBelow, Steady
<1>4. LowerSole' /\ Coherent' /\ Agreeing'
  BY <1>1, <1>3 DEF WalksInv, LowerSole, Coherent, Agreeing
<1>5. UpperSteady' /\ \A t \in Tasks : SteadyOf(t)'
  BY <1>1, <1>2, <1>3 DEF WalksInv, UpperSteady, SteadyOf, Replaced
<1>6. \A t \in Tasks : InodeOf(t)'
  BY <1>1, <1>2 DEF WalksInv, InodeOf
<1>7. /\ \A t, u : Around(t, u)' <=> Around(t, u)
      /\ \A t, u : Promising(t, u)' <=> Promising(t, u)
      /\ \A t, u : Answering(t, u)' <=> Answering(t, u)
      /\ \A t, l : Finding(t, l)' <=> Finding(t, l)
  BY <1>1, <1>2 DEF Around, Promising, Answering, MadeBy, Finding
<1>8. \A t \in Tasks : WalkOf(t)'
  BY <1>1, <1>2, <1>7 DEF WalksInv, WalkOf
<1> QED
  BY <1>4, <1>5, <1>6, <1>8 DEF WalksInv

LEMMA WalksInit == Init => WalksInv
<1> SUFFICES ASSUME Init PROVE WalksInv
  OBVIOUS
<1>1. /\ \A t \in Tasks : call[t].pc = "idle" /\ call[t].op = "walk"
      /\ \A l \in Lowers : ~low[l].hashed
      /\ \A u \in Uppers : up[u].inode = NoInode /\ ~up[u].hashed
  BY FreesAreFree DEF Init, Idle
<1>2. LowerSole /\ Coherent /\ Agreeing /\ UpperSteady
  BY <1>1 DEF LowerSole, SoleBelow, Coherent, Agreeing, UpperSteady
<1>3. \A t \in Tasks : SteadyOf(t) /\ InodeOf(t)
  BY <1>1 DEF SteadyOf, InodeOf, Made, At, Op, Making, Removing, OpPcs
<1>4. \A t \in Tasks : WalkOf(t)
  BY <1>1 DEF WalkOf, Finding, At
<1> QED
  BY <1>2, <1>3, <1>4 DEF WalksInv

\* The invariant of the walks, where it holds.
WalksInvMostly == scenario.others \cap {"rename", "busy"} = {} => WalksInv

\* A walk through lofs answers as the lower directory did at some moment during
\* the walk, whatever other calls make, remove or rename through lofs and whatever
\* others make or remove below it, on the server of a network filesystem too
\* (inode.c lofs_lookup, dentry.c lofs_d_revalidate).  Others must not rename
\* below, nor keep a stale lower dentry from being invalidated.
THEOREM WalksAreTruthful == Spec => []WalkTruthfulMostly
<1>1. Init => WalksInvMostly
  BY WalksInit DEF WalksInvMostly
<1>2. NamesInv /\ WalksInvMostly /\ [Next]_vars => WalksInvMostly'
  <2> SUFFICES ASSUME NamesInv, WalksInvMostly, [Next]_vars, (scenario.others \cap {"rename", "busy"} = {})'
               PROVE  WalksInv'
    BY DEF WalksInvMostly
  <2>1. scenario' = scenario
    BY StepKeeps DEF Keeps, NamesInv, vars, below
  <2>2. RefsInv /\ PlaceInv /\ WalksInv /\ scenario.others \cap {"rename", "busy"} = {}
    BY <2>1 DEF NamesInv, WalksInvMostly
  <2> QED
    BY <2>2, StepWalks, StutterWalks
<1>3. WalksInvMostly => WalkTruthfulMostly
  BY DEF WalksInvMostly, WalkTruthfulMostly, WalkTruthful, WalksInv, WalkOf
<1> QED
  BY <1>1, <1>2, <1>3, NamesInvariant, PTL DEF Spec
=============================================================================
