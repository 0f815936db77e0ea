----------------------------- MODULE Base0Locks -----------------------------
(***************************************************************************)
(* base0fs: POSIX record locks (base0fs/file.c).  A lock is taken on the     *)
(* lower file and then on the upper one, by a posix_lock_file each; others   *)
(* lock the lower file directly.  One range of one file, and processes of a  *)
(* single thread.                                                            *)
(***************************************************************************)
EXTENDS Naturals, FiniteSets

CONSTANTS
    Procs,          \* processes that lock through base0fs
    Outsider        \* one that locks the lower file

ASSUME OutsiderIsAnother == Outsider \notin Procs

Owners == Procs \cup {Outsider}
Modes == {"none", "read", "write"}
Commands == {"SETLK", "SETLKW", "SETLK64"}
Levels == {"lower", "upper"}

VARIABLES
    locks,          \* locks[v][o]: what o holds at level v
    lpc,            \* where a process is in base0fs_setlk: the level it locks
    want, cmd,      \* its fl_type and cmd
    fl_next,        \* the level and owner of the lock it sleeps on; <<>>: none
    rolledBack      \* ghost: who lost a lower lock to a call that failed
lockingVars == <<locks, lpc, want, cmd, fl_next, rolledBack>>

LocksTypeOK ==
    /\ locks \in [Levels -> [Owners -> Modes]]
    /\ lpc \in [Procs -> {"idle", "rollback"} \cup Levels]
    /\ want \in [Procs -> Modes] /\ cmd \in [Procs -> Commands]
    /\ fl_next \in [Procs -> {<<>>} \cup (Levels \X Owners)]
    /\ rolledBack \subseteq Procs

LocksInit ==
    /\ locks = [v \in Levels |-> [o \in Owners |-> "none"]]
    /\ lpc = [p \in Procs |-> "idle"]
    /\ want = [p \in Procs |-> "none"] /\ cmd = [p \in Procs |-> "SETLK"]
    /\ fl_next = [p \in Procs |-> <<>>]
    /\ rolledBack = {}

-----------------------------------------------------------------------------
(* posix_lock_file                                                          *)

Blockers(v, o, m) ==
    {q \in Owners \ {o} : \/ m # "none" /\ locks[v][q] = "write"
                          \/ m = "write" /\ locks[v][q] = "read"}

\* o's lock becomes m, and who slept on the old one is woken.
SetLock(v, o, m) ==
    /\ locks' = [locks EXCEPT ![v][o] = m]
    /\ fl_next' = [p \in Procs |-> IF fl_next[p] = <<v, o>> THEN <<>> ELSE fl_next[p]]

\* posix_locks_deadlock: q sleeps, through whatever chain, on a lock of p.
Deadlock(p, q) ==
    LET next(o) == IF o \in Procs /\ fl_next[o] # <<>> THEN fl_next[o][2] ELSE o
        chain[n \in 0..Cardinality(Owners)] == IF n = 0 THEN q ELSE next(chain[n - 1])
    IN \E n \in 0..Cardinality(Owners) : chain[n] = p

-----------------------------------------------------------------------------
(* base0fs_setlk                                                            *)

\* base0fs_lock with a command that sets a lock; a close unlocks this way too.
Setlk(p, c, m) ==
    /\ lpc[p] = "idle"
    /\ lpc' = [lpc EXCEPT ![p] = "lower"]
    /\ want' = [want EXCEPT ![p] = m] /\ cmd' = [cmd EXCEPT ![p] = c]
    /\ UNCHANGED <<locks, fl_next, rolledBack>>

\* Mutant: the upper file is locked first and the lower one not at all.
FirstLevelUpper(v) == IF v = "lower" THEN "upper" ELSE v

\* The file that a pass of base0fs_posix_lock works on.
LevelOf(v) == v

\* posix_lock_file succeeds; the upper file comes after the lower one.
PosixLock(p, v) ==
    /\ lpc[p] = v /\ fl_next[p] = <<>>
    /\ Blockers(LevelOf(v), p, want[p]) = {}
    /\ SetLock(LevelOf(v), p, want[p])
    /\ lpc' = [lpc EXCEPT ![p] = IF v = "lower" THEN "upper" ELSE "idle"]
    /\ rolledBack' = IF v = "upper" THEN rolledBack \ {p} ELSE rolledBack
    /\ UNCHANGED <<want, cmd>>

\* The call fails; at the upper file the lower lock has to be undone.
Fail(p, v) ==
    /\ lpc' = [lpc EXCEPT ![p] = IF v = "upper" THEN "rollback" ELSE "idle"]
    /\ UNCHANGED <<locks, want, cmd, rolledBack>>

\* Mutant: every command goes round the loop again.
EndsLoopNever(c) == FALSE

\* F_SETLK64 is not F_SETLK, and goes round again with nothing to wait for.
EndsLoop(c) == c = "SETLK"

ConflictFails(p, v) ==
    /\ lpc[p] = v /\ fl_next[p] = <<>>
    /\ \E q \in Blockers(v, p, want[p]) :
          EndsLoop(cmd[p]) \/ (cmd[p] = "SETLKW" /\ Deadlock(p, q))
    /\ Fail(p, v)
    /\ UNCHANGED fl_next

ConflictSleeps(p, v) ==
    /\ lpc[p] = v /\ fl_next[p] = <<>>
    /\ cmd[p] = "SETLKW"
    /\ \E q \in Blockers(v, p, want[p]) :
          ~Deadlock(p, q) /\ fl_next' = [fl_next EXCEPT ![p] = <<v, q>>]
    /\ UNCHANGED <<locks, lpc, want, cmd, rolledBack>>

\* wait_event_interruptible meets a signal, and locks_delete_block.
Interrupted(p, v) ==
    /\ lpc[p] = v /\ fl_next[p] # <<>>
    /\ fl_next' = [fl_next EXCEPT ![p] = <<>>]
    /\ Fail(p, v)

\* F_UNLCK on the lower file: also of what p held there before the call.
Rollback(p) ==
    /\ lpc[p] = "rollback"
    /\ SetLock("lower", p, "none")
    /\ rolledBack' = rolledBack \cup {p}
    /\ lpc' = [lpc EXCEPT ![p] = "idle"]
    /\ UNCHANGED <<want, cmd>>

\* Someone locks the lower file, without waiting.
OutsiderLocks(m) ==
    /\ Blockers("lower", Outsider, m) = {}
    /\ SetLock("lower", Outsider, m)
    /\ UNCHANGED <<lpc, want, cmd, rolledBack>>

SetlkStep(p) ==
    \/ \E v \in Levels : PosixLock(p, v) \/ ConflictFails(p, v) \/ ConflictSleeps(p, v)
    \/ Rollback(p)

LocksNext ==
    \/ \E p \in Procs, c \in Commands, m \in Modes : Setlk(p, c, m)
    \/ \E p \in Procs : SetlkStep(p)
    \/ \E p \in Procs, v \in Levels : Interrupted(p, v)
    \/ \E m \in Modes : OutsiderLocks(m)

\* A thread in base0fs_setlk is scheduled; nobody is made to send a signal.
LocksFairness == \A p \in Procs : WF_lockingVars(SetlkStep(p))

LocksSpec == LocksInit /\ [][LocksNext]_lockingVars /\ LocksFairness

-----------------------------------------------------------------------------
(* What correctness means                                                   *)

\* What p may do with the file between its calls it may do with respect to the
\* users of the lower file too: its lock on the upper file is its lock on the
\* lower one (base0fs_setlk, the order of its two locks and the way back).  A
\* failed call costs p the lower lock it had before; rolledBack leaves that out.
LocksBacked ==
    /\ LocksTypeOK
    /\ \A p \in Procs :
        lpc[p] = "idle" /\ p \notin rolledBack => locks["lower"][p] = locks["upper"][p]

\* A call returns or sleeps on a lock that a wakeup comes from (the loop of
\* base0fs_posix_lock), except F_SETLK64, which spins while there is a conflict.
CallsReturnOrSleep ==
    \A p \in Procs :
        (lpc[p] # "idle" /\ cmd[p] # "SETLK64") ~> (lpc[p] = "idle" \/ fl_next[p] # <<>>)
=============================================================================
