---------------------------- MODULE LookupService ----------------------------
(***************************************************************************)
(* What the lofs kernel thread promises to its callers, with no thread, no  *)
(* lock and no list: a lookup that is accepted is either carried out once,   *)
(* or dropped because the service is closing; a lookup that was never        *)
(* accepted is never carried out; nothing is carried out once the service   *)
(* is closing; and the answer a caller gets is the answer that was given.   *)
(* LofsKthread is shown to implement this module.                           *)
(***************************************************************************)

CONSTANT Clients        \* the tasks that look up managed dentries

VARIABLES
    closing,            \* the service has started to shut down
    phase,              \* phase[c]: how far c's lookup has got
    answer              \* answer[c]: the answer given to it, "none" before

vars == <<closing, phase, answer>>

Phases == {"idle", "asked", "accepted", "answered"}
Answers == {"ok", "enoent", "eio", "enomem"}

TypeOK ==
    /\ closing \in BOOLEAN
    /\ phase \in [Clients -> Phases]
    /\ answer \in [Clients -> Answers \cup {"none"}]

Init ==
    /\ closing = FALSE
    /\ phase = [c \in Clients |-> "idle"]
    /\ answer = [c \in Clients |-> "none"]

Ask(c) ==
    /\ phase[c] = "idle"
    /\ phase' = [phase EXCEPT ![c] = "asked"]
    /\ UNCHANGED <<closing, answer>>

Give(c, a) ==
    /\ phase' = [phase EXCEPT ![c] = "answered"]
    /\ answer' = [answer EXCEPT ![c] = a]
    /\ UNCHANGED closing

\* A request that cannot be allocated, or that comes too late, is refused.
Refuse(c) ==
    /\ phase[c] = "asked"
    /\ \/ Give(c, "enomem")
       \/ closing /\ Give(c, "eio")

Accept(c) ==
    /\ phase[c] = "asked"
    /\ ~closing
    /\ phase' = [phase EXCEPT ![c] = "accepted"]
    /\ UNCHANGED <<closing, answer>>

Serve(c) ==
    /\ phase[c] = "accepted"
    /\ ~closing
    /\ \/ Give(c, "ok")
       \/ Give(c, "enoent")

Drop(c) ==
    /\ phase[c] = "accepted"
    /\ closing
    /\ Give(c, "eio")

Return(c) ==
    /\ phase[c] = "answered"
    /\ phase' = [phase EXCEPT ![c] = "idle"]
    /\ answer' = [answer EXCEPT ![c] = "none"]
    /\ UNCHANGED closing

Close ==
    /\ ~closing
    /\ closing' = TRUE
    /\ UNCHANGED <<phase, answer>>

Step(c) == Refuse(c) \/ Accept(c) \/ Serve(c) \/ Drop(c) \/ Return(c)

Next == Close \/ \E c \in Clients : Ask(c) \/ Step(c)

Spec == Init /\ [][Next]_vars
=============================================================================
