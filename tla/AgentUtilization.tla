-------------------------- MODULE AgentUtilization --------------------------
(***************************************************************************)
(* AgentUtilization.tcl: how long a build used how many agents at once.      *)
(* Times are in half hundredths of a second, so that the script's comparison *)
(* of int(t * 100) is a comparison of t \div 2.  An agent is its sequence of *)
(* jobs [start, finish], one after the other.                                *)
(***************************************************************************)
EXTENDS Integers, Sequences, FiniteSets, SequencesExt

Hundredths(t) == t \div 2
Pair(p) == <<[t |-> p.start, e |-> 1], [t |-> p.finish, e |-> -1]>>

\* A job prolongs the agent's stretch (the pseudo job) if it starts within the
\* same hundredth; otherwise the stretch goes to the events and a new one begins.
Merge(s, job) ==
    CASE ~s.open -> [s EXCEPT !.open = TRUE, !.pseudo = job]
      [] s.open /\ Hundredths(job.start) <= Hundredths(s.pseudo.finish) ->
            [s EXCEPT !.pseudo.finish = job.finish]
      [] OTHER -> [s EXCEPT !.events = @ \o Pair(s.pseudo), !.pseudo = job]

\* The stretch an agent ends with stays in "pseudo", and the next agent resets it.
AgentEvents(jobs) ==
    FoldLeft(Merge, [open |-> FALSE, pseudo |-> [start |-> -1, finish |-> -1],
                     events |-> <<>>], jobs).events

\* lsort: by time, events of one time stay in order.
Order(events) ==
    LET Before(i, j) == events[i].t < events[j].t \/ (events[i].t = events[j].t /\ i < j)
        order == SetToSortSeq(DOMAIN events, Before)
    IN [k \in DOMAIN order |-> events[order[k]]]

Account(s, event) ==
    [ total |-> [c \in DOMAIN s.total \cup {s.count} |->
                    (IF c \in DOMAIN s.total THEN s.total[c] ELSE 0)
                    + (IF c = s.count THEN event.t - s.last ELSE 0)],
      count |-> s.count + event.e,
      last  |-> event.t ]

\* Time with at least c agents, for each c from the largest down.
Cumulate(total) ==
    LET counts == SetToSortSeq(DOMAIN total, LAMBDA a, b : a > b)
        Add(res, c) == Append(res, [t |-> total[c] + (IF res = <<>> THEN 0 ELSE Last(res).t),
                                    c |-> c])
    IN FoldLeft(Add, <<>>, counts)

\* Without any event the list is never created and the report is a Tcl error.
GetAgentUtilization(agents) ==
    LET events == FlattenSeq([a \in DOMAIN agents |-> AgentEvents(agents[a])])
    IN IF events = <<>> THEN "error"
       ELSE Cumulate(FoldLeft(Account, [total |-> <<>>, count |-> 0, last |-> 0],
                              Order(events)).total)

-----------------------------------------------------------------------------
\* The reported times are those one gets by asking, for each instant, which
\* agents are busy: within a job or between two that follow within a hundredth.
\* What an agent does after its last pause is not reported, although the header
\* promises "how many agents the build actually used at once, and for how long".
LastStretch(jobs) ==
    CHOOSE i \in DOMAIN jobs :
        /\ \A j \in (i + 1)..Len(jobs) :
              Hundredths(jobs[j].start) <= Hundredths(jobs[j - 1].finish)
        /\ i > 1 => Hundredths(jobs[i].start) > Hundredths(jobs[i - 1].finish)
Reported(jobs) == IF jobs = <<>> THEN <<>> ELSE SubSeq(jobs, 1, LastStretch(jobs) - 1)
BusyAt(jobs, x) ==
    \/ \E i \in DOMAIN jobs : jobs[i].start <= x /\ x < jobs[i].finish
    \/ \E i \in 2..Len(jobs) :
          /\ Hundredths(jobs[i].start) <= Hundredths(jobs[i - 1].finish)
          /\ jobs[i - 1].finish <= x /\ x < jobs[i].start

UtilizationIsTrue(agents, result) ==
    LET reported == [a \in DOMAIN agents |-> Reported(agents[a])]
        ends == UNION {{Last(reported[a]).finish} : a \in {a \in DOMAIN agents : reported[a] # <<>>}}
        end == CHOOSE x \in ends : \A y \in ends : x >= y
        Used(x) == Cardinality({a \in DOMAIN agents : BusyAt(reported[a], x)})
    IN IF ends = {} THEN result = "error"
       ELSE \A i \in DOMAIN result :
               /\ result[i].t = Cardinality({x \in 0..(end - 1) : Used(x) >= result[i].c})
               /\ \A x \in 0..(end - 1) : \E j \in DOMAIN result : result[j].c = Used(x)
=============================================================================
