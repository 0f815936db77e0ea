------------------------------ MODULE P4Stats ------------------------------
(***************************************************************************)
(* p4stats (util.tcl, p4commits.tcl) and p42gource: scripts over a log of    *)
(* Perforce changelists.  A path or branch is a sequence of components; a    *)
(* log is a sequence of lines, each the head of a changelist or a file of    *)
(* the last one.  Days are numbered; DayLength and Step are seconds.         *)
(***************************************************************************)
EXTENDS Integers, Sequences, FiniteSets, SequencesExt

CONSTANTS
    Window,        \* days that a printed line sums up (30 in the script)
    MatchUser      \* the users the second argument of p4commits matches
WindowIsPositive == Window \in Nat \ {0}

DayLength == 86400
Step == 86405
Copies == {"branch", "integrate"}
GourceOp(op) ==
    CASE op \in {"add", "move/add"} -> "A"
      [] op = "edit" -> "M"
      [] op \in {"delete", "move/delete", "purge"} -> "D"
      [] OTHER -> "unknown"

-----------------------------------------------------------------------------
(* The filter by branch.  The tree is keyed by a component and the one before *)
(* it, not by the whole path.                                                 *)

Previous(path, i) == IF i = 1 THEN "" ELSE path[i - 1]

\* set tree(p,component) 0 along the branch, then 1 at its end.
AddBranch(tree, branch) ==
    LET along == {<<Previous(branch, i), branch[i]>> : i \in DOMAIN branch}
        end == <<Previous(branch, Len(branch)), branch[Len(branch)]>>
    IN [k \in DOMAIN tree \cup along |->
           IF k = end THEN 1 ELSE IF k \in along THEN 0 ELSE tree[k]]

ParseBranches(branches) == FoldLeft(AddBranch, <<>>, branches)

\* Components in turn, until one is unknown or ends a branch.
IsInteresting(tree, path) ==
    \E i \in DOMAIN path :
        /\ \A j \in 1..i : <<Previous(path, j), path[j]>> \in DOMAIN tree
        /\ tree[<<Previous(path, i), path[i]>>] = 1

\* The length of the branch name in front of the file name.
PrefixLength(tree, path) ==
    CHOOSE i \in DOMAIN path :
        /\ tree[<<Previous(path, i), path[i]>>] = 1
        /\ \A j \in 1..(i - 1) : tree[<<Previous(path, j), path[j]>>] = 0

-----------------------------------------------------------------------------
(* p42gource                                                                *)

GourceLine(tree, s, line) ==
    CASE line.kind = "change" -> [s EXCEPT !.user = line.user, !.day = line.day]
      [] /\ line.kind = "file" /\ line.op \notin Copies
         /\ IsInteresting(tree, line.path) /\ GourceOp(line.op) # "unknown" ->
            [s EXCEPT !.out = Append(@, [day |-> s.day, user |-> s.user, op |-> GourceOp(line.op),
                 name |-> SubSeq(line.path, PrefixLength(tree, line.path) + 1, Len(line.path))])]
      [] OTHER -> s

Gource(branches, log) ==
    LET tree == ParseBranches(branches)
        Line(s, line) == GourceLine(tree, s, line)
    IN FoldLeft(Line, [user |-> "", day |-> 0, out |-> <<>>], log).out

-----------------------------------------------------------------------------
(* p4commits                                                                *)

\* Mutant: a changelist is counted with the user and day of the next one.
IntegrateLate(s, line) ==
    IF ~s.interesting \/ s.user \notin MatchUser THEN s
    ELSE [s EXCEPT !.counted = Append(@, [day |-> line.day, user |-> line.user])]

\* The head of a changelist adds the one before it to changes(day), users(day).
Integrate(s, line) ==
    IF ~s.interesting \/ s.user \notin MatchUser THEN s
    ELSE [s EXCEPT !.counted = Append(@, [day |-> s.day, user |-> s.user])]

CommitsLine(tree, s, line) ==
    CASE line.kind = "change" ->
            [Integrate(s, line) EXCEPT !.user = line.user, !.day = line.day,
                                       !.interesting = FALSE]
      [] line.kind = "file" /\ line.op \notin Copies /\ IsInteresting(tree, line.path) ->
            [s EXCEPT !.interesting = TRUE]
      [] OTHER -> s

\* A day of the sweep: its changes come in, and once the window is exceeded the
\* oldest day goes out and a line is printed.
SweepDay(counted, s, day) ==
    LET days == Append(s.days, SelectSeq(counted, LAMBDA c : c.day = day))
    IN IF Len(days) <= Window THEN [s EXCEPT !.days = days, !.sum = @ + Len(Last(days))]
       ELSE LET sum == s.sum + Len(Last(days)) - Len(days[1])
            IN [days |-> Tail(days), sum |-> sum,
                out |-> Append(s.out, [day |-> day, sum |-> sum,
                          users |-> Cardinality({c.user : c \in ToSet(FlattenSeq(Tail(days)))})])]

\* for {set i $start} {$i <= $end} {incr i 86405}: the days that are visited.
Sweep(start, end) ==
    LET last == ((end - start) * DayLength) \div Step
    IN [n \in 1..(last + 1) |-> (start * DayLength + (n - 1) * Step) \div DayLength]

\* Without an interesting changelist the dates are not set: a Tcl error.
Commits(branches, log) ==
    LET tree == ParseBranches(branches)
        Line(s, line) == CommitsLine(tree, s, line)
        counted == FoldLeft(Line, [interesting |-> FALSE, user |-> "", day |-> 0,
                                   counted |-> <<>>], log).counted
        Day(s, day) == SweepDay(counted, s, day)
    IN IF counted = <<>> THEN "error"
       ELSE FoldLeft(Day, [days |-> <<>>, sum |-> 0, out |-> <<>>],
                     Sweep(counted[1].day, Last(counted).day)).out

-----------------------------------------------------------------------------
(* What is promised                                                         *)

OnBranch(branches, path) == \E b \in DOMAIN branches : IsPrefix(branches[b], path)

\* Two branches that have a component and the one before it in common have all
\* before them in common, and no branch lies within another: only then is the
\* tree of pairs as good as a tree of paths.
Unambiguous(branches) ==
    \A a, b \in DOMAIN branches :
        /\ a # b => ~IsPrefix(branches[a], branches[b])
        /\ \A i \in DOMAIN branches[a], j \in DOMAIN branches[b] :
              /\ branches[a][i] = branches[b][j]
              /\ Previous(branches[a], i) = Previous(branches[b], j)
              => SubSeq(branches[a], 1, i) = SubSeq(branches[b], 1, j)

\* p42gource prints the files of the branches, and no others, with the change
\* they belong to and the name they have within the branch.
Owner(log, i) == log[CHOOSE h \in 1..i : log[h].kind = "change"
                                         /\ \A j \in (h + 1)..i : log[j].kind # "change"]
GourceIsExact(branches, log, out) ==
    Unambiguous(branches) =>
        LET wanted == {i \in DOMAIN log :
                          /\ log[i].kind = "file"
                          /\ log[i].op \notin Copies /\ GourceOp(log[i].op) # "unknown"
                          /\ OnBranch(branches, log[i].path)}
            order == SetToSortSeq(wanted, <)
        IN /\ Len(out) = Len(order)
           /\ \A k \in DOMAIN order :
                 LET i == order[k] IN
                 /\ out[k].user = Owner(log, i).user /\ out[k].day = Owner(log, i).day
                 /\ \E b \in DOMAIN branches : branches[b] \o out[k].name = log[i].path

\* p4commits prints, for every day from the end of the first window to the day
\* before the last one counted, the changes and users of the window that ends
\* there.  The last changelist of the log is never counted, and the last day is
\* never reached, as a step is five seconds longer than a day.
WindowsAreTrue(branches, log, out) ==
    Unambiguous(branches) =>
        LET heads == {h \in DOMAIN log : log[h].kind = "change"}
            Touched(h) == \E i \in DOMAIN log :
                             /\ i > h /\ log[i].kind = "file" /\ log[i].op \notin Copies
                             /\ \A j \in (h + 1)..i : log[j].kind # "change"
                             /\ OnBranch(branches, log[i].path)
            counted == {h \in heads : /\ Touched(h) /\ log[h].user \in MatchUser
                                    /\ \E n \in heads : n > h}
            first == CHOOSE h \in counted : \A n \in counted : h <= n
            final == CHOOSE h \in counted : \A n \in counted : h >= n
            lines == [n \in 1..(log[final].day - log[first].day - Window) |->
                         log[first].day + Window + n - 1]
            In(day) == {h \in counted : day - Window < log[h].day /\ log[h].day <= day}
        IN IF counted = {} THEN out = "error"
           ELSE out = [n \in DOMAIN lines |->
                          [day |-> lines[n], sum |-> Cardinality(In(lines[n])),
                           users |-> Cardinality({log[h].user : h \in In(lines[n])})]]
=============================================================================
