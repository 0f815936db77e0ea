------------------------------ MODULE MCTools ------------------------------
(***************************************************************************)
(* The command line tools, each on small inputs.  A behaviour runs one tool: *)
(* the reports are functions of their input and take one step; the text      *)
(* generator and the index library are state machines.                       *)
(***************************************************************************)
EXTENDS Integers, Sequences, FiniteSets, SequencesExt, TLC

CONSTANTS
    Window, MatchUser,                               \* P4Stats
    K, OutputChars, IntMax, RandMax, Newline,        \* Markov
    Pages, RawLen, EncLen, ChunkSize, OffWords, MaxPuts   \* ScaIndex

VARIABLES tool, input, output
VARIABLES text, generated, status
VARIABLES fast, file, hdr, idx, put, tailed, quirks, puts

R == INSTANCE ReadBeforeWrite
A == INSTANCE AgentUtilization
P == INSTANCE P4Stats
C == INSTANCE AnnoCat
M == INSTANCE Markov WITH output <- generated
S == INSTANCE ScaIndex

\* What the modules require of their constants.
ASSUME ToolSizes == P!WindowIsPositive /\ M!MarkovSizes /\ S!ScaSizes

reportVars == <<tool, input, output>>
markovVars == <<text, generated, status>>
scaVars == <<fast, file, hdr, idx, put, tailed, quirks, puts>>
vars == <<reportVars, markovVars, scaVars>>

\* Pages of two cells that encode to fewer and to more, and a short page.
PageRaw == [p \in Pages |-> IF p = "c" THEN 1 ELSE 2]
PageEncoded == [p \in Pages |-> IF p = "b" THEN 3 ELSE 1]

-----------------------------------------------------------------------------
(* Inputs                                                                   *)

\* Two jobs and one file with up to three operations, another with up to one.
Operation == [job : {"j1", "j2"}, op : {"read", "failedlookup", "modify", "unlink"}]
BuildFiles == {<<f, g>> : f \in BoundedSeq(Operation, 3), g \in BoundedSeq(Operation, 1)}

\* Agents with up to three jobs, one after the other, within two hundredths.
JobsUpTo(n, end) ==
    UNION {{[i \in 1..m |-> [start |-> f[2 * i - 1], finish |-> f[2 * i]]] :
               f \in {g \in [1..(2 * m) -> 0..end] :
                         \A i \in 1..(2 * m - 1) : g[i] <= g[i + 1]}} : m \in 0..n}
Agents == {<<a, b>> : a \in JobsUpTo(3, 4), b \in JobsUpTo(2, 4)}

\* All lists of up to two branches and one file on any path, then another file.
Paths(depth) == BoundedSeq({"a", "b"}, depth) \ {<<>>}
Change(user, day) == [kind |-> "change", user |-> user, day |-> day]
FileLine(path, op) == [kind |-> "file", path |-> path, op |-> op]
BranchLists == BoundedSeq(Paths(2), 2) \ {<<>>}
GourceInputs ==
    {[branches |-> b,
      log |-> <<Change("u", 1), FileLine(p, op), Change("v", 2), FileLine(q, "add")>>] :
        b \in BranchLists, p \in Paths(3), op \in {"edit", "purge", "branch", "obliterate"},
        q \in {<<"a", "b", "b">>, <<"b">>}}

\* Up to four changelists on up to five days, on the branch or not.
Touches(n) == {t \in [1..n -> [user : {"u", "v"}, day : 1..5, path : {<<"a", "b">>, <<"b">>}]] :
                  \A i \in 1..(n - 1) : t[i].day <= t[i + 1].day}
CommitInputs ==
    {[branches |-> <<<<"a">>>>,
      log |-> FlattenSeq([i \in DOMAIN t |-> <<Change(t[i].user, t[i].day), FileLine(t[i].path, "edit")>>])] :
        t \in UNION {Touches(n) : n \in 1..4}}

\* One to three annotation files: with or without an environment and metrics, one
\* or two jobs, the second waited for by the first.
Tok(kind, el) == [kind |-> kind, el |-> el, id |-> 0, refs |-> {}, invoked |-> 0, completed |-> 0]
Block(el, contents) == <<Tok("start", el)>> \o contents \o <<Tok("end", el)>>
JobEvents(n, i, t) ==
    <<[Tok("start", "job") EXCEPT !.id = i],
      [Tok("start", "timing") EXCEPT !.invoked = t[1], !.completed = t[2]], Tok("end", "timing")>>
    \o (IF i < n THEN <<[Tok("start", "waitingJobs") EXCEPT !.refs = {i + 1}],
                        Tok("end", "waitingJobs")>> ELSE <<>>)
    \o <<Tok("end", "job")>>
AnnoFile(id, env, metrics, times) ==
    <<[Tok("start", "build") EXCEPT !.id = id]>>
    \o (IF env THEN Block("environment", Block("var", <<>>)) ELSE <<>>)
    \o Block("make", FlattenSeq([i \in DOMAIN times |-> JobEvents(Len(times), i, times[i])]))
    \o (IF metrics THEN Block("metrics", Block("metric", <<Tok("text", "metric")>>)) ELSE <<>>)
    \o <<Tok("end", "build")>>
Times == {<<0, 1>>, <<1, 1>>, <<0, 2>>, <<1, 2>>}
FirstFiles == {AnnoFile("b1", e, m, t) : e, m \in BOOLEAN, t \in BoundedSeq(Times, 2) \ {<<>>}}
SecondFiles == {AnnoFile("b2", e, m, t) : e, m \in BOOLEAN, t \in BoundedSeq({<<0, 1>>, <<1, 2>>}, 2) \ {<<>>}}
\* A third one only where it matters that the times add up.
ShortFiles(id) == {AnnoFile(id, FALSE, FALSE, <<t>>) : t \in {<<0, 1>>, <<1, 2>>}}
AnnoInputs == {<<f>> : f \in FirstFiles} \cup {<<f, g>> : f \in FirstFiles, g \in SecondFiles}
              \cup {<<f, g, h>> : f \in ShortFiles("b1"), g \in ShortFiles("b2"), h \in ShortFiles("b3")}

Samples == UNION {[1..n -> 1..3] : n \in 2..5}

-----------------------------------------------------------------------------
NoInput == <<>>
Idle == tool \in {"markov", "sca"} /\ input = NoInput

Init ==
    /\ output = "none"
    /\ S!ScaInit
    /\ \/ tool = "ReadBeforeWrite" /\ input \in BuildFiles
       \/ tool = "AgentUtilization" /\ input \in Agents
       \/ tool = "p42gource" /\ input \in GourceInputs
       \/ tool = "p4commits" /\ input \in CommitInputs
       \/ tool = "annocat" /\ input \in AnnoInputs
       \/ Idle
    /\ tool # "sca" => ~fast
    /\ IF tool = "markov" THEN M!MarkovInit(Samples)
       ELSE text = <<>> /\ generated = <<>> /\ status = "seed"

Report ==
    /\ output = "none"
    /\ \/ tool = "ReadBeforeWrite" /\ output' = R!FindReadBeforeWrite(input)
       \/ tool = "AgentUtilization" /\ output' = A!GetAgentUtilization(input)
       \/ tool = "p42gource" /\ output' = P!Gource(input.branches, input.log)
       \/ tool = "p4commits" /\ output' = P!Commits(input.branches, input.log)
       \/ tool = "annocat" /\ output' = C!Concatenate(input)
    /\ UNCHANGED <<tool, input, markovVars, scaVars>>

Generate == tool = "markov" /\ M!MarkovNext /\ UNCHANGED <<reportVars, scaVars>>
UseIndex == tool = "sca" /\ S!ScaNext /\ UNCHANGED <<reportVars, markovVars>>

Next == Report \/ Generate \/ UseIndex

Spec == Init /\ [][Next]_vars

-----------------------------------------------------------------------------
Ran(t) == tool = t /\ output # "none"

\* The two reports on a build: ReadBeforeWrite.tcl names exactly the files that
\* are read before their first write; AgentUtilization.tcl reports what one would
\* count at each instant, last stretches excepted.
BuildReportsAreTrue ==
    /\ Ran("ReadBeforeWrite") => R!ReportIsExact(input, output)
    /\ Ran("AgentUtilization") => A!UtilizationIsTrue(input, output)

\* The two reports on a depot: p42gource.tcl prints exactly the files of the
\* listed branches, p4commits.tcl the changes and users of each window.
DepotReportsAreTrue ==
    /\ Ran("p42gource") => P!GourceIsExact(input.branches, input.log, output)
    /\ Ran("p4commits") => P!WindowsAreTrue(input.branches, input.log, output)

\* annocat.pl writes one well-formed build whose references resolve, and puts the
\* builds one after the other.
OneSerialBuild ==
    Ran("annocat") => C!LooksLikeOneBuild(output) /\ C!BuildsAreSerial(input, output)

\* The text that markov generates is one of order K over the sample.
MarkovText == M!MarkovText

\* Pages put with sca_aux.c are read back, the header knows the file's size, and
\* whole files round trip.
IndexIsExact == S!PagesReadBack /\ S!RealSizeIsTrue /\ S!RoundTrip
=============================================================================
