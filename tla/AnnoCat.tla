------------------------------ MODULE AnnoCat ------------------------------
(***************************************************************************)
(* annocat.pl: makes one annotation file of several, with stub jobs between  *)
(* the builds.  A file is a sequence of parser events                        *)
(*    [kind |-> "start" | "end" | "text", el, id, refs, invoked, completed]  *)
(* and the output a sequence of tags.  A job identifier is <<build, job>>,   *)
(* or <<"fake", n>> for a stub (no build is called "fake").                  *)
(***************************************************************************)
EXTENDS Integers, Sequences, FiniteSets, SequencesExt

NoId == <<>>
Open(el, id, refs) == [tag |-> "open", el |-> el, id |-> id, refs |-> refs]
Close(el) == [tag |-> "close", el |-> el]
Timing(invoked, completed) == [tag |-> "timing", invoked |-> invoked, completed |-> completed]
Text == [tag |-> "text"]

ScopeJobId(s, id) == <<s.buildId, id>>
Fake(n) == <<"fake", n>>

Emit(s, tags) == IF s.buffering THEN [s EXCEPT !.buffered = @ \o tags]
                 ELSE [s EXCEPT !.out = @ \o tags]
Flush(s) == [s EXCEPT !.out = @ \o s.buffered, !.buffered = <<>>]

\* A stub goes to the output even while the rest is buffered.
EmitFakeJob(s, type, emitWaiters, extraWaiter) ==
    LET n == s.fakeId
        partof == IF type = "follow" THEN {Fake(n - 1)} ELSE {}
        waiters == {Fake(0)} \cup (IF emitWaiters THEN {Fake(n + 1)} ELSE {}) \cup extraWaiter
    IN [s EXCEPT !.out = @ \o <<Open("job", Fake(n), partof), Timing(s.elapsed, s.elapsed)>>
                           \o (IF n = 0 THEN <<>>
                               ELSE <<Open("waitingJobs", NoId, waiters), Close("waitingJobs")>>)
                           \o <<Close("job")>>,
                 !.fakeId = n + 1]

-----------------------------------------------------------------------------
StartBuild(s, t) ==
    LET first == s.buildCount = 0
        s1 == IF first THEN Emit(s, <<Open("build", NoId, {})>>) ELSE s
    IN [s1 EXCEPT !.buildCount = @ + 1, !.enabled = TRUE, !.buffering = TRUE, !.buildId = t.id]

\* Mutant: gMax is the completion relative to the build's own start.
StartTimingUnshifted(s, t) ==
    [Emit(s, <<Timing(t.invoked + s.elapsed, t.completed + s.elapsed)>>)
        EXCEPT !.max = t.completed]

\* gMax is the last completion seen, whatever its comment says.
StartTiming(s, t) ==
    [Emit(s, <<Timing(t.invoked + s.elapsed, t.completed + s.elapsed)>>)
        EXCEPT !.max = t.completed + s.elapsed]

\* The first job of a build: the stub jobs go in front of what was buffered.
FirstJob(s, t) ==
    LET s1 == [s EXCEPT !.buffering = FALSE]
        s2 == IF s1.buildCount > 1 THEN EmitFakeJob(s1, "follow", TRUE, {})
              ELSE Emit(s1, <<Open("make", NoId, {})>>)
    IN Flush(EmitFakeJob(s2, "rule", TRUE, {ScopeJobId(s, t.id)}))

StartOther(s, t) ==
    IF ~s.enabled THEN s
    ELSE LET s1 == IF t.el = "job" /\ s.buffering THEN FirstJob(s, t) ELSE s
             id == IF t.el = "job" THEN ScopeJobId(s, t.id) ELSE NoId
         IN Emit(s1, <<Open(t.el, id, {ScopeJobId(s, r) : r \in t.refs})>>)

AnnoElementStart(s, t) ==
    CASE t.el = "build" -> StartBuild(s, t)
      [] t.el \in {"environment", "properties"} ->
            IF s.buildCount > 1 THEN [s EXCEPT !.enabled = FALSE]
            ELSE Emit(s, <<Open(t.el, NoId, {})>>)
      [] t.el = "metrics" -> [s EXCEPT !.enabled = FALSE]
      [] t.el = "timing" -> StartTiming(s, t)
      [] OTHER -> StartOther(s, t)

AnnoElementEnd(s, t) ==
    CASE t.el \in {"build", "timing"} -> s
      [] t.el \in {"environment", "properties", "metrics"} ->
            [(IF s.enabled THEN Flush(Emit(s, <<Close(t.el)>>)) ELSE s) EXCEPT !.enabled = TRUE]
      [] OTHER -> IF s.enabled THEN Emit(s, <<Close(t.el)>>) ELSE s

AnnoCDATA(s, t) == IF s.enabled THEN Emit(s, <<Text>>) ELSE s

Event(s, t) ==
    CASE t.kind = "start" -> AnnoElementStart(s, t)
      [] t.kind = "end" -> AnnoElementEnd(s, t)
      [] t.kind = "text" -> AnnoCDATA(s, t)

Begin == [enabled |-> FALSE, buildCount |-> 0, elapsed |-> 0, max |-> 0, buildId |-> 0,
          fakeId |-> 1, buffering |-> FALSE, buffered |-> <<>>, out |-> <<>>]

CatFile(s, file) == LET s1 == FoldLeft(Event, s, file) IN [s1 EXCEPT !.elapsed = s1.max]

\* The last follow job, the end job (J00000000) and the closing tags.
Finish(s) ==
    LET follow == EmitFakeJob(s, "follow", FALSE, {})
        end == EmitFakeJob([follow EXCEPT !.fakeId = 0], "end", FALSE, {})
    IN Emit(end, <<Close("make"), Close("build")>>)

Concatenate(files) == Finish(FoldLeft(CatFile, Begin, files)).out

-----------------------------------------------------------------------------
\* The output is one element with properly nested contents.
Walk(stack, tag) ==
    CASE tag.tag = "open" -> Append(stack, tag.el)
      [] tag.tag = "close" -> IF stack # <<>> /\ Last(stack) = tag.el THEN Front(stack)
                              ELSE <<"broken">> \o stack
      [] OTHER -> stack
Nested(out) ==
    /\ FoldLeft(Walk, <<>>, out) = <<>>
    /\ \A n \in 1..(Len(out) - 1) : FoldLeft(Walk, <<>>, SubSeq(out, 1, n)) # <<>>

\* The stubs and the jobs of all files together look like one build: tags are
\* nested although environments and metrics are dropped and the stubs are
\* slipped in before buffered text, identifiers are unique, and every job that
\* is waited for, or is said to contain another, exists.
LooksLikeOneBuild(out) ==
    LET jobs == {i \in DOMAIN out : out[i].tag = "open" /\ out[i].el = "job"}
    IN /\ Nested(out)
       /\ \A i, j \in jobs : out[i].id = out[j].id => i = j
       /\ \A i \in DOMAIN out : out[i].tag = "open" =>
             out[i].refs \subseteq {out[j].id : j \in jobs}

\* Every job of a build is invoked when all of the builds before it are
\* complete, if in each file the last timing is the one that completes last:
\* gMax is "Largest time value seen so far" (line 22) only then.
JobAt(out, i) == out[CHOOSE j \in 1..i : /\ out[j].tag = "open" /\ out[j].el = "job"
                                         /\ \A k \in (j + 1)..i : out[k].tag # "open"
                                                                  \/ out[k].el # "job"].id
BuildsAreSerial(files, out) ==
    LET Times(f) == {i \in DOMAIN f : f[i].kind = "start" /\ f[i].el = "timing"}
        LastIsLargest(f) == \A i \in Times(f) :
            (\A j \in Times(f) : j <= i) => \A j \in Times(f) : f[j].completed <= f[i].completed
        timings == {i \in DOMAIN out : out[i].tag = "timing" /\ JobAt(out, i)[1] # "fake"}
    IN (\A n \in DOMAIN files : LastIsLargest(files[n])) =>
          \A i, j \in timings :
             i < j /\ JobAt(out, i)[1] # JobAt(out, j)[1] => out[i].completed <= out[j].invoked
=============================================================================
