-------------------------- MODULE ReadBeforeWrite --------------------------
(***************************************************************************)
(* The report of ReadBeforeWrite.tcl: files of a build that a job read (or   *)
(* looked up in vain) before the first job wrote them.  A file is the        *)
(* sequence of operations the annotation lists for it, each by a job.        *)
(***************************************************************************)
EXTENDS Naturals, Sequences, SequencesExt

Reads == {"read", "failedlookup"}
Writes == {"create", "modify", "truncate"}

\* Mutant: the scan of a file goes on after its first write.
ScanOn(s, o) ==
    CASE o.op \in Reads  -> [s EXCEPT !.readers = Append(@, o.job)]
      [] o.op \in Writes -> [s EXCEPT !.writers = Append(@, o.job)]
      [] OTHER           -> s

\* One operation of a file; a write ends the scan (break).
Scan(s, o) ==
    CASE s.writers # <<>> -> s
      [] o.op \in Reads   -> [s EXCEPT !.readers = Append(@, o.job)]
      [] o.op \in Writes  -> [s EXCEPT !.writers = Append(@, o.job)]
      [] OTHER            -> s

ScanFile(ops) == FoldLeft(Scan, [readers |-> <<>>, writers |-> <<>>], ops)

\* Files in order; an instance for each one that was written with readers.
FindReadBeforeWrite(files) ==
    LET Instance(f) == LET s == ScanFile(files[f])
                       IN IF s.writers # <<>> /\ s.readers # <<>>
                          THEN <<[file |-> f, readers |-> s.readers, writer |-> s.writers[1]]>>
                          ELSE <<>>
    IN FlattenSeq([f \in DOMAIN files |-> Instance(f)])

-----------------------------------------------------------------------------
\* The report names a file once, exactly if a read precedes its first write,
\* with that write's job and every job that read it earlier.  (Line 84 speaks
\* of "earlier jobs": a job that reads and then modifies a file itself is
\* reported too, as its own reader.)
FirstWrite(ops) == {w \in DOMAIN ops : ops[w].op \in Writes
                                       /\ \A i \in 1..(w - 1) : ops[i].op \notin Writes}
ReportIsExact(files, report) ==
    /\ \A i, j \in DOMAIN report : report[i].file = report[j].file => i = j
    /\ \A f \in DOMAIN files : \A w \in FirstWrite(files[f]) :
          LET before == SelectSeq(SubSeq(files[f], 1, w - 1), LAMBDA o : o.op \in Reads)
          IN (before # <<>>) <=>
               \E i \in DOMAIN report :
                  /\ report[i].file = f
                  /\ report[i].writer = files[f][w].job
                  /\ report[i].readers = [r \in DOMAIN before |-> before[r].job]
    /\ \A i \in DOMAIN report : FirstWrite(files[report[i].file]) # {}
=============================================================================
