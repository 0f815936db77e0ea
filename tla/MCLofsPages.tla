----------------------------- MODULE MCLofsPages -----------------------------
(* Small instances of LofsPages for TLC. *)
EXTENDS LofsPages, TLC

\* No definition names a task.
TaskSymmetry == Permutations(Tasks)

Scenario(ops, faults, reloads, stores) ==
    [ops |-> ops, faults |-> faults, reloads |-> reloads, stores |-> stores]

\* A file that is resized and not mapped; one that is mapped and not resized,
\* with a lower filesystem that answers and with one that fails; every operation
\* and every failure.
SafetyScenarios ==
    { Scenario({"write", "read", "truncate"}, {"setattr_error"}, FALSE, 3),
      Scenario({"write", "read", "store", "fsync"}, {}, FALSE, 3),
      Scenario({"write", "read", "store"}, {"read_error", "write_error", "short_write"}, TRUE, 2),
      Scenario(OpNames, FaultNames, TRUE, 1) }

ReturnScenarios == { Scenario(OpNames, {}, TRUE, 1) }
RaceScenarios == { Scenario({"write", "store", "truncate"}, {}, FALSE, 2) }
=============================================================================
