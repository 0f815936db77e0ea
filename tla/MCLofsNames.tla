----------------------------- MODULE MCLofsNames -----------------------------
(* Small instances of LofsNames for TLC. *)
EXTENDS LofsNames, TLC

\* No definition names a task.
TaskSymmetry == Permutations(Tasks)

One == {CHOOSE e \in Entries : TRUE}
Scenario(entries, ops, others, fails) ==
    [entries |-> entries, ops |-> ops, others |-> others, fails |-> fails]

\* One name that others use too; one on a server, where a lower dentry may be
\* stale and stay; two names that are linked and moved; that are moved and
\* removed; and that are removed while others move them.
NameScenarios ==
    { Scenario(One, {"walk", "create", "unlink"}, {"create", "unlink", "remote", "prune"}, TRUE),
      Scenario(One, {"walk", "mkdir", "symlink", "rmdir"}, {"remote", "busy"}, TRUE),
      Scenario(Entries, {"walk", "link", "rename"}, {}, TRUE),
      Scenario(Entries, {"walk", "unlink", "rename"}, {"unlink"}, FALSE),
      Scenario(Entries, {"walk", "unlink"}, {"rename"}, FALSE) }

RaceScenarios == { Scenario(One, {"walk"}, {"create"}, FALSE) }
=============================================================================
