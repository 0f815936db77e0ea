\* Two tasks, two directories, one name in each; five scenarios.  A task that
\* stops the kernel stops for good.
SPECIFICATION Spec
CONSTANTS
    NoOne = none
    Tasks = {t1, t2}
    Dirs = {d1, d2}
    Names = {a}
    NumInodes = 2
    NumUpper = 4
    NumLower = 4
    Scenarios <- NameScenarios
SYMMETRY TaskSymmetry
INVARIANTS
    RefsBalance
    WalkTruthfulMostly
    VictimsInPlace
CHECK_DEADLOCK FALSE
