\* Others create the name that is looked up.
SPECIFICATION Spec
CONSTANTS
    NoOne = none
    Tasks = {t1, t2}
    Dirs = {d1, d2}
    Names = {a}
    NumInodes = 2
    NumUpper = 4
    NumLower = 4
    Scenarios <- RaceScenarios
SYMMETRY TaskSymmetry
INVARIANT LookupSafe
CHECK_DEADLOCK FALSE
