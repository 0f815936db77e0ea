\* Violated: writeback of a mapped page undoes a truncation.
SPECIFICATION Spec
CONSTANTS
    Flusher = flusher
    NoOne = none
    Tasks = {t1, t2}
    NumPages = 2
    PageSize = 2
    MaxVal = 2
    OffsetSpan = 64
    Scenarios <- RaceScenarios
SYMMETRY TaskSymmetry
INVARIANT ChangeSticks
