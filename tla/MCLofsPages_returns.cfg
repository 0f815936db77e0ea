\* Two tasks, every operation, a lower filesystem that answers.
SPECIFICATION FairSpec
CONSTANTS
    Flusher = flusher
    NoOne = none
    Tasks = {t1, t2}
    NumPages = 2
    PageSize = 1
    MaxVal = 1
    OffsetSpan = 64
    Scenarios <- ReturnScenarios
PROPERTY OperationsReturn
