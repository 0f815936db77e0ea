\* Two tasks on a file that is resized, one that is mapped, one that fails.
\* After a failure a page stays locked and may stop its users for good.
SPECIFICATION Spec
CONSTANTS
    Flusher = flusher
    NoOne = none
    Tasks = {t1, t2}
    NumPages = 2
    PageSize = 2
    MaxVal = 3
    OffsetSpan = 64
    Scenarios <- SafetyScenarios
SYMMETRY TaskSymmetry
INVARIANTS
    Coherence
    SizesAgree
    WriteReportsTruth
    TruncateSticks
    FsyncPushes
PROPERTY NothingGoesBack
CHECK_DEADLOCK FALSE
