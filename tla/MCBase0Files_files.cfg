\* Two threads on one open file; two processes and an outsider on one range.
\* Where references are lost, and where a file is full, nothing may be left to do.
SPECIFICATION MCSpec
CONSTANTS
    Threads = {t1, t2}
    Files = {f1}
    MaxSize = 2
    MaxFds = 2
    MaxBadMaps = 1
    Procs = {p1, p2}
    Outsider = out
INVARIANTS
    FileRefsBalance
    PositionsTrue
    
    
PROPERTY
    CallsReturnOrSleep
CHECK_DEADLOCK FALSE
