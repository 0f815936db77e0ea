\* Two clients, unload forced at any moment: safety, liveness, the inductive
\* invariant of the proofs and the refinement of LookupService.
SPECIFICATION FairSpec
CONSTANTS
    Worker = worker
    Rmmod = rmmod
    NoOne = none
    Clients = {c1, c2}
    ForcedUnload = TRUE
INVARIANTS
    IInv
    ResultMatchesPath
    AnsweredOnce
    WorkerUsesLiveRequests
    NoRequestForgotten
PROPERTIES
    ImplementsService
    LookupReturns
    ShutdownCompletes
