\* Load, mount, look up, unmount, unload, with every failure on the way.
SPECIFICATION Spec
CONSTANTS
    Worker = worker
    Rmmod = rmmod
    NoOne = none
    Clients = {c1, c2}
    MountIds = {m1, m2}
    Builds <- BuildSet
SYMMETRY LifecycleSymmetry
INVARIANTS
    
    CachesOutliveObjects
PROPERTIES
    MountsPinTheThread

