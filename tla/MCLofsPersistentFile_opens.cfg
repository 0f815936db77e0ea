\* Three files on an inode whose lower filesystem opens seekable files.
SPECIFICATION Spec
CONSTANTS
    NoFile = nofile
    NoHandle = null
    Files = {f1, f2, f3}
    Handles = {h1, h2, h3, h4, h5}
    LowerSeekable = TRUE
SYMMETRY SlotSymmetry
INVARIANTS
    IoFindsHandle
    WritebackFindsHandle
    PathRefsBalance
    SingleLowerFile
PROPERTY NeverDemoted
