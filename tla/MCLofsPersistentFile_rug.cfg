\* Violated: an upgrade closes the handle an earlier opener holds.
SPECIFICATION Spec
CONSTANTS
    NoFile = nofile
    NoHandle = null
    Files = {f1, f2}
    Handles = {h1, h2, h3, h4}
    LowerSeekable = TRUE
SYMMETRY SlotSymmetry
INVARIANT UsersKeepTheirHandle
