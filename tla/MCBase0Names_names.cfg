\* Two tasks, two directories, a file and a directory, three dentries each.
SPECIFICATION Spec
CONSTANTS
    Tasks = {t1, t2}
    Dirs = {d1, d2}
    Inos = {i1, i2}
    DirInos = {i2}
    Uppers = {u1, u2, u3}
    Lowers = {l1, l2, l3}
    None = none
    MaxLost = 1
    MaxOutside = 1
SYMMETRY Symmetry
INVARIANTS
    ReferencesAccounted
    UpperKeepsLower
    TreesAgree
    
