\* Two saves at once, a long and a short document, restarts at any moment.
CONSTANTS
    Savers = {s1, s2}
    Inodes = {i1, i2, i3}
    None = none
    MaxVersion = 2
SPECIFICATION Spec
INVARIANTS TypeOK FileIsLastSave
PROPERTIES LoneSaveRepairs KeepsStateFile
SYMMETRY FileSymmetry
