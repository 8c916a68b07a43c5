\* Three interchangeable nodes, merges of up to two values, four merges.
CONSTANTS
    a = a
    b = b
    c = c
    Name <- ThreeNames
    MaxBatch = 2
    MaxMerges = 4
SYMMETRY NameSymmetry
SPECIFICATION Spec
INVARIANTS
    OpenWhenAllArrived
    OpeningIsVersioned
