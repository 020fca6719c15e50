\* No fault at all: two callers, room for one blob.
CONSTANTS
    a = a
    b = b
    c = c
    d = d
    Blob = {a, b}
    Task = {t1, t2}
    Scratch = {s1, s2}
    NoBlob = NoBlob
    NoTemp = NoTemp
    Size <- SmallSizes
    Budget = 1
    OddLen = {0}
    Faults = {}
SPECIFICATION Spec
SYMMETRY Symmetry
INVARIANTS FootprintWithinBudget
