\* Two callers under eviction pressure; files are damaged and deleted, calls fail, are
\* dropped, and the process dies.
CONSTANTS
    a = a
    b = b
    c = c
    d = d
    Blob = {a, b, c}
    Task = {t1, t2}
    Scratch = {s1, s2}
    NoBlob = NoBlob
    NoTemp = NoTemp
    Size <- SmallSizes
    Budget = 2
    OddLen = {3}
    Faults = {"io", "cancel", "damage", "vanish", "crash"}
SPECIFICATION Spec
SYMMETRY Symmetry
INVARIANTS TypeOK IndexConsistent WithinBudget NoTornFile
PROPERTIES LruOrder FrugalEviction ServesOnlyTheBlob
