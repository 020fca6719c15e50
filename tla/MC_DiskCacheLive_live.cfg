\* Liveness: two callers, blobs of which one fits at a time and one never does;
\* files are deleted by others, and the process dies.
CONSTANTS
    a = a
    b = b
    c = c
    d = d
    Blob = {a, c, d}
    Task = {t1, t2}
    Scratch = {s1, s2}
    NoBlob = NoBlob
    NoTemp = NoTemp
    Size <- SmallSizes
    Budget = 2
    OddLen = {0}
    Faults = {"vanish", "crash"}
SPECIFICATION LiveSpec
INVARIANTS WithinBudget CalmMirror
PROPERTIES OperationsEnd SelfHealing
