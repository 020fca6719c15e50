\* Two callers fetch one blob while sources of every kind are being added, and
\* sources may never answer.
CONSTANTS
    lan = lan
    p = p
    q = q
    cdn = cdn
    Blob = {h}
    t1 = t1
    Task = {t1, t2}
    Source = {lan, p, cdn}
    NoSource = NoSource
    NoBlob = NoBlob
    Kind <- MCKind
    Tier <- MCTier
SPECIFICATION FairSpec
INVARIANTS TypeOK ReturnsOnlyTheBlob NoSecondDownload
PROPERTIES NoSourceSkipped FirstFetchEnds
