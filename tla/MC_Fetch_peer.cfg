\* Two peers of one transport, which share its store.
CONSTANTS
    lan = lan
    p = p
    q = q
    cdn = cdn
    Blob = {h}
    t1 = t1
    Task = {t1, t2}
    Source = {p, q}
    NoSource = NoSource
    NoBlob = NoBlob
    Kind <- MCKind
    Tier <- MCTier
SPECIFICATION Spec
INVARIANTS PeerServed
