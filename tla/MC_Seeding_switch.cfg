\* Two connections that take turns with one stream, and two tasks that throw the
\* switch at the same time.
CONSTANTS
    Conn = {c1, c2}
    Caller = {u1, u2}
    Stream = {s1}
    Cap = {0, 1}
    Size = {1}
    LongAgo = 4
SPECIFICATION FairSpec
INVARIANTS TypeOK OneLateStream
PROPERTIES DisabledGoesQuiet
