\* One caller disables seeding while a connection waits for a stream.
CONSTANTS
    Conn = {c1, c2}
    Caller = {u1}
    Stream = {s1}
    Cap = {0, 1}
    Size = {1}
    LongAgo = 4
SPECIFICATION Spec
INVARIANTS NoLateStream
