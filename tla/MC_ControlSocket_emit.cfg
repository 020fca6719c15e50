\* Two connections, three fetches from two classes, with a metrics file.
\* The behaviour ends when the last fetch has.
CONSTANTS
    Task = {t1, t2}
    Class = {c1, c2}
    RecentCap = 2
    MaxFetches = 3
    Logged = TRUE
SPECIFICATION SocketSpec
CHECK_DEADLOCK FALSE
INVARIANTS SocketTypeOK RowsNeverMix CountedBeforeTold StoryInOrder
SYMMETRY Symmetry
