\* A dashboard, opened first, watches one connection that fetches twice, from two
\* classes, of a daemon that is started a second time.
CONSTANTS
    Task = {t1}
    Class = {c1, c2}
    RecentCap = 1
    ReplyCap = 1
    ViewCap = 1
    TailCap = 1
    ChanCap = 2
    InboxCap = 1
    MaxFetches = 2
    MaxDaemons = 2
    Logged = FALSE
SPECIFICATION FairSpec
INVARIANTS TypeOK ShownIsCounted
PROPERTIES PollerCanDiff CatchesUp
