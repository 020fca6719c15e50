\* Two publishers of one blob and one manifest, at the turn of a day, while
\* requests and writes fail and runs are killed; then nothing fails any more.
CONSTANTS
    p1 = p1
    p2 = p2
    objects = objects
    docs = docs
    cdn = cdn
    Publisher = {p1, p2}
    Blob = {b1}
    Class = {objects, docs}
    template <- MCTemplate
    NoPath = NoPath
    None = None
    Empty = Empty
    Garbled = Garbled
    Moment <- MCMoment
    MaxTicks = 1
SPECIFICATION FairSpec
INVARIANTS TypeOK OkMeansHeld NoReupload SignedToday
PROPERTIES OriginHolds RunSucceeds RecordedInTheEnd
