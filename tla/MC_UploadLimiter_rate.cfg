\* Two streams, writes below and above the burst, two caps and none.
CONSTANTS
    Stream = {s1, s2}
    Cap = {0, 1, 2}
    Size = {1, 5}
    LongAgo = 32
SPECIFICATION FairLimiterSpec
INVARIANTS LimiterTypeOK DebtBounded RateBounded
PROPERTIES WritesEnd
