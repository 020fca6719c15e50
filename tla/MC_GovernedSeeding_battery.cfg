\* The README's promise for a host on battery or a metered connection.
CONSTANTS
    Conn = {c1}
    Caller = {u1}
    Stream = {s1}
    Cap = {0, 1}
    Size = {1}
    LongAgo = 4
    workstation = workstation
    mobile = mobile
    Tier = {workstation, mobile}
    policy <- MCPolicy
    Power <- MCPower
    Unknown = Unknown
SPECIFICATION GSpec
INVARIANTS PassiveServesNothing
