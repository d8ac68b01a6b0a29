SPECIFICATION FairSpec
CONSTANTS
    r1 = r1
    r2 = r2
    o1 = o1
    o2 = o2
    c1 = c1
    c2 = c2
    None = None
    Torn = Torn
    Unsure = Unsure
    Channels = {c1}
    Readers = {r1, r2}
    Owners = {o1}
    Rules = {"v1", "v2"}
    Lineups <- MCLineupsAny
    Day = 2
    EPG = 2
    Past = 1
    Grid = 0
    MaxSlots = 4
    MaxTime = 3
    MaxEdits = 1
    MaxRestarts = 1
INVARIANT SomethingOnAir
PROPERTY EveryRequestAnswered
CHECK_DEADLOCK FALSE
