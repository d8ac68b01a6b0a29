SPECIFICATION Spec
CONSTANTS
    r1 = r1
    r2 = r2
    o1 = o1
    o2 = o2
    c1 = c1
    c2 = c2
    None = None
    Torn = Torn
    Unsure = Unsure
    Channels = {c1}
    Readers = {r1, r2}
    Owners = {o1}
    Rules = {"v1", "v2"}
    Lineups <- MCLineupsWhole
    Day = 4
    EPG = 2
    Past = 1
    Grid = 0
    MaxSlots = 4
    MaxTime = 1
    MaxEdits = 2
    MaxRestarts = 0
SYMMETRY ReaderSymmetry
INVARIANT OneBadChannelDoesNotEmptyTheGrid
CHECK_DEADLOCK FALSE
