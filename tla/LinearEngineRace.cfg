SPECIFICATION RaceSpec
CONSTANTS
    r1 = r1
    r2 = r2
    o1 = o1
    o2 = o2
    c1 = c1
    c2 = c2
    None = None
    Torn = Torn
    Unsure = Unsure
    Channels = {c1, c2}
    Readers = {r1, r2}
    Owners = {o1, o2}
    Rules = {"v1", "v2"}
    Lineups <- MCLineupsWhole
    Day = 2
    EPG = 2
    Past = 1
    Grid = 2
    MaxSlots = 4
    MaxTime = 2
    MaxEdits = 3
    MaxRestarts = 1
SYMMETRY ReaderSymmetry
INVARIANTS TypeOK ScheduleOrdered AcknowledgedEditsAreOnDisk
PROPERTY KeepsGuidePromise
CHECK_DEADLOCK FALSE
