SPECIFICATION RelaysSpec
CONSTANTS
    film = film
    book = book
    tv1 = tv1
    tv2 = tv2
    None = None
    Hashes = {film, book}
    Videos = {film}
    Devices = {tv1, tv2}
    MaxIdle = 2
    MaxJoins = 2
    MaxRestarts = 1
    a1 = a1
    a2 = a2
    a3 = a3
    b1 = b1
    b2 = b2
    ip1 = ip1
    ip2 = ip2
    Conns = {a1, a2, a3, b1, b2}
    Address <- MCAddress
    Endpoint <- MCEndpoint
    PerIP = 2
    Global = 3
    RelayCap = 1
    IPTVCap = 3
    MaxMonths = 2
    MaxStarts = 2
    MaxTraffic = 1
    s1 = s1
    s2 = s2
    page = page
    lan = lan
    Surfers = {s1, s2}
    SurferIP <- MCSurferIP
    Links = {page, lan}
    Shady = {lan}
    Formats <- MCFormats
    HasJoiner = TRUE
    Burst = 1
    Forget = 1
    AnswerTTL = 1
    TokenTTL = 2
    PerSurfer = 1
    AllStreams = 1
    Confined = FALSE
    MaxRefusals = 1
    MaxKeys = 2
    MaxOffered = 3
INVARIANTS RelaysTypeOK PrimersAccounted SlotsAccounted IPTVStopsAtItsCap LinksOutliveTheirAnswer
PROPERTIES EverySessionEnds EveryRelayReturns
CHECK_DEADLOCK FALSE
