SPECIFICATION KeepersSpec
CONSTANTS
    v1 = v1
    film = film
    Viewers = {v1}
    Titles = {film}
    Spellings = {"Film", "film ", " "}
    Normal <- MCNormal
    Blank = Blank
    Nothing = Nothing
    MaxStops = 1
    c1 = c1
    c2 = c2
    r1 = r1
    r2 = r2
    Callers = {c1, c2}
    Releases = {r1, r2}
    CacheTTL = 1
    Ancient = 1
    NoEntry = NoEntry
    NoCaller = NoCaller
    MaxPuts = 3
    MaxUnread = 1
    MaxReboots = 1
    p1 = p1
    p2 = p2
    p3 = p3
    Programmes = {p1, p2, p3}
    FirstLight = 1
    PublishEvery = 2
    PoolTTL = 1
    RetryMax = 2
    MaxFailures = 2
    ch1 = ch1
    ch2 = ch2
    Seeds = {ch1, ch2}
    MaxBoots = 3
    home = home
    guest = guest
    n1 = n1
    n2 = n2
    n3 = n3
    laptop = laptop
    tv = tv
    Subjects = {home, guest}
    Owners = {home}
    Mailed = {guest}
    Names = {n1, n2, n3}
    Browsers = {laptop}
    Televisions = {tv}
    SubjectOf <- MCSubjectOf
    BearerTTL = 1
    SessionTTL = 1
    SecretKept = FALSE
    Nobody = Nobody
    MaxAway = 3
    v2 = v2
    Players = {v1, v2}
    Hosts = {v1}
    NoPlayer = NoPlayer
    Items <- MCItems
CHECK_DEADLOCK FALSE
PROPERTY EveryChangeReachesDisk
