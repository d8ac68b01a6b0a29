SPECIFICATION DesksSpec
CONSTANTS
    v1 = v1
    v2 = v2
    Viewers = {v1, v2}
    Seasons = {1, 2}
    EpisodeNumbers = {1}
    MaxFailures = 1
    MaxAsks = 1
    Instances = {1, 2}
    Askers = {v1}
    Requesters = {v2}
    MaxOutages = 2
    al1 = al1
    al2 = al2
    Listeners = {v1, v2}
    Albums = {al1, al2}
    Artist = Artist
    ad1 = ad1
    ad2 = ad2
    ad3 = ad3
    url = url
    Addons = {ad1, ad2, ad3}
    Configurations = {url}
    Searchable = {ad1}
    Homes = {v1, v2}
    MaxInstalled = 2
    MaxUnsaved = 1
INVARIANTS DesksTypeOK NothingElseIsGrabbed FilmInHandIsNotMissing NoDiscographyGrab
PROPERTIES EpisodesAreSought NoBrowserDropsAnothersAddon
CHECK_DEADLOCK FALSE
