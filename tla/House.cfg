SPECIFICATION HouseSpec
CONSTANTS
    p1 = p1
    p2 = p2
    g1 = g1
    Games = {g1}
    Gamers = {p1}
    TokenLife = 2
    Margin = 1
    MaxReleases = 2
    MaxTroubles = 1
    Guide <- MCGuide
    Chain <- MCChain
    Attempts = 2
    PublicSource = {"archive"}
    PrivateSource = {"jellyfin", "plex"}
    Owner = p1
    Viewers = {p1, p2}
    MaxClock = 4
    MaxStreams = 2
    MaxMishaps = 1
    Households <- MCHouseholds
    Troubles <- MCTroubles
    MaxFaults = 1
    MaxTurns = 1
    MaxPanics = 1
    ShelfItems = {1, 2, 3, 4}
    Folders = {2}
    Shows = {1}
    PageSize = 2
    PoolLimit = 3
    MaxChanges = 2
    MaxBreaks = 1
    VaultGames = {g1}
    Sets = {1, 2, 3}
    CollectionOf <- MCCollectionOf
    Known = {"nointro", "redump", "outliers"}
    Excluded = {"outliers"}
    MaxImports = 4
    Programmes <- MCProgrammes
    Drafts <- MCDrafts
    DayLength = 4
    Week = {0, 1}
    Rounds = 2
    MaxSlots = 6
INVARIANTS HouseTypeOK LedgerIsHonest TheViewerIsToldTheTruth ScreensAreHonest PoolIsTheShelf
PROPERTIES WhatWorkedStays EpisodesComeInOrder
CHECK_DEADLOCK FALSE
