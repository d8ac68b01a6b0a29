SPECIFICATION FairSpec
CONSTANTS
    j1 = j1
    j2 = j2
    c1 = c1
    c2 = c2
    zelda = zelda
    music = music
    None = None
    Jobs = {j1}
    Clients = {c1, c2}
    Keys = {zelda}
    CatalogueKeys = {zelda}
    ArchiveKeys = {zelda}
    WordyKeys = {zelda}
    ProviderKeys <- MCProviderKeys
    Providers = {"minerva-live"}
    Threshold = 1
PROPERTY EverySearchSettles
