SPECIFICATION Spec
CONSTANTS
    j1 = j1
    j2 = j2
    c1 = c1
    c2 = c2
    zelda = zelda
    music = music
    None = None
    Jobs = {j1, j2}
    Clients = {c1}
    Keys = {zelda, music}
    CatalogueKeys = {zelda}
    ArchiveKeys = {zelda}
    WordyKeys = {zelda}
    ProviderKeys <- MCProviderKeys
    Providers = {"minerva-live"}
    Threshold = 2
SYMMETRY JobSymmetry
INVARIANTS TypeOK OneLiveJobPerQuery CachedAnswerIsWhole FirstPaintCarriesCatalogue CompletePaintHasEverything
PROPERTY KeepsSearchPromise
