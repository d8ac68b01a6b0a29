SPECIFICATION WarmSpec
CONSTANTS
    j1 = j1
    c1 = c1
    zelda = zelda
    None = None
    Jobs = {j1}
    Clients = {c1}
    Keys = {zelda}
    CatalogueKeys = {zelda}
    ArchiveKeys = {zelda}
    WordyKeys = {zelda}
    ProviderKeys <- MCProviderKeys
    Providers = {"minerva-live"}
    Threshold = 2
INVARIANT CacheHoldsWholeAnswers
