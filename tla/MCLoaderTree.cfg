SPECIFICATION FairSpec
CONSTANTS
    x = x
    y = y
    g = g
    k = k
    plugin = plugin
    unknown = unknown
    svc = svc
    NoId = NoId
    NoName = NoName
    Ids = {x, y, g, k}
    Names = {plugin, unknown}
    Plugins = {plugin}
    Services = {svc}
    Entries <- MCEntries
    Entry <- Table
    MaxLayers = 3
    MaxDisturbed = 1
    MaxFibers = 2
INVARIANTS
    IndexIsFind
    NothingSilent
    LoadsTheEnabled
PROPERTY AllOrNothing
