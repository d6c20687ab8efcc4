\* As Calls.cfg, for what gets into a bundle past the scan.
SPECIFICATION Spec
CONSTANTS
    None = None
    Bases <- MCBases
    Patches <- MCPatches
    SinkLists <- MCSinkLists
    SinkSets <- MCSinkSets
    MaxNames = 2
    Queries <- MCQueries
    MaxRows = 2
    MaxBytes = 3
    Dogs = {1, 2, 3}
    Addresses <- MCAddresses
    Lookups <- MCLookups
    HeaderLists <- MCHeaderLists
    MaxHeaders = 2
    MaxBody = 2
    Trees <- MCTrees
    LineOf <- MCLineOf
    KindOf <- MCKindOf
    WithTs <- MCWithTs
    Tried <- MCTried
    Index <- MCIndex
    Paths <- MCPaths
    MaxSources = 2
    MaxFiles = 6
    MaxLines = 7
    MaxLength = 3
    MaxMean = 2
    MeanMin = 2
    MaxEntries <- MCMaxEntries
    BranchAt <- MCBranchAt
    History <- MCHistory
    LogLimit = 2
    Procs = {"t1", "t2"}
INVARIANTS ExemptStaysOut
