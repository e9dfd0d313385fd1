SPECIFICATION ListsSpec
CONSTANTS
    l1 = l1
    l2 = l2
    Info <- MCInfo
    Text <- MCText
    TooLong = {"long"}
    BestPath <- MCBestPath
    Found <- MCFound
    Modes = {"A", "C"}
    Subsets <- MCSubsets
    List = {l1, l2}
    LookupSubsets <- MCLookupSubsets
    MaxNodes = 2
SYMMETRY MCSymmetry
CONSTRAINT MCBound
INVARIANTS
    NodesMatchInput
    SplitSurfaces
    ResultStandsAlone
PROPERTIES
    HeldTextStays
