SPECIFICATION PythonSpec
CONSTANTS
    t1 = t1
    t2 = t2
    Thread = {t1, t2}
    List = {1, 2}
    Info <- MCInfo
    Form <- MCForm
    Text <- MCText
    TooLong = {}
    BestPath <- MCBestPath
    Found <- MCFound
    Same <- MCSame
    Entries <- MCEntries
    Modes = {"A", "C"}
    Default = "C"
    Subsets <- MCSubsets
    PreFields = {"POS"}
    Oov <- MCOov
    MaxDepth = 2
SYMMETRY MCSymmetry
CONSTRAINT MCBound
INVARIANTS
    ListsShowTheirResult
    HandlersSeeTheirText
    ModeRestored
