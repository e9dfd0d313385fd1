SPECIFICATION Spec
CONSTANTS
    Words <- MCWords
    Cases <- MCCases
    Plugins <- MCPlugins
INVARIANTS
    PathTiles
    NumeralsRight
    KatakanaRunsJoined
PROPERTIES
    Terminates
CHECK_DEADLOCK FALSE
