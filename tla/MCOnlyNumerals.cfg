SPECIFICATION Spec
CONSTANTS
    Words <- MCWords
    Cases <- MCCases
    Plugins <- MCPlugins
INVARIANT
    OnlyNumeralsJoined
CHECK_DEADLOCK FALSE
