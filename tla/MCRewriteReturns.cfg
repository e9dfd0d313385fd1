SPECIFICATION Spec
CONSTANTS
    Words <- OddWords
    Cases <- OddCases
    Plugins <- MCPlugins
PROPERTY
    Terminates
CHECK_DEADLOCK FALSE
