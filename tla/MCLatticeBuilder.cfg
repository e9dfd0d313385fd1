SPECIFICATION BuilderSpec
CONSTANTS
    Cat <- MCCat
    CategoryOrder <- MCCategoryOrder
    Sentences <- MCSentences
    Dictionaries <- MCDictionaries
    ConnId <- MCConnId
    Conn <- MCConn
    Nodes <- MCNodes
    MaxValue = 2
    MaxLen = 3
    MaxCost = 9
    MaxI32 = 1000
INVARIANTS
    Aligned
    BackPointers
    PathTiles
    SearchCorrect
    NeverDisconnected
    WordsMatchText
    ProvidersSeeWords
PROPERTIES
    LatticeSpec
