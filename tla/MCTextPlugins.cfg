SPECIFICATION TextSpec
CONSTANTS
    Char <- MCChar
    Cat <- MCCat
    Code <- MCCode
    Width <- MCWidth
    Lower <- MCLower
    Nfkc <- MCNfkc
    RewriteDef <- MCRewriteDef
    Marks = {"-"}
    Symbol <- MCSymbol
    LeftBrackets = {"("}
    RightBrackets = {")"}
    MaxYomiganaLength = 2
    Setups <- MCSetups
    Texts <- MCTexts
    Replacements <- MCReplacements
    OtherTexts <- MCOtherTexts
    MaxOther = 2
    MaxLength = 10
    ReallyMaxLength = 10
    MaxEdits = 12
    MaxCode = 10
    CodePoints = {0, 1, 2, 3, 4, 5, 6, 7, 8, 9, 10}
CONSTRAINT MCBound
INVARIANTS
    SurfacesTile
    TokensCovered
    CharsFresh
    LengthBounded
    IndicesAgree
    RewrittenAsConfigured
PROPERTIES
    EditAtomic
    BufferSpec
