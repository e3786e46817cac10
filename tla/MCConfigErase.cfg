\* A partition without room for a record of each length; erases may fail.
SPECIFICATION Spec
CONSTANTS
    PartWords = 4
    MinWords = 2
    RecLens = {2, 3}
    JunkSizes = {}
    WithFull = FALSE
    FlashFails = TRUE
    Erased <- MCErased
    Mix <- MCMix
    Junk <- MCJunk
    Records <- MCRecords
    Fulls <- MCFulls
    Word <- MCWord
    SizeField <- MCSizeField
INVARIANT NewestSurvives
