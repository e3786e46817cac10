\* Whole-partition images, without flash errors or torn sizes.
SPECIFICATION Spec
CONSTANTS
    PartWords = 6
    MinWords = 2
    RecLens = {2, 3}
    JunkSizes = {}
    WithFull = TRUE
    FlashFails = FALSE
    Erased <- MCErased
    Mix <- MCMix
    Junk <- MCJunk
    Records <- MCRecords
    Fulls <- MCFulls
    Word <- MCWord
    SizeField <- MCSizeField
INVARIANT ActiveIsBigEnough
