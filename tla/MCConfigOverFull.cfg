\* Partition images and saves that follow them.
SPECIFICATION Spec
CONSTANTS
    PartWords = 5
    MinWords = 2
    RecLens = {2}
    JunkSizes = {}
    WithFull = TRUE
    FlashFails = FALSE
    Erased <- MCErased
    Mix <- MCMix
    Junk <- MCJunk
    Records <- MCRecords
    Fulls <- MCFulls
    Word <- MCWord
    SizeField <- MCSizeField
PROPERTY SavedIsWhole
