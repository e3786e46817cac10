\* No flash errors, no torn sizes, no whole-partition images: only saves and
\* power losses.
SPECIFICATION Spec
CONSTANTS
    PartWords = 6
    MinWords = 2
    RecLens = {2, 3}
    JunkSizes = {}
    WithFull = FALSE
    FlashFails = FALSE
    Erased <- MCErased
    Mix <- MCMix
    Junk <- MCJunk
    Records <- MCRecords
    Fulls <- MCFulls
    Word <- MCWord
    SizeField <- MCSizeField
PROPERTY SavedIsWhole
