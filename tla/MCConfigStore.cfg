\* Appending, erasing, torn words, flash errors, power loss at any point, and
\* whole-partition images.
SPECIFICATION Spec
CONSTANTS
    PartWords = 7
    MinWords = 2
    RecLens = {2, 3}
    JunkSizes = {0, 1, 4}
    WithFull = TRUE
    FlashFails = TRUE
    Erased <- MCErased
    Mix <- MCMix
    Junk <- MCJunk
    Records <- MCRecords
    Fulls <- MCFulls
    Word <- MCWord
    SizeField <- MCSizeField
INVARIANTS TypeOK TailFree NewestIntact ActiveIsRecord
PROPERTIES BootFindsNewest ScanTerminates ImplementsRegister
CONSTRAINT RegularSaves
