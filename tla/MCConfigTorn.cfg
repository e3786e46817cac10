\* Saves and power losses; a size word torn by a power loss may denote a
\* record that reaches past the partition.
SPECIFICATION Spec
CONSTANTS
    PartWords = 7
    MinWords = 2
    RecLens = {2, 3}
    JunkSizes = {6}
    WithFull = FALSE
    FlashFails = FALSE
    Erased <- MCErased
    Mix <- MCMix
    Junk <- MCJunk
    Records <- MCRecords
    Fulls <- MCFulls
    Word <- MCWord
    SizeField <- MCSizeField
INVARIANT NewestSurvives
