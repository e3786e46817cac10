\* Images of any length up to three transfers, CDONE at any of four times or
\* never or always, SPI errors and resets at any step.
SPECIFICATION Spec
CONSTANTS
    Chunk = 2
    Images = {1, 2, 3, 4, 5}
    Needs = {0, 1, 8, 60}
    SpiFails = TRUE
INVARIANTS TypeOK ShownIsTrue SentIsTaken
PROPERTY LoaderEnds
