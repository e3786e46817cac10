\* Loads without SPI errors; CDONE rises within the 100 clocks of pins.txt:74.
SPECIFICATION Spec
CONSTANTS
    Chunk = 2
    Images = {3}
    Needs = {0, 8, 60}
    SpiFails = FALSE
INVARIANT DoneIsAwaited
