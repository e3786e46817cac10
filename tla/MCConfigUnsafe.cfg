\* The same runs: images saved with --unsafe-crc.
SPECIFICATION Spec
CONSTANTS
    None = None
    AutoCrc = AutoCrc
    No = No
    AP = AP
    Sta = Sta
    Both = Both
    Auto_ = Auto_
    Next_ = Next_
    Item = {No, AP, Sta, Both, Auto_, Next_}
    Bit = {0, 1, 2, 3, 4}
    ItemBits <- MCItemBits
    MaskOf <- MCMaskOf
    Ambiguous = {}
    DefaultOpts = {2}
    Options <- MCOptions
    Version = 1
    LcVersion = 1
    FullWords = 3
    MaxWords = 5
    Foreign <- MCForeign
INVARIANT UnsafeSaveAccepted
