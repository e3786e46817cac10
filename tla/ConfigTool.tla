----------------------------- MODULE ConfigTool -----------------------------
(* The configuration compiler mstd.cfg.py: a run loads sources into          *)
(* ConfigData, overrides fields and saves a binary image or a text dump,     *)
(* which later runs load again or upload to the board.                       *)
EXTENDS Integers, FiniteSets

CONSTANTS
    None, AutoCrc,   \* no value; the CRC 0xFFFFFFFF that asks the board for one
    Bit,          \* bits of an options byte, which is a set of them
    Item,         \* items of the enum
    ItemBits,     \* [Item -> SUBSET Bit]
    MaskOf,       \* [Item -> SUBSET Bit], {} for a prefix that has no _MASK
    Ambiguous,    \* items whose name without its prefix is not theirs alone
    DefaultOpts,  \* the options' default
    Options,      \* option bytes in use, named or not
    Version, LcVersion,
    FullWords,    \* words of the structure
    MaxWords,     \* MAX_CFG_SIZE, in words
    Foreign       \* binary files that are not the tool's own

(* The CRC is ideal: it is what it covers, and neither of the two special    *)
(* values.                                                                   *)
Crc(body, words) == <<body, words>>

(* Of the fields behind the header one enum is kept; the others go the same  *)
(* way without its conversion.                                               *)
Fields == [size : 0 .. MaxWords, version : 0 .. Version + 1, opts : SUBSET Bit]

ASSUME ToolAssumption ==
    /\ Version \in Nat /\ LcVersion \in 1 .. Version
    /\ FullWords \in Nat \ {0} /\ MaxWords \in Nat /\ FullWords <= MaxWords
    /\ ItemBits \in [Item -> SUBSET Bit] /\ MaskOf \in [Item -> SUBSET Bit]
    /\ Ambiguous \subseteq Item
    /\ DefaultOpts \in Options /\ Options \subseteq SUBSET Bit
    /\ \A i \in Foreign : i.body \in Fields /\ i.words \in Nat /\ i.crc # None
    /\ AutoCrc # None
    /\ \A b \in Fields : Crc(b, FullWords) # None /\ Crc(b, FullWords) # AutoCrc

VARIABLES
    stage,    \* of the run under way: "load", "set" (overrides), or "none"
    force,    \* how often -f was given
    data,     \* ConfigData.data
    bin,      \* the binary file
    text,     \* the text file, None if there is none
    origin,   \* history: how bin was written, "foreign", "safe" or "unsafe"
    dumped    \* history: the options text was made of

vars == <<stage, force, data, bin, text, origin, dumped>>

Image(crc, body, words) == [crc |-> crc, body |-> body, words |-> words]
Body(d) == [size |-> d.size, version |-> d.version, opts |-> d.opts]
Binary(d) == Image(d.crc, Body(d), FullWords)

(* Fields without a value are zero; only crc is ever asked whether it has    *)
(* one, and 0 is none.                                                       *)
Fresh == [crc |-> None, size |-> 0, version |-> 0, opts |-> DefaultOpts]

---------------------------------------------------------------------------
(* EnumDef.                                                                  *)

Shows(i, val) == ItemBits[i] \subseteq val
                 /\ (MaskOf[i] # {} => val \intersect MaskOf[i] = ItemBits[i])
Shown(val) == {i \in Item : Shows(i, val)}
Processed(val) == UNION {ItemBits[i] : i \in Shown(val)}
Rest_Dropped(val) == {}
Rest(val) == val \ Processed(val)

(* Names, and the bits no name stands for as one number.                     *)
Int2Str(val) == [names |-> Shown(val), number |-> Rest(val)]

(* str2int refuses a number, and the "prefix.rest" int2str writes for an     *)
(* ambiguous name: its test for a separator looks only at the first letter.  *)
Readable(s) == s.number = {} /\ s.names \intersect Ambiguous = {}
Str2Int(s) == UNION {ItemBits[i] : i \in s.names}

---------------------------------------------------------------------------
Init ==
    /\ stage = "none" /\ force = 0 /\ data = Fresh
    /\ bin \in Foreign /\ origin = "foreign"
    /\ text = None /\ dumped = {}

NewRun(f) ==
    /\ stage = "none" /\ stage' = "load" /\ force' = f
    /\ UNCHANGED <<data, bin, text, origin, dumped>>

(* A run ends when it has saved, or with a failed assertion.                 *)
EndRun == stage' = "none" /\ force' = 0 /\ data' = Fresh

(* is_binary_accepted: what fails an assertion, and what only warns.         *)
HeaderWords(i) == i.body.size + 1
Valid(i) ==
    /\ HeaderWords(i) <= i.words
    /\ i.crc # AutoCrc => i.crc = Crc(i.body, i.words)
    /\ i.body.version \in LcVersion .. Version
Warns(i) == i.crc = AutoCrc
ToolAccepts(i, f) == f >= 2 \/ (Valid(i) /\ (Warns(i) => f > 0))

(* set_full_binary: an image that is too short leaves zeroes at the end.     *)
Loaded(i) ==
    [crc |-> i.crc, size |-> i.body.size, version |-> i.body.version,
     opts |-> IF i.words < FullWords THEN {} ELSE i.body.opts]

LoadBin ==
    /\ stage = "load"
    /\ IF ToolAccepts(bin, force)
         THEN data' = Loaded(bin) /\ UNCHANGED <<stage, force>>
         ELSE EndRun
    /\ UNCHANGED <<bin, text, origin, dumped>>

(* load_text_config: the fields the dump holds.                              *)
LoadText ==
    /\ stage = "load" /\ text # None
    /\ IF Readable(text.opts)
         THEN /\ data' = IF text.hidden
                  THEN [text.data EXCEPT !.opts = Str2Int(text.opts)]
                  ELSE [data EXCEPT !.opts = Str2Int(text.opts)]
              /\ UNCHANGED <<stage, force>>
         ELSE EndRun
    /\ UNCHANGED <<bin, text, origin, dumped>>

(* set_cl_value, a field on the command line; size and version would be      *)
(* written over by every save.                                               *)
Override ==
    /\ stage \in {"load", "set"} /\ stage' = "set"
    /\ \/ \E i \in Item : data' = [data EXCEPT !.opts = ItemBits[i]]
       \/ \E c \in {None, AutoCrc} : data' = [data EXCEPT !.crc = c]
    /\ UNCHANGED <<force, bin, text, origin, dumped>>

(* patch_binary_image: version and size first, then the CRC of the result;   *)
(* with --unsafe-crc a CRC that is there already stays.                      *)
Sized(d) == [d EXCEPT !.version = Version, !.size = FullWords - 1]
Covered_TooEarly(d) == Body(d)
Covered(d) == Body(Sized(d))
UnsafeCrc_Missing(d) == d.crc
UnsafeCrc(d) == IF d.crc = None THEN AutoCrc ELSE d.crc
Patched(d, unsafe) ==
    [Sized(d) EXCEPT !.crc = IF unsafe THEN UnsafeCrc(d) ELSE Crc(Covered(d), FullWords)]

SaveBin(unsafe) ==
    /\ stage # "none" /\ EndRun
    /\ bin' = Binary(Patched(data, unsafe))
    /\ origin' = IF unsafe THEN "unsafe" ELSE "safe"
    /\ UNCHANGED <<text, dumped>>

(* Without --hidden-fields the dump leaves crc, size and version out.        *)
SaveText(unsafe, hidden) ==
    /\ stage # "none" /\ EndRun
    /\ LET d == Patched(data, unsafe)
       IN  /\ text' = [hidden |-> hidden, opts |-> Int2Str(d.opts),
                       data |-> IF hidden THEN d ELSE Fresh]
           /\ dumped' = d.opts
    /\ UNCHANGED <<bin, origin>>

Next ==
    \/ LoadBin \/ LoadText \/ Override
    \/ \E f \in 0 .. 2 : NewRun(f)
    \/ \E unsafe \in BOOLEAN : SaveBin(unsafe)
    \/ \E unsafe, hidden \in BOOLEAN : SaveText(unsafe, hidden)

Spec == Init /\ [][Next]_vars

---------------------------------------------------------------------------
(* What save_config_image of the board takes (setup_data.cpp:116-123).       *)
BoardAccepts(i) ==
    /\ i.words <= MaxWords /\ i.words >= FullWords /\ HeaderWords(i) = i.words
    /\ i.crc \in {AutoCrc, Crc(i.body, i.words)}

(* Type invariant.                                                           *)
TypeOK ==
    /\ stage \in {"none", "load", "set"} /\ force \in 0 .. 2
    /\ bin.crc # None /\ Body(data) \in Fields /\ bin.body \in Fields
    /\ origin \in {"foreign", "safe", "unsafe"}

(* A binary saved with its CRC is taken by the board and by a later run      *)
(* without -f, whatever was loaded, joined, forced or overridden before.     *)
SafeSaveAccepted == origin = "safe" => BoardAccepts(bin) /\ ToolAccepts(bin, 0)

(* With --unsafe-crc the tool does "not write CRC field in config image";    *)
(* "MSTD loader will writes CRC themselves" (mstd.cfg.py:689), so the board  *)
(* takes the image.                                                          *)
UnsafeSaveAccepted == origin = "unsafe" => BoardAccepts(bin)

(* A dump that can be read back says what was dumped: no bit of an enum is   *)
(* lost or added between int2str and str2int.                                *)
DumpReadsBack ==
    (text # None /\ Readable(text.opts)) => Str2Int(text.opts) = dumped
=============================================================================
