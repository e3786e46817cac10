-------------------------- MODULE ConfigTool_proofs --------------------------
(* Proofs about ConfigTool: what the tool saves is taken by the board and by *)
(* the tool, and a dump reads back, for every enum, structure and input.     *)
EXTENDS ConfigTool, TLAPS

(* The CRCs that data and the binary file can hold.                          *)
Crcs == {None, AutoCrc} \union {i.crc : i \in Foreign}
        \union {Crc(b, FullWords) : b \in Fields}

Data == [crc : Crcs, size : 0 .. MaxWords, version : 0 .. Version + 1,
         opts : SUBSET Bit]

(* The binary file: the tool's own has every word of the structure, and one  *)
(* saved with its CRC holds that CRC and the header of this version.         *)
BinTyped == bin.body \in Fields /\ bin.words \in Nat /\ bin.crc \in Crcs \ {None}
BinSaved ==
    origin = "safe" =>
        /\ bin.words = FullWords /\ bin.crc = Crc(bin.body, FullWords)
        /\ bin.body.version = Version /\ bin.body.size = FullWords - 1

(* The text file: it was made of data, and its options of what was dumped.   *)
TextMade ==
    text # None =>
        /\ dumped \in SUBSET Bit /\ text.opts = Int2Str(dumped)
        /\ text.hidden \in BOOLEAN /\ text.data \in Data

ToolInv ==
    /\ stage \in {"none", "load", "set"} /\ force \in 0 .. 2
    /\ origin \in {"foreign", "safe", "unsafe"}
    /\ data \in Data
    /\ BinTyped /\ BinSaved /\ TextMade

---------------------------------------------------------------------------
(* What int2str shows are items whose bits are all there, so the bits read   *)
(* back are those the items stand for, and no more.                          *)
LEMMA ReadBack ==
    ASSUME NEW val \in SUBSET Bit
    PROVE  /\ Str2Int(Int2Str(val)) \in SUBSET Bit
           /\ Readable(Int2Str(val)) => Str2Int(Int2Str(val)) = val
<1>1. Str2Int(Int2Str(val)) = Processed(val)
  BY DEF Str2Int, Int2Str, Processed
<1>2. Processed(val) \subseteq val
  BY DEF Processed, Shown, Shows
<1>3. Readable(Int2Str(val)) => val \subseteq Processed(val)
  BY DEF Readable, Int2Str, Rest
<1> QED BY <1>1, <1>2, <1>3

(* EndRun forgets the data.                                                  *)
LEMMA FreshData == Fresh \in Data
BY ToolAssumption DEF Fresh, Data, Crcs

(* What is saved keeps its types and has the header of this version.         *)
LEMMA PatchedData ==
    ASSUME NEW d \in Data, NEW unsafe \in BOOLEAN
    PROVE  /\ Patched(d, unsafe) \in Data
           /\ Patched(d, unsafe).crc # None
           /\ Patched(d, unsafe).version = Version
           /\ Patched(d, unsafe).size = FullWords - 1
           /\ ~unsafe => Patched(d, unsafe).crc = Crc(Body(Patched(d, unsafe)), FullWords)
<1>1. Version \in 0 .. Version + 1 /\ FullWords - 1 \in 0 .. MaxWords
  BY ToolAssumption
<1>2. Sized(d) = [crc |-> d.crc, size |-> FullWords - 1, version |-> Version,
                  opts |-> d.opts]
  <2> DEFINE e == [d EXCEPT !.version = Version]
  <2>1. e = [crc |-> d.crc, size |-> d.size, version |-> Version, opts |-> d.opts]
    BY DEF Data
  <2>2. Sized(d) = [e EXCEPT !.size = FullWords - 1]
    BY DEF Sized
  <2> HIDE DEF e
  <2> QED BY <2>1, <2>2
<1>3. Covered(d) = [size |-> FullWords - 1, version |-> Version, opts |-> d.opts]
  BY <1>2 DEF Covered, Body
<1>4. Covered(d) \in Fields
  BY <1>1, <1>3 DEF Fields, Data
<1>5. Crc(Covered(d), FullWords) # None /\ Crc(Covered(d), FullWords) \in Crcs
  BY <1>4, ToolAssumption DEF Crcs
<1>6. UnsafeCrc(d) # None /\ UnsafeCrc(d) \in Crcs
  BY ToolAssumption DEF UnsafeCrc, Data, Crcs
<1> DEFINE crc == IF unsafe THEN UnsafeCrc(d) ELSE Crc(Covered(d), FullWords)
<1>7. crc \in Crcs /\ crc # None
  BY <1>5, <1>6
<1>8. Patched(d, unsafe) = [crc |-> crc, size |-> FullWords - 1,
                            version |-> Version, opts |-> d.opts]
  BY <1>2 DEF Patched
<1> HIDE DEF crc
<1>9. Body(Patched(d, unsafe)) = Covered(d)
  BY <1>3, <1>8 DEF Body
<1>10. Patched(d, unsafe) \in Data
  BY <1>1, <1>7, <1>8 DEF Data
<1> QED BY <1>7, <1>8, <1>9, <1>10 DEF crc

(* Every run keeps the invariant.                                            *)
LEMMA ToolInvInit == Init => ToolInv
<1> SUFFICES ASSUME Init PROVE ToolInv
  OBVIOUS
<1>1. data \in Data
  BY FreshData DEF Init
<1>2. BinTyped
  BY ToolAssumption DEF Init, BinTyped, Crcs
<1> QED BY <1>1, <1>2 DEF Init, ToolInv, BinSaved, TextMade

LEMMA ToolInvNext == ToolInv /\ [Next]_vars => ToolInv'
<1> SUFFICES ASSUME ToolInv, [Next]_vars PROVE ToolInv'
  OBVIOUS
<1> USE DEF ToolInv
<1>1. CASE LoadBin
  <2>1. (BinTyped /\ BinSaved /\ TextMade)'
    BY <1>1 DEF LoadBin, BinTyped, BinSaved, TextMade
  <2>2. Loaded(bin) \in Data
    BY DEF Loaded, BinTyped, Fields, Data
  <2> QED BY <1>1, <2>1, <2>2, FreshData DEF LoadBin, EndRun
<1>2. CASE LoadText
  <2>1. (BinTyped /\ BinSaved /\ TextMade)'
    BY <1>2 DEF LoadText, BinTyped, BinSaved, TextMade
  <2>2. text.data \in Data /\ Str2Int(text.opts) \in SUBSET Bit
    BY <1>2, ReadBack DEF LoadText, TextMade
  <2>3. /\ [text.data EXCEPT !.opts = Str2Int(text.opts)] \in Data
        /\ [data EXCEPT !.opts = Str2Int(text.opts)] \in Data
    BY <2>2 DEF Data
  <2> QED BY <1>2, <2>1, <2>3, FreshData DEF LoadText, EndRun
<1>3. CASE Override
  <2>1. (BinTyped /\ BinSaved /\ TextMade)'
    BY <1>3 DEF Override, BinTyped, BinSaved, TextMade
  <2>2. data' \in Data
    <3>1. ASSUME NEW i \in Item PROVE [data EXCEPT !.opts = ItemBits[i]] \in Data
      BY ToolAssumption DEF Data
    <3>2. ASSUME NEW c \in {None, AutoCrc} PROVE [data EXCEPT !.crc = c] \in Data
      BY DEF Data, Crcs
    <3> QED BY <1>3, <3>1, <3>2 DEF Override
  <2> QED BY <1>3, <2>1, <2>2 DEF Override
<1>4. ASSUME NEW f \in 0 .. 2, NewRun(f) PROVE ToolInv'
  BY <1>4 DEF NewRun, BinTyped, BinSaved, TextMade
<1>5. ASSUME NEW unsafe \in BOOLEAN, SaveBin(unsafe) PROVE ToolInv'
  <2> DEFINE d == Patched(data, unsafe)
  <2>1. /\ d \in Data /\ d.crc # None
        /\ d.version = Version /\ d.size = FullWords - 1
        /\ ~unsafe => d.crc = Crc(Body(d), FullWords)
    BY PatchedData
  <2>2. /\ bin' = Binary(d) /\ origin' = (IF unsafe THEN "unsafe" ELSE "safe")
        /\ stage' = "none" /\ force' = 0 /\ data' = Fresh
        /\ text' = text /\ dumped' = dumped
    BY <1>5 DEF SaveBin, EndRun
  <2> HIDE DEF d
  <2>3. /\ bin'.body = Body(d) /\ bin'.words = FullWords /\ bin'.crc = d.crc
        /\ bin'.body.version = d.version /\ bin'.body.size = d.size
    BY <2>2 DEF Binary, Image, Body
  <2>4. BinTyped'
    BY <2>1, <2>3, ToolAssumption DEF BinTyped, Data, Body, Fields
  <2>5. BinSaved'
    BY <2>1, <2>2, <2>3 DEF BinSaved
  <2> QED BY <2>2, <2>4, <2>5, FreshData DEF TextMade
<1>6. ASSUME NEW unsafe \in BOOLEAN, NEW hidden \in BOOLEAN,
             SaveText(unsafe, hidden)
      PROVE  ToolInv'
  <2> DEFINE d == Patched(data, unsafe)
  <2>1. d \in Data
    BY PatchedData
  <2>2. /\ text' = [hidden |-> hidden, opts |-> Int2Str(d.opts),
                    data |-> IF hidden THEN d ELSE Fresh]
        /\ dumped' = d.opts /\ stage' = "none" /\ force' = 0 /\ data' = Fresh
        /\ bin' = bin /\ origin' = origin
    BY <1>6 DEF SaveText, EndRun
  <2> HIDE DEF d
  <2>3. TextMade'
    BY <2>1, <2>2, FreshData DEF TextMade, Data
  <2>4. (BinTyped /\ BinSaved)'
    BY <2>2 DEF BinTyped, BinSaved
  <2> QED BY <2>2, <2>3, <2>4, FreshData
<1>7. CASE UNCHANGED vars
  BY <1>7 DEF vars, BinTyped, BinSaved, TextMade
<1> QED BY <1>1, <1>2, <1>3, <1>4, <1>5, <1>6, <1>7 DEF Next

LEMMA ToolInvAlways == Spec => []ToolInv
BY ToolInvInit, ToolInvNext, PTL DEF Spec

---------------------------------------------------------------------------
(* Type correctness: whatever is loaded, joined and overridden, the data     *)
(* fit the structure and a saved image always has a CRC.                     *)
THEOREM ToolTypes == Spec => []TypeOK
<1>1. ToolInv => TypeOK
  BY DEF ToolInv, BinTyped, TypeOK, Data, Body, Fields
<1> QED BY <1>1, ToolInvAlways, PTL

(* A binary saved with its CRC is taken by save_config_image of the board    *)
(* and by is_binary_accepted without -f.                                     *)
THEOREM SavedAreAccepted == Spec => []SafeSaveAccepted
<1>1. ASSUME ToolInv, origin = "safe"
      PROVE  BoardAccepts(bin) /\ ToolAccepts(bin, 0)
  <2>1. /\ bin.words = FullWords /\ bin.crc = Crc(bin.body, FullWords)
        /\ bin.body.version = Version /\ bin.body.size = FullWords - 1
        /\ bin.body \in Fields
    BY <1>1 DEF ToolInv, BinSaved, BinTyped
  <2>2. HeaderWords(bin) = FullWords
    BY <2>1, ToolAssumption DEF HeaderWords
  <2>3. BoardAccepts(bin)
    BY <2>1, <2>2, ToolAssumption DEF BoardAccepts
  <2>4. bin.crc # AutoCrc
    BY <2>1, ToolAssumption
  <2>5. Valid(bin) /\ ~Warns(bin)
    BY <2>1, <2>2, <2>4, ToolAssumption DEF Valid, Warns
  <2> QED BY <2>3, <2>5 DEF ToolAccepts
<1>2. ToolInv => SafeSaveAccepted
  BY <1>1 DEF SafeSaveAccepted
<1> QED BY <1>2, ToolInvAlways, PTL

(* A dump that str2int can read back says what was dumped, whatever names    *)
(* the enum has and however their bits overlap.                              *)
THEOREM DumpsReadBack == Spec => []DumpReadsBack
<1>1. ToolInv => DumpReadsBack
  BY ReadBack DEF ToolInv, TextMade, DumpReadsBack
<1> QED BY <1>1, ToolInvAlways, PTL
=============================================================================
