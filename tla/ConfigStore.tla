---------------------------- MODULE ConfigStore ----------------------------
(* The configuration log of the bootloader (setup_data.cpp): one flash       *)
(* partition holding configuration records one after another, scanned at     *)
(* boot for the active (last valid) one and appended to by every upload.     *)
(* The unit is the 32-bit word: records are whole words (the low two bits of *)
(* a size are refused), and word 0 of a record is its CRC, word 1 holds its  *)
(* size field.                                                               *)
EXTENDS Integers, FiniteSets

CONSTANTS
    PartWords,   \* MAX_CFG_SIZE in words
    MinWords,    \* sizeof(Config_V0) in words
    Word,        \* values a flash word takes here
    Erased,      \* the word 0xFFFFFFFF
    SizeField,   \* [Word -> 0..PartWords]: the record length in words a word
                 \* denotes when read as C.size; 0 when its high byte is FF
    Mix,         \* Mix[v][w]: what programming w over v leaves (bits only
                 \* clear: the bitwise and)
    Junk,        \* values a word whose programming is interrupted may take
    Records,     \* the word sequences, indexed from 0, whose CRC is right
    Fulls,       \* images of the whole partition that may be uploaded
    FlashFails   \* whether erasing or programming may report an error

Offset == 0 .. PartWords - 1
Words(r) == Cardinality(DOMAIN r)

(* Word values are abstract and the CRC is ideal: exactly the members of     *)
(* Records check.  A CRC is never 0xFFFFFFFF, which the code reads as free.  *)
(* The one-word record is the all-zero size field: CRC of nothing is 0.      *)
ASSUME SizeAssumption ==
    PartWords \in Nat /\ MinWords \in Nat /\ 2 <= MinWords /\ MinWords <= PartWords

ASSUME WordAssumption ==
    /\ Erased \in Word /\ Junk \subseteq Word
    /\ SizeField \in [Word -> 0 .. PartWords] /\ SizeField[Erased] = 0

ASSUME MixAssumption ==
    \A v, w \in Word : Mix[v][w] \in Word /\ Mix[Erased][w] = w

ASSUME RecordAssumption ==
    \A r \in Records :
      /\ \E n \in 1 .. PartWords : r \in [0 .. n - 1 -> Word] /\ Words(r) = n
      /\ r[0] # Erased
      /\ Words(r) > 1 => SizeField[r[1]] = Words(r)

ASSUME FullAssumption == Fulls \subseteq [Offset -> Word] /\ FlashFails \in BOOLEAN

VARIABLES
    flash,     \* the partition
    cfgFull,   \* cfg_full, its copy in RAM
    loaded,    \* cfg_full_loaded
    cfgPat,    \* cfg_pat # NULL
    config,    \* offset in cfgFull that config points to, -1 for NULL
    cfgSize,   \* cfg_size
    next,      \* next_cfg_shift
    ptr,       \* ptr of find_active_config
    pc,        \* where the task is
    job,       \* the save in progress: "image", "full" or "none"
    img,       \* the image being saved
    done,      \* words of it already programmed
    regular,   \* history: since the last erase no full image was written, no
               \* erase failed and every boot found where the log ends
    newest,    \* history: offset of the last record whose save returned NULL
               \* since the last erase, -1 if there is none
    tried      \* history: records whose programming was cut short since then

ram == <<cfgFull, loaded, cfgPat, config, cfgSize>>
vars == <<flash, ram, next, ptr, pc, job, img, done, regular, newest,
          tried>>

NoImage == [i \in {} |-> Erased]
Blank == [o \in Offset |-> Erased]

Init ==
    /\ flash = Blank
    /\ cfgFull = Blank /\ loaded = FALSE /\ cfgPat = FALSE
    /\ config = -1 /\ cfgSize = 0 /\ next = 0 /\ ptr = 0
    /\ pc = "off" /\ job = "none" /\ img = NoImage /\ done = 0
    /\ regular = TRUE /\ newest = -1 /\ tried = {}

(* Every word of image c from offset o on is erased.                         *)
FreeFrom(c, o) == \A i \in Offset : i >= o => c[i] = Erased

(* The words of c at o .. o+n-1 form a record with a right CRC.              *)
ValidAt(c, o, n) ==
    \E r \in Records : Words(r) = n /\ \A i \in 0 .. n - 1 : c[o + i] = r[i]

---------------------------------------------------------------------------
(* Boot: load_config, then one action per turn of find_active_config's loop. *)

LoadConfig ==
    /\ pc = "off" /\ ~loaded
    /\ cfgFull' = flash /\ loaded' = TRUE /\ cfgPat' = TRUE
    /\ ptr' = 0 /\ pc' = "scan"
    /\ UNCHANGED <<flash, config, cfgSize, next, job, img, done, regular, newest,
                   tried>>

(* The partition is missing or cannot be read: the program goes on without.  *)
LoadConfigFails ==
    /\ pc = "off"
    /\ cfgPat' = FALSE /\ pc' = "ready"
    /\ UNCHANGED <<flash, cfgFull, loaded, config, cfgSize, next, ptr, job,
                   img, done, regular, newest, tried>>

InScan == pc = "scan" /\ ptr < PartWords

(* C.size of the record at ptr; behind the last word the load reads whatever *)
(* follows cfg_full in memory.                                               *)
SizeAtPtr ==
    IF ptr + 1 < PartWords THEN {SizeField[cfgFull[ptr + 1]]} ELSE 0 .. PartWords

ScanUnchanged ==
    UNCHANGED <<flash, cfgFull, loaded, cfgPat, job, img, done, newest, tried>>

ScanFree ==
    /\ InScan /\ cfgFull[ptr] = Erased
    /\ next' = IF FreeFrom(cfgFull, ptr) THEN ptr ELSE -1
    /\ pc' = "ready"
    /\ ScanUnchanged /\ UNCHANGED <<config, cfgSize, ptr, regular>>

(* Only the CRC and the word of the size field were written: go on behind.   *)
AbortedEnd_NoAdvance == ptr
AbortedEnd == ptr + 2

ScanAborted ==
    /\ InScan /\ cfgFull[ptr] # Erased /\ 0 \in SizeAtPtr
    /\ ptr' = AbortedEnd
    /\ ScanUnchanged /\ UNCHANGED <<config, cfgSize, next, pc, regular>>

ScanOutOfPartition ==
    /\ InScan /\ cfgFull[ptr] # Erased
    /\ \E sz \in SizeAtPtr \ {0} : ptr + sz > PartWords /\ ptr' = ptr + sz
    /\ pc' = "ready" /\ regular' = FALSE
    /\ ScanUnchanged /\ UNCHANGED <<config, cfgSize, next>>

(* "sz >= sizeof(config)" is the size of a pointer, one word: every record   *)
(* whose CRC is right becomes the active one.                                *)
TooSmall(sz) == sz < 1
Accept_NoCrc(sz) == ~TooSmall(sz)
Accept_First(sz) == ValidAt(cfgFull, ptr, sz) /\ config = -1
Accept(sz) == ValidAt(cfgFull, ptr, sz) /\ ~TooSmall(sz)

ScanRecord ==
    /\ InScan /\ cfgFull[ptr] # Erased
    /\ \E sz \in SizeAtPtr \ {0} :
         /\ ptr + sz <= PartWords
         /\ ptr' = ptr + sz
         /\ IF Accept(sz)
              THEN config' = ptr /\ cfgSize' = sz
              ELSE UNCHANGED <<config, cfgSize>>
    /\ ScanUnchanged /\ UNCHANGED <<next, pc, regular>>

ScanEnd ==
    /\ pc = "scan" /\ ptr >= PartWords
    /\ pc' = "ready" /\ regular' = FALSE
    /\ ScanUnchanged /\ UNCHANGED <<config, cfgSize, next, ptr>>

Scan == ScanFree \/ ScanAborted \/ ScanOutOfPartition \/ ScanRecord \/ ScanEnd

---------------------------------------------------------------------------
(* Saving.  save_config_image appends and erases only when it must;          *)
(* save_config_full always erases.  Erasing and programming are steps of     *)
(* their own: the power may fail between them.                               *)

Return == pc' = "ready" /\ job' = "none" /\ img' = NoImage /\ done' = 0

NoRoom_OffByOne(n) == next < 0 \/ next + n > PartWords + 1
NoRoom(n) == next < 0 \/ next + n > PartWords

(* next_cfg_shift is reset before the erase is known to have worked.         *)
SaveConfigImage(r) ==
    /\ pc = "ready" /\ cfgPat /\ Words(r) >= MinWords
    /\ job' = "image" /\ img' = r /\ done' = 0
    /\ IF NoRoom(Words(r))
         THEN next' = 0 /\ pc' = "erase"
         ELSE next' = next /\ pc' = "program"
    /\ UNCHANGED <<flash, ram, ptr, regular, newest, tried>>

SaveConfigFull(f) ==
    /\ pc = "ready" /\ cfgPat
    /\ job' = "full" /\ img' = f /\ done' = 0 /\ pc' = "erase"
    /\ UNCHANGED <<flash, ram, next, ptr, regular, newest, tried>>

Erase ==
    /\ pc = "erase"
    /\ flash' = Blank
    /\ next' = 0 /\ pc' = "program"
    /\ regular' = (job = "image") /\ newest' = -1 /\ tried' = {}
    /\ UNCHANGED <<ram, ptr, job, img, done>>

EraseFails ==
    /\ FlashFails /\ pc = "erase"
    /\ regular' = (regular /\ job = "full")
    /\ Return
    /\ UNCHANGED <<flash, ram, next, ptr, newest, tried>>

(* The word being programmed, when interrupted, may be anything between.     *)
Torn(old, w) == {old, Mix[old][w]} \union Junk
TearWord ==
    \E w \in Torn(flash[next + done], img[done]) :
        flash' = [flash EXCEPT ![next + done] = w]
CutShort == tried' = IF job = "image" THEN tried \union {img} ELSE tried

(* next_cfg_shift behind a record that was saved, and after a failed save.   *)
SavedNext_Short == next + Words(img) - 1
SavedNext == next + Words(img)
FailedNext_Retry == next
FailedNext == IF job = "full" THEN next ELSE -1

Program ==
    /\ pc = "program"
    /\ flash' = [flash EXCEPT ![next + done] = Mix[@][img[done]]]
    /\ IF done + 1 < Words(img)
         THEN /\ done' = done + 1
              /\ UNCHANGED <<next, pc, job, img, newest, tried>>
         ELSE /\ IF job = "full" THEN UNCHANGED <<next, newest, tried>>
                 ELSE next' = SavedNext /\ newest' = next /\ tried' = {}
              /\ Return
    /\ UNCHANGED <<ram, ptr, regular>>

ProgramFails ==
    /\ FlashFails /\ pc = "program"
    /\ TearWord /\ CutShort
    /\ next' = FailedNext
    /\ Return
    /\ UNCHANGED <<ram, ptr, regular, newest>>

(* Power loss or reset.  RAM starts over; a word being programmed is torn.   *)
(* The erase of the one sector is taken to be atomic.                        *)
Crash ==
    /\ pc # "off"
    /\ IF pc = "program" THEN TearWord /\ CutShort ELSE UNCHANGED <<flash, tried>>
    /\ cfgFull' = Blank /\ loaded' = FALSE /\ cfgPat' = FALSE
    /\ config' = -1 /\ cfgSize' = 0 /\ next' = 0 /\ ptr' = 0
    /\ pc' = "off" /\ job' = "none" /\ img' = NoImage /\ done' = 0
    /\ UNCHANGED <<regular, newest>>

Save ==
    \/ \E r \in Records : SaveConfigImage(r)
    \/ \E f \in Fulls : SaveConfigFull(f)
    \/ Erase \/ EraseFails \/ Program \/ ProgramFails

Next == LoadConfig \/ LoadConfigFails \/ Scan \/ Save \/ Crash

Spec == Init /\ [][Next]_vars /\ WF_vars(Scan)

---------------------------------------------------------------------------
(* Properties.                                                               *)

(* Type invariant; an image being programmed always fits where it goes.      *)
TypeOK ==
    /\ flash \in [Offset -> Word] /\ cfgFull \in [Offset -> Word]
    /\ loaded \in BOOLEAN /\ cfgPat \in BOOLEAN /\ regular \in BOOLEAN
    /\ config \in -1 .. PartWords - 1 /\ cfgSize \in 0 .. PartWords
    /\ next \in -1 .. PartWords /\ newest \in -1 .. PartWords - 1
    /\ ptr \in 0 .. 2 * PartWords
    /\ pc \in {"off", "scan", "ready", "erase", "program"}
    /\ job = "none" <=> pc \in {"off", "scan", "ready"}
    /\ job \in {"none", "image", "full"}
    /\ img \in (IF job = "none" THEN {NoImage}
                ELSE IF job = "image" THEN Records ELSE Fulls)
    /\ done \in 0 .. PartWords /\ (pc # "program" => done = 0)
    /\ tried \subseteq Records
    /\ pc = "program" => /\ done < Words(img) /\ next >= 0
                         /\ next + Words(img) <= PartWords

(* A save never programs over data: in a regular log next_cfg_shift is the   *)
(* start of erased space, and while a record is programmed the words still   *)
(* to come are erased (setup_data.cpp:26, 124-130).                          *)
TailFree ==
    regular =>
      /\ (pc = "ready" /\ cfgPat /\ next >= 0) => FreeFrom(flash, next)
      /\ pc = "program" => FreeFrom(flash, next + done)

Whole(o) == \E r \in Records : /\ o + Words(r) <= PartWords
                               /\ \A i \in DOMAIN r : flash[o + i] = r[i]

(* In a regular log the record the last successful save wrote stays whole in *)
(* flash, whatever saves, failed writes and power losses follow, until the   *)
(* partition is erased again.  A log stops being regular when a full image   *)
(* is written, when an erase fails and when a boot does not find where the   *)
(* log ends: a log filled to its last word (setup_data.cpp:53), a size word  *)
(* torn so that it points past the partition (lines 70-73).  SavedIsWhole    *)
(* and NewestSurvives are about what happens then.                           *)
NewestIntact == (regular /\ newest >= 0) => Whole(newest)

(* What load_config hands out is a record with a right CRC inside cfg_full.  *)
ActiveIsRecord ==
    config >= 0 => /\ config + cfgSize <= PartWords
                   /\ ValidAt(cfgFull, config, cfgSize)

(* No boot falls back behind a record whose save returned NULL: when the     *)
(* scan of a regular log ends, config is that record or a later one.         *)
BootFindsNewest ==
    [][(regular /\ pc = "scan" /\ pc' = "ready") => config' >= newest]_vars

(* The scan ends whatever the partition holds.                               *)
ScanTerminates == pc = "scan" ~> pc # "scan"

(* save_config_image returns NULL, and "on error" an error string            *)
(* (setup_data.h:22-23), so when it returns NULL its record is in flash.  It *)
(* is not when next_cfg_shift was not "where next config can be started"     *)
(* (setup_data.cpp:26): after a boot from a log that ends with the last word *)
(* of the partition, and after a partition image, before the next boot.      *)
SavedIsWhole ==
    [][(Program /\ pc' = "ready" /\ job = "image")
         => \A i \in DOMAIN img : flash'[next + i] = img[i]]_vars

(* next_cfg_shift is "where next config can be started" (setup_data.cpp:26), *)
(* so while nothing is erased no save touches the record the last successful *)
(* one wrote.  It does when the boot's scan met a torn size word that points *)
(* past the partition: it returns with next_cfg_shift still 0, and the next  *)
(* save programs over the records at the start of the partition; and when an *)
(* erase has failed, before which next_cfg_shift is set to 0.                *)
NewestSurvives == newest >= 0 => Whole(newest)

(* A record shorter than Config_V0 is "too small" (setup_data.cpp:84).       *)
ActiveIsBigEnough == config >= 0 => cfgSize >= MinWords
=============================================================================
