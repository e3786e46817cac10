------------------------ MODULE ConfigStore_proofs ------------------------
(* Proofs about ConfigStore, for every partition size, every set of records  *)
(* and of partition images, and every way words tear and mix.                *)
EXTENDS ConfigStore, FiniteSetTheorems, TLAPS

(* What RecordAssumption says of one record.                                 *)
LEMMA RecordFacts ==
    ASSUME NEW r \in Records
    PROVE  /\ Words(r) \in 1 .. PartWords
           /\ DOMAIN r = 0 .. Words(r) - 1
           /\ \A i \in 0 .. Words(r) - 1 : r[i] \in Word
           /\ r[0] # Erased
<1>1. PICK n \in 1 .. PartWords : r \in [0 .. n - 1 -> Word] /\ Words(r) = n
  BY RecordAssumption
<1>2. r[0] # Erased
  BY RecordAssumption
<1>3. QED BY <1>1, <1>2

(* A partition image has as many words as the partition.                     *)
LEMMA FullFacts ==
    ASSUME NEW f \in Fulls
    PROVE  /\ Words(f) = PartWords
           /\ DOMAIN f = 0 .. PartWords - 1
           /\ \A i \in 0 .. PartWords - 1 : f[i] \in Word
<1>1. f \in [0 .. PartWords - 1 -> Word]
  BY FullAssumption DEF Offset
<1>2. PartWords \in Nat /\ PartWords >= 2
  BY SizeAssumption
<1>3. Cardinality(0 .. PartWords - 1) = PartWords
  BY <1>2, FS_Interval
<1>4. QED BY <1>1, <1>3 DEF Words

(* The image of a save in progress: some words, all of them flash words.     *)
LEMMA ImageFacts ==
    ASSUME TypeOK, job # "none"
    PROVE  /\ Words(img) \in 1 .. PartWords
           /\ DOMAIN img = 0 .. Words(img) - 1
           /\ \A i \in 0 .. Words(img) - 1 : img[i] \in Word
<1>1. CASE job = "image"
  BY <1>1, RecordFacts DEF TypeOK
<1>2. CASE job = "full"
  <2>1. img \in Fulls
    BY <1>2 DEF TypeOK
  <2>2. PartWords \in Nat /\ PartWords >= 2
    BY SizeAssumption
  <2>3. QED BY <2>1, <2>2, FullFacts
<1>3. QED BY <1>1, <1>2 DEF TypeOK

---------------------------------------------------------------------------
(* Type correctness.                                                         *)

LEMMA BlankType == Blank \in [Offset -> Word]
BY WordAssumption DEF Blank

LEMMA MixType == \A v, w \in Word : Mix[v][w] \in Word
BY MixAssumption

LEMMA TearType ==
    ASSUME TypeOK, pc = "program", TearWord
    PROVE  flash' \in [Offset -> Word]
<1>1. PICK w \in Torn(flash[next + done], img[done]) :
        flash' = [flash EXCEPT ![next + done] = w]
  BY DEF TearWord
<1>2. next + done \in Offset /\ img[done] \in Word
  BY ImageFacts, SizeAssumption DEF TypeOK, Offset
<1>3. flash[next + done] \in Word
  BY <1>2 DEF TypeOK
<1>4. w \in Word
  BY <1>1, <1>2, <1>3, MixType, WordAssumption DEF Torn
<1>5. QED BY <1>1, <1>4 DEF TypeOK

LEMMA CutShortType == ASSUME TypeOK, CutShort PROVE tried' \subseteq Records
BY DEF TypeOK, CutShort

LEMMA InitType == Init => TypeOK
<1> SUFFICES ASSUME Init PROVE TypeOK
  OBVIOUS
<1>1. flash \in [Offset -> Word] /\ cfgFull \in [Offset -> Word]
  BY BlankType DEF Init
<1>2. img \in {NoImage} /\ job = "none" /\ pc = "off" /\ done = 0
  BY DEF Init
<1>3. loaded \in BOOLEAN /\ cfgPat \in BOOLEAN /\ regular \in BOOLEAN
  BY DEF Init
<1>4. /\ config \in -1 .. PartWords - 1 /\ cfgSize \in 0 .. PartWords
      /\ next \in -1 .. PartWords /\ newest \in -1 .. PartWords - 1
      /\ ptr \in 0 .. 2 * PartWords /\ 0 \in 0 .. PartWords
  BY SizeAssumption DEF Init
<1>5. tried \subseteq Records
  BY DEF Init
<1>6. QED BY <1>1, <1>2, <1>3, <1>4, <1>5 DEF TypeOK

LEMMA ScanType == ASSUME TypeOK, Scan PROVE TypeOK'
<1> USE DEF TypeOK, ScanUnchanged
<1>p. PartWords \in Nat /\ PartWords >= 2
  BY SizeAssumption
<1>1. CASE ScanFree
  BY <1>1, <1>p DEF ScanFree, InScan
<1>2. CASE ScanAborted
  BY <1>2, <1>p DEF ScanAborted, InScan, AbortedEnd
<1>s. ASSUME InScan, NEW sz \in SizeAtPtr PROVE sz \in 0 .. PartWords
  BY <1>s, <1>p, WordAssumption DEF SizeAtPtr, InScan, Offset
<1>3. CASE ScanOutOfPartition
  <2>1. PICK sz \in SizeAtPtr \ {0} : ptr + sz > PartWords /\ ptr' = ptr + sz
    BY <1>3 DEF ScanOutOfPartition
  <2>2. ptr' \in 0 .. 2 * PartWords
    BY <2>1, <1>s, <1>3, <1>p DEF ScanOutOfPartition, InScan
  <2>3. QED BY <2>2, <1>3, <1>p DEF ScanOutOfPartition, InScan
<1>4. CASE ScanRecord
  <2>1. PICK sz \in SizeAtPtr \ {0} :
          /\ ptr + sz <= PartWords
          /\ ptr' = ptr + sz
          /\ IF Accept(sz) THEN config' = ptr /\ cfgSize' = sz
                           ELSE UNCHANGED <<config, cfgSize>>
    BY <1>4 DEF ScanRecord
  <2>2. sz \in 1 .. PartWords
    BY <2>1, <1>s, <1>4 DEF ScanRecord
  <2>3. /\ ptr' \in 0 .. 2 * PartWords
        /\ config' \in -1 .. PartWords - 1 /\ cfgSize' \in 0 .. PartWords
    BY <2>1, <2>2, <1>4, <1>p DEF ScanRecord, InScan
  <2>4. QED BY <2>3, <1>4, <1>p DEF ScanRecord, InScan
<1>5. CASE ScanEnd
  BY <1>5, <1>p DEF ScanEnd
<1>6. QED BY <1>1, <1>2, <1>3, <1>4, <1>5 DEF Scan

LEMMA SaveType == ASSUME TypeOK, Save PROVE TypeOK'
<1> USE DEF TypeOK, ram
<1>p. PartWords \in Nat /\ PartWords >= 2
  BY SizeAssumption
<1>1. ASSUME NEW r \in Records, SaveConfigImage(r) PROVE TypeOK'
  <2>1. Words(r) \in 1 .. PartWords
    BY RecordFacts
  <2>2. QED BY <1>1, <2>1, <1>p DEF SaveConfigImage, NoRoom
<1>2. ASSUME NEW f \in Fulls, SaveConfigFull(f) PROVE TypeOK'
  BY <1>2, <1>p DEF SaveConfigFull
<1>3. CASE Erase
  <2>1. Words(img) \in 1 .. PartWords
    BY <1>3, ImageFacts DEF Erase
  <2>2. QED BY <1>3, <2>1, <1>p, BlankType DEF Erase
<1>4. CASE EraseFails
  BY <1>4, <1>p DEF EraseFails, Return
<1>5. CASE Program
  <2>1. Words(img) \in 1 .. PartWords /\ img[done] \in Word
    BY <1>5, ImageFacts DEF Program
  <2>2. next + done \in Offset
    BY <1>5, <2>1, <1>p DEF Program, Offset
  <2>3. flash' \in [Offset -> Word]
    BY <1>5, <2>1, <2>2, MixType DEF Program
  <2>4. CASE done + 1 < Words(img)
    BY <1>5, <2>1, <2>3, <2>4, <1>p DEF Program
  <2>5. CASE ~(done + 1 < Words(img))
    BY <1>5, <2>1, <2>3, <2>5, <1>p DEF Program, Return, SavedNext
  <2>6. QED BY <2>4, <2>5
<1>6. CASE ProgramFails
  <2>1. flash' \in [Offset -> Word]
    BY <1>6, TearType DEF ProgramFails
  <2>2. tried' \subseteq Records
    BY <1>6, CutShortType DEF ProgramFails
  <2>3. QED BY <1>6, <2>1, <2>2, <1>p DEF ProgramFails, Return, FailedNext
<1>7. QED BY <1>1, <1>2, <1>3, <1>4, <1>5, <1>6 DEF Save

LEMMA NextType == ASSUME TypeOK, [Next]_vars PROVE TypeOK'
<1>p. PartWords \in Nat /\ PartWords >= 2
  BY SizeAssumption
<1>1. CASE LoadConfig
  BY <1>1, <1>p DEF TypeOK, LoadConfig
<1>2. CASE LoadConfigFails
  BY <1>2, <1>p DEF TypeOK, LoadConfigFails
<1>3. CASE Scan
  BY <1>3, ScanType
<1>4. CASE Save
  BY <1>4, SaveType
<1>5. CASE Crash
  <2>1. flash' \in [Offset -> Word]
    BY <1>5, TearType DEF Crash, TypeOK
  <2>2. cfgFull' \in [Offset -> Word]
    BY <1>5, BlankType DEF Crash
  <2>3. img' \in {NoImage} /\ job' = "none" /\ pc' = "off" /\ done' = 0
    BY <1>5 DEF Crash
  <2>4. /\ loaded' \in BOOLEAN /\ cfgPat' \in BOOLEAN /\ regular' \in BOOLEAN
        /\ newest' \in -1 .. PartWords - 1
    BY <1>5 DEF Crash, TypeOK
  <2>5. /\ config' \in -1 .. PartWords - 1 /\ cfgSize' \in 0 .. PartWords
        /\ next' \in -1 .. PartWords /\ ptr' \in 0 .. 2 * PartWords
    BY <1>5, <1>p DEF Crash
  <2>6. tried' \subseteq Records
    BY <1>5, CutShortType DEF Crash, TypeOK
  <2>7. QED BY <2>1, <2>2, <2>3, <2>4, <2>5, <2>6, <1>p DEF TypeOK
<1>6. CASE UNCHANGED vars
  BY <1>6 DEF TypeOK, vars, ram
<1>7. QED BY <1>1, <1>2, <1>3, <1>4, <1>5, <1>6 DEF Next

(* The variables of setup_data.cpp keep their ranges; in particular an image *)
(* never runs over the end of the partition while it is programmed.          *)
THEOREM TypeCorrect == Spec => []TypeOK
<1>1. QED BY InitType, NextType, PTL DEF Spec

---------------------------------------------------------------------------
(* TailFree.  It is not inductive: the scan decides on the copy in RAM, a    *)
(* failed erase before a full image keeps next_cfg_shift, and a failed write *)
(* of one leaves it at 0.                                                    *)
TailInv ==
    /\ TailFree
    /\ pc = "scan" => cfgFull = flash
    /\ (regular /\ pc = "erase" /\ job = "full" /\ next >= 0)
         => FreeFrom(flash, next)
    /\ (pc = "program" /\ job = "full") => ~regular

LEMMA BlankFree == FreeFrom(Blank, 0)
BY DEF FreeFrom, Blank

(* Programming the first word of a free tail leaves the rest of it free.     *)
LEMMA ShorterTail ==
    ASSUME NEW c, NEW d, NEW o \in Int, FreeFrom(c, o),
           NEW w, d = [c EXCEPT ![o] = w], c \in [Offset -> Word]
    PROVE  FreeFrom(d, o + 1)
BY SizeAssumption DEF FreeFrom, Offset

LEMMA ScanTail == ASSUME TypeOK, TailInv, Scan PROVE TailInv'
<1> USE DEF TailInv, TailFree, ScanUnchanged
<1>1. CASE ScanFree
  <2>1. next' >= 0 => FreeFrom(cfgFull, next') /\ next' = ptr
    BY <1>1, SizeAssumption DEF ScanFree, TypeOK
  <2>2. flash' = flash /\ cfgFull = flash /\ pc' = "ready"
    BY <1>1 DEF ScanFree, InScan
  <2>3. QED BY <2>1, <2>2 DEF FreeFrom
<1>2. CASE ScanAborted
  BY <1>2 DEF ScanAborted, InScan
<1>3. CASE ScanOutOfPartition
  BY <1>3 DEF ScanOutOfPartition
<1>4. CASE ScanRecord
  BY <1>4 DEF ScanRecord, InScan
<1>5. CASE ScanEnd
  BY <1>5 DEF ScanEnd
<1>6. QED BY <1>1, <1>2, <1>3, <1>4, <1>5 DEF Scan

LEMMA SaveTail == ASSUME TypeOK, TailInv, Save PROVE TailInv'
<1> USE DEF TailInv, TailFree, ram
<1>1. ASSUME NEW r \in Records, SaveConfigImage(r) PROVE TailInv'
  <2>1. CASE NoRoom(Words(r))
    BY <1>1, <2>1 DEF SaveConfigImage
  <2>2. CASE ~NoRoom(Words(r))
    <3>1. /\ pc = "ready" /\ cfgPat /\ next >= 0 /\ next' = next
          /\ pc' = "program" /\ job' = "image" /\ done' = 0
          /\ flash' = flash /\ regular' = regular
      BY <1>1, <2>2, SizeAssumption DEF SaveConfigImage, NoRoom, TypeOK
    <3>2. next' + done' = next
      BY <3>1 DEF TypeOK
    <3>3. QED BY <3>1, <3>2 DEF FreeFrom
  <2>3. QED BY <2>1, <2>2
<1>2. ASSUME NEW f \in Fulls, SaveConfigFull(f) PROVE TailInv'
  BY <1>2 DEF SaveConfigFull, FreeFrom
<1>3. CASE Erase
  <2>1. /\ next' = 0 /\ done' = 0 /\ pc' = "program" /\ flash' = Blank
        /\ regular' = (job = "image") /\ job' = job
    BY <1>3 DEF Erase, TypeOK
  <2>2. next' + done' = 0
    BY <2>1
  <2>3. QED BY <2>1, <2>2, BlankFree DEF FreeFrom
<1>4. CASE EraseFails
  BY <1>4 DEF EraseFails, Return, TypeOK, FreeFrom
<1>5. CASE Program
  <2>1. CASE ~regular
    BY <1>5, <2>1 DEF Program, Return
  <2>2. CASE regular
    <3>1. job = "image" /\ FreeFrom(flash, next + done)
      BY <1>5, <2>2 DEF Program, TypeOK
    <3>2. FreeFrom(flash', next + done + 1)
      <4> DEFINE o == next + done
                 w == Mix[flash[o]][img[done]]
      <4>1. o \in Int /\ flash' = [flash EXCEPT ![o] = w]
        BY <1>5 DEF Program, TypeOK
      <4>2. flash \in [Offset -> Word] /\ FreeFrom(flash, o)
        BY <3>1 DEF TypeOK
      <4> HIDE DEF o, w
      <4>3. FreeFrom(flash', o + 1)
        BY <4>1, <4>2, ShorterTail
      <4>4. QED BY <4>3 DEF o
    <3>3. CASE done + 1 < Words(img)
      <4>1. pc' = "program" /\ job' = "image" /\ next' + done' = next + done + 1
        BY <1>5, <3>1, <3>3, SizeAssumption DEF Program, TypeOK
      <4>2. QED BY <4>1, <3>2 DEF FreeFrom
    <3>4. CASE ~(done + 1 < Words(img))
      <4>1. pc' = "ready" /\ next' = next + Words(img)
        BY <1>5, <3>1, <3>4 DEF Program, Return, SavedNext
      <4>2. Words(img) = done + 1
        BY <1>5, <3>4, ImageFacts, SizeAssumption DEF Program, TypeOK
      <4>3. next' = next + done + 1
        BY <4>1, <4>2 DEF TypeOK
      <4>4. QED BY <4>1, <4>3, <3>2 DEF FreeFrom
    <3>5. QED BY <3>3, <3>4
  <2>3. QED BY <2>1, <2>2
<1>6. CASE ProgramFails
  <2>1. CASE job = "full"
    BY <1>6, <2>1 DEF ProgramFails, Return
  <2>2. CASE job # "full"
    <3>1. next' = -1 /\ pc' = "ready"
      BY <1>6, <2>2 DEF ProgramFails, Return, FailedNext
    <3>2. QED BY <3>1
  <2>3. QED BY <2>1, <2>2
<1>7. QED BY <1>1, <1>2, <1>3, <1>4, <1>5, <1>6 DEF Save

LEMMA NextTail == ASSUME TypeOK, TailInv, [Next]_vars PROVE TailInv'
<1>1. CASE LoadConfig
  BY <1>1 DEF TailInv, TailFree, LoadConfig
<1>2. CASE LoadConfigFails
  BY <1>2 DEF TailInv, TailFree, LoadConfigFails
<1>3. CASE Scan
  BY <1>3, ScanTail
<1>4. CASE Save
  BY <1>4, SaveTail
<1>5. CASE Crash
  BY <1>5 DEF TailInv, TailFree, Crash
<1>6. CASE UNCHANGED vars
  BY <1>6 DEF TailInv, TailFree, FreeFrom, vars, ram
<1>7. QED BY <1>1, <1>2, <1>3, <1>4, <1>5, <1>6 DEF Next

(* No save of a regular log ever programs over data, wherever power losses,  *)
(* torn words and write errors fall (setup_data.cpp:56-61, 124-130).         *)
THEOREM TailIsFree == Spec => []TailFree
<1>1. Init => TailInv
  BY DEF Init, TailInv, TailFree
<1>2. TypeOK /\ TypeOK' /\ TailInv /\ [Next]_vars => TailInv'
  BY NextTail
<1>3. TailInv => TailFree
  BY DEF TailInv
<1>4. QED BY <1>1, <1>2, <1>3, TypeCorrect, PTL DEF Spec

---------------------------------------------------------------------------
(* The active configuration.  RAM starts without one.                        *)

ActiveInv == ActiveIsRecord /\ (pc = "off" => config = -1)

LEMMA NextActive == ASSUME TypeOK, ActiveInv, [Next]_vars PROVE ActiveInv'
<1> USE DEF ActiveInv, ActiveIsRecord, ValidAt
<1>1. CASE LoadConfig
  BY <1>1 DEF LoadConfig
<1>2. CASE LoadConfigFails
  BY <1>2 DEF LoadConfigFails
<1>3. CASE Scan
  <2>1. /\ cfgFull' = cfgFull /\ pc' # "off"
    BY <1>3 DEF Scan, ScanFree, ScanAborted, ScanOutOfPartition, ScanRecord, ScanEnd,
                ScanUnchanged, InScan
  <2>2. CASE ScanRecord
    BY <2>1, <2>2 DEF ScanRecord, Accept
  <2>3. CASE ~ScanRecord
    BY <1>3, <2>1, <2>3 DEF Scan, ScanFree, ScanAborted, ScanOutOfPartition, ScanEnd
  <2>4. QED BY <2>2, <2>3
<1>4. CASE Save
  BY <1>4 DEF Save, SaveConfigImage, SaveConfigFull, Erase, EraseFails, Program,
              ProgramFails, Return, ram
<1>5. CASE Crash
  BY <1>5 DEF Crash
<1>6. CASE UNCHANGED vars
  BY <1>6 DEF vars, ram
<1>7. QED BY <1>1, <1>2, <1>3, <1>4, <1>5, <1>6 DEF Next

(* Whatever the partition holds, what load_config leaves in config is a      *)
(* record with a right CRC that lies inside cfg_full (setup_data.cpp:75-90). *)
THEOREM ActiveCorrect == Spec => []ActiveIsRecord
<1>1. Init => ActiveInv
  BY DEF Init, ActiveInv, ActiveIsRecord
<1>2. TypeOK /\ ActiveInv /\ [Next]_vars => ActiveInv'
  BY NextActive
<1>3. ActiveInv => ActiveIsRecord
  BY DEF ActiveInv
<1>4. QED BY <1>1, <1>2, <1>3, TypeCorrect, PTL DEF Spec

---------------------------------------------------------------------------
(* A saved record survives and is found again.                               *)

(* Where the scan of partition f goes on from s, a turn that is not its last. *)
StepFrom(f, s) ==
    IF SizeField[f[s + 1]] = 0 THEN s + 2 ELSE s + SizeField[f[s + 1]]

(* S holds the places the scan of f passes on its way from 0 to e.           *)
Chain(f, S, e) ==
    /\ S \subseteq 0 .. e /\ 0 \in S /\ e \in S
    /\ \A s \in S \ {e} : f[s] # Erased /\ StepFrom(f, s) \in S

(* A way that depends on no word from e on.                                  *)
Solid(f, S, e) == Chain(f, S, e) /\ e - 1 \notin S

Reached(f, e) == \E S \in SUBSET Nat : Chain(f, S, e)
Settled(f, e) == \E S \in SUBSET Nat : Solid(f, S, e)

(* A record of a save is at o; its size field says where it ends.            *)
SavedAt(f, o) ==
    \E r \in Records : /\ Words(r) >= MinWords /\ o + Words(r) <= PartWords
                       /\ \A i \in DOMAIN r : f[o + i] = r[i]
EndOf(f, o) == o + SizeField[f[o + 1]]

(* The record of the last successful save, and a way to it.                  *)
NewestSettled ==
    (regular /\ newest >= 0) => SavedAt(flash, newest) /\ Settled(flash, newest)

(* The scan is on its way to that record, or has taken it or a later one.    *)
ScanOnTheWay ==
    (regular /\ pc = "scan") =>
      /\ ptr < PartWords => Reached(flash, ptr)
      /\ (newest >= 0 /\ ptr <= newest) =>
           \E S \in SUBSET Nat : Solid(flash, S, newest) /\ ptr \in S
      /\ (newest >= 0 /\ ptr > newest) =>
           config >= newest /\ ptr >= EndOf(flash, newest)

(* Where the next record goes can be reached, and is behind the last one.    *)
Usable == pc \in {"ready", "erase", "program"} /\ cfgPat /\ next >= 0
          /\ ~(pc = "erase" /\ job = "image")
NextSettled ==
    (regular /\ Usable) =>
      /\ Settled(flash, next)
      /\ newest >= 0 => next >= EndOf(flash, newest)

(* What is already programmed of a record is what was to be programmed.      *)
PartWritten ==
    (regular /\ pc = "program") => \A i \in 0 .. done - 1 : flash[next + i] = img[i]

SaveIsAllowed ==
    /\ pc \in {"erase", "program"} => cfgPat
    /\ job = "image" => Words(img) >= MinWords

ChainInv ==
    NewestSettled /\ ScanOnTheWay /\ NextSettled /\ PartWritten /\ SaveIsAllowed

---------------------------------------------------------------------------
(* Ways through the partition.                                               *)

LEMMA StartSettled == ASSUME NEW f PROVE Solid(f, {0}, 0)
BY DEF Solid, Chain

(* What is written from the end of a way on does not change it.              *)
LEMMA SolidFrame ==
    ASSUME NEW f, NEW g, NEW e \in Nat, NEW S \in SUBSET Nat,
           Solid(f, S, e), \A i \in 0 .. e - 1 : g[i] = f[i]
    PROVE  Solid(g, S, e)
<1>1. ASSUME NEW s \in S \ {e} PROVE g[s] # Erased /\ StepFrom(g, s) \in S
  <2>1. s \in 0 .. e /\ s # e /\ s # e - 1
    BY <1>1 DEF Solid, Chain
  <2>2. s \in 0 .. e - 1 /\ s + 1 \in 0 .. e - 1
    BY <2>1
  <2>3. g[s] = f[s] /\ g[s + 1] = f[s + 1]
    BY <2>2
  <2>4. f[s] # Erased /\ StepFrom(f, s) \in S
    BY <1>1 DEF Solid, Chain
  <2>5. QED BY <2>3, <2>4 DEF StepFrom
<1>2. QED BY <1>1 DEF Solid, Chain

(* One turn more.                                                            *)
LEMMA ChainStep ==
    ASSUME NEW f, NEW p \in Nat, NEW q \in Nat, NEW S \in SUBSET Nat,
           Chain(f, S, p), f[p] # Erased, q = StepFrom(f, p), p < q
    PROVE  Chain(f, S \union {q}, q)
<1>1. S \subseteq 0 .. p /\ 0 \in S /\ p \in S
  BY DEF Chain
<1>2. S \union {q} \subseteq 0 .. q
  <2>1. ASSUME NEW s \in S \union {q} PROVE s \in 0 .. q
    <3>1. CASE s = q
      BY <3>1
    <3>2. CASE s \in 0 .. p
      BY <3>2
    <3>3. QED BY <1>1, <3>1, <3>2
  <2>2. QED BY <2>1
<1>3. ASSUME NEW s \in (S \union {q}) \ {q}
      PROVE  f[s] # Erased /\ StepFrom(f, s) \in S \union {q}
  BY <1>3 DEF Chain
<1>4. QED BY <1>1, <1>2, <1>3 DEF Chain

(* A way that ends at an erased word does not depend on it.                  *)
LEMMA ErasedEnd ==
    ASSUME NEW f, NEW e \in Nat, NEW S \in SUBSET Nat,
           Chain(f, S, e), f[e] = Erased
    PROVE  Solid(f, S, e)
<1>1. ASSUME e - 1 \in S PROVE FALSE
  <2>1. StepFrom(f, e - 1) \in S
    BY <1>1 DEF Chain
  <2>2. f[(e - 1) + 1] = Erased
    OBVIOUS
  <2>3. StepFrom(f, e - 1) = e + 1
    BY <2>2, WordAssumption DEF StepFrom
  <2>4. QED BY <2>1, <2>3 DEF Chain
<1>2. QED BY <1>1 DEF Solid

---------------------------------------------------------------------------
(* Saved records.                                                            *)

LEMMA SavedFacts ==
    ASSUME NEW f, NEW o \in Nat, SavedAt(f, o)
    PROVE  /\ f[o] # Erased
           /\ EndOf(f, o) \in o + 2 .. PartWords
           /\ SizeField[f[o + 1]] = EndOf(f, o) - o
           /\ StepFrom(f, o) = EndOf(f, o)
           /\ ValidAt(f, o, SizeField[f[o + 1]])
<1>1. PICK r \in Records : /\ Words(r) >= MinWords /\ o + Words(r) <= PartWords
                           /\ \A i \in DOMAIN r : f[o + i] = r[i]
  BY DEF SavedAt
<1>2. /\ Words(r) \in 1 .. PartWords /\ DOMAIN r = 0 .. Words(r) - 1
      /\ r[0] # Erased /\ Words(r) >= 2
  BY <1>1, RecordFacts, SizeAssumption
<1>3. f[o] = r[0] /\ f[o + 1] = r[1]
  <2>1. 0 \in DOMAIN r /\ 1 \in DOMAIN r
    BY <1>2
  <2>2. f[o + 0] = r[0] /\ f[o + 1] = r[1]
    BY <1>1, <2>1
  <2>3. QED BY <2>2
<1>4. SizeField[f[o + 1]] = Words(r)
  BY <1>2, <1>3, RecordAssumption
<1>5. ValidAt(f, o, Words(r))
  BY <1>1, <1>2 DEF ValidAt
<1>6. QED BY <1>1, <1>2, <1>3, <1>4, <1>5, SizeAssumption DEF EndOf, StepFrom

LEMMA SavedFrame ==
    ASSUME NEW f, NEW g, NEW o \in Nat, SavedAt(f, o),
           \A i \in 0 .. EndOf(f, o) - 1 : g[i] = f[i]
    PROVE  SavedAt(g, o) /\ EndOf(g, o) = EndOf(f, o)
<1>1. PICK r \in Records : /\ Words(r) >= MinWords /\ o + Words(r) <= PartWords
                           /\ \A i \in DOMAIN r : f[o + i] = r[i]
  BY DEF SavedAt
<1>2. /\ Words(r) \in 1 .. PartWords /\ DOMAIN r = 0 .. Words(r) - 1
      /\ Words(r) >= 2
  BY <1>1, RecordFacts, SizeAssumption
<1>3. EndOf(f, o) = o + Words(r)
  <2>1. 1 \in DOMAIN r
    BY <1>2
  <2>2. f[o + 1] = r[1]
    BY <1>1, <2>1
  <2>3. QED BY <1>2, <2>2, RecordAssumption DEF EndOf
<1>4. \A i \in DOMAIN r : g[o + i] = r[i]
  <2>1. TAKE i \in DOMAIN r
  <2>2. o + i \in 0 .. EndOf(f, o) - 1
    BY <1>2, <1>3
  <2>3. QED BY <1>1, <2>2
<1>5. g[o + 1] = f[o + 1]
  BY <1>2, <1>3
<1>6. QED BY <1>1, <1>4, <1>5 DEF SavedAt, EndOf

---------------------------------------------------------------------------
(* The scan.                                                                 *)

(* A turn at ptr, when the size field is inside the partition.               *)
LEMMA TurnFacts ==
    ASSUME TypeOK, cfgFull = flash, InScan, ptr + 1 < PartWords,
           ScanAborted \/ ScanRecord
    PROVE  /\ flash[ptr] # Erased /\ ptr' = StepFrom(flash, ptr) /\ ptr < ptr'
           /\ config' \in {config, ptr}
<1>1. /\ SizeAtPtr = {SizeField[flash[ptr + 1]]}
      /\ SizeField[flash[ptr + 1]] \in 0 .. PartWords
  <2>1. ptr + 1 \in Offset
    BY SizeAssumption DEF TypeOK, Offset
  <2>2. flash[ptr + 1] \in Word
    BY <2>1 DEF TypeOK
  <2>3. QED BY <2>2, WordAssumption DEF SizeAtPtr
<1>2. CASE ScanAborted
  BY <1>1, <1>2 DEF ScanAborted, AbortedEnd, StepFrom, TypeOK
<1>3. CASE ScanRecord
  BY <1>1, <1>3, SizeAssumption DEF ScanRecord, StepFrom, TypeOK
<1>4. QED BY <1>2, <1>3

(* Until it has passed the newest record the scan cannot end, and goes on to *)
(* that record or takes it.                                                  *)
LEMMA BeforeNewest ==
    ASSUME TypeOK, cfgFull = flash, NewestSettled, ScanOnTheWay, regular, InScan,
           newest >= 0, ptr <= newest
    PROVE  /\ flash[ptr] # Erased /\ ptr + 1 < PartWords
           /\ StepFrom(flash, ptr) <= PartWords
           /\ StepFrom(flash, ptr) <= newest =>
                \E S \in SUBSET Nat : Solid(flash, S, newest) /\ StepFrom(flash, ptr) \in S
           /\ StepFrom(flash, ptr) > newest =>
                /\ ptr = newest /\ StepFrom(flash, ptr) = EndOf(flash, newest)
                /\ SizeField[flash[ptr + 1]] # 0
                /\ ValidAt(flash, ptr, SizeField[flash[ptr + 1]])
<1>1. newest \in Nat /\ ptr \in Nat
  BY DEF TypeOK
<1>2. SavedAt(flash, newest)
  BY DEF NewestSettled
<1>3. PICK S \in SUBSET Nat : Solid(flash, S, newest) /\ ptr \in S
  BY DEF ScanOnTheWay, InScan
<1>4. EndOf(flash, newest) \in newest + 2 .. PartWords
  BY <1>1, <1>2, SavedFacts
<1>5. CASE ptr = newest
  <2>1. /\ flash[ptr] # Erased /\ StepFrom(flash, ptr) = EndOf(flash, newest)
        /\ SizeField[flash[ptr + 1]] = EndOf(flash, newest) - newest
        /\ ValidAt(flash, ptr, SizeField[flash[ptr + 1]])
    BY <1>1, <1>2, <1>5, SavedFacts
  <2>2. QED BY <1>1, <1>4, <1>5, <2>1, SizeAssumption
<1>6. CASE ptr # newest
  <2>1. flash[ptr] # Erased /\ StepFrom(flash, ptr) \in S
    BY <1>3, <1>6 DEF Solid, Chain
  <2>2. StepFrom(flash, ptr) \in 0 .. newest
    BY <1>3, <2>1 DEF Solid, Chain
  <2>3. QED BY <1>1, <1>3, <1>4, <1>6, <2>1, <2>2, SizeAssumption
<1>7. QED BY <1>5, <1>6

LEMMA TurnOnTheWay ==
    ASSUME TypeOK, TypeOK', cfgFull = flash, NewestSettled, ScanOnTheWay,
           ScanAborted \/ ScanRecord
    PROVE  ScanOnTheWay'
<1>1. /\ InScan /\ flash' = flash /\ newest' = newest
      /\ pc' = "scan" /\ regular' = regular
  BY DEF ScanAborted, ScanRecord, ScanUnchanged, InScan
<1> SUFFICES ASSUME regular PROVE ScanOnTheWay'
  BY <1>1 DEF ScanOnTheWay
<1>2. /\ ptr \in Nat /\ ptr < PartWords /\ PartWords \in Nat /\ ptr' \in Nat
      /\ newest \in Int /\ config \in Int /\ config' \in Int
  BY <1>1, SizeAssumption DEF InScan, TypeOK
<1>3. ptr < ptr' /\ config' \in {config, ptr}
  <2>1. SizeAtPtr \subseteq 0 .. PartWords
    <3>1. ASSUME ptr + 1 < PartWords PROVE SizeField[cfgFull[ptr + 1]] \in 0 .. PartWords
      <4>1. ptr + 1 \in Offset
        BY <1>2, <3>1 DEF Offset
      <4>2. QED BY <4>1, WordAssumption DEF TypeOK
    <3>2. QED BY <3>1 DEF SizeAtPtr
  <2>2. CASE ScanAborted
    BY <1>2, <2>2 DEF ScanAborted, AbortedEnd
  <2>3. CASE ScanRecord
    BY <1>2, <2>1, <2>3 DEF ScanRecord
  <2>4. QED BY <2>2, <2>3
<1>4. ptr' < PartWords => Reached(flash, ptr')
  <2>1. SUFFICES ASSUME ptr' < PartWords PROVE Reached(flash, ptr')
    OBVIOUS
  <2>2. ptr + 1 < PartWords
    BY <1>2, <1>3, <2>1
  <2>3. flash[ptr] # Erased /\ ptr' = StepFrom(flash, ptr)
    BY <1>1, <2>2, TurnFacts
  <2>4. PICK S \in SUBSET Nat : Chain(flash, S, ptr)
    BY <1>1, <1>2 DEF ScanOnTheWay, Reached, InScan
  <2>5. Chain(flash, S \union {ptr'}, ptr')
    BY <1>2, <1>3, <2>3, <2>4, ChainStep
  <2>6. QED BY <1>2, <2>5 DEF Reached
<1>5. (newest >= 0 /\ ptr' <= newest) =>
        \E S \in SUBSET Nat : Solid(flash, S, newest) /\ ptr' \in S
  <2>1. SUFFICES ASSUME newest >= 0, ptr' <= newest
        PROVE \E S \in SUBSET Nat : Solid(flash, S, newest) /\ ptr' \in S
    OBVIOUS
  <2>2. ptr <= newest
    BY <1>2, <1>3, <2>1
  <2>3. ptr' = StepFrom(flash, ptr)
    BY <1>1, <2>1, <2>2, BeforeNewest, TurnFacts
  <2>4. QED BY <1>1, <2>1, <2>2, <2>3, BeforeNewest
<1>6. (newest >= 0 /\ ptr' > newest) => config' >= newest /\ ptr' >= EndOf(flash, newest)
  <2>1. SUFFICES ASSUME newest >= 0, ptr' > newest
        PROVE config' >= newest /\ ptr' >= EndOf(flash, newest)
    OBVIOUS
  <2>2. EndOf(flash, newest) \in Int
    <3>1. SavedAt(flash, newest)
      BY <2>1 DEF NewestSettled
    <3>2. QED BY <1>2, <2>1, <3>1, SavedFacts
  <2>3. CASE ptr > newest
    <3>1. config >= newest /\ ptr >= EndOf(flash, newest)
      BY <1>1, <2>1, <2>3 DEF ScanOnTheWay, InScan
    <3>2. QED BY <1>2, <1>3, <2>2, <2>3, <3>1
  <2>4. CASE ptr <= newest
    <3>1. ptr + 1 < PartWords /\ ptr' = StepFrom(flash, ptr)
      BY <1>1, <2>1, <2>4, BeforeNewest, TurnFacts
    <3>2. /\ ptr = newest /\ ptr' = EndOf(flash, newest)
          /\ SizeField[flash[ptr + 1]] # 0
          /\ ValidAt(flash, ptr, SizeField[flash[ptr + 1]])
      BY <1>1, <2>1, <2>4, <3>1, BeforeNewest
    <3>3. SizeAtPtr = {SizeField[flash[ptr + 1]]}
      BY <3>1 DEF SizeAtPtr
    <3>4. ScanRecord
      BY <3>2, <3>3 DEF ScanAborted
    <3>5. SizeField[flash[ptr + 1]] \in 1 .. PartWords
      <4>1. ptr + 1 \in Offset
        BY <1>2, <3>1 DEF Offset
      <4>2. SizeField[flash[ptr + 1]] \in 0 .. PartWords
        BY <4>1, WordAssumption DEF TypeOK
      <4>3. QED BY <1>2, <3>2, <4>2
    <3>6. Accept(SizeField[flash[ptr + 1]])
      BY <1>2, <3>2, <3>5 DEF Accept, TooSmall
    <3>7. config' = ptr
      BY <3>3, <3>4, <3>6 DEF ScanRecord
    <3>8. QED BY <1>2, <2>2, <3>2, <3>7
  <2>5. QED BY <1>2, <2>3, <2>4
<1>7. QED BY <1>1, <1>4, <1>5, <1>6 DEF ScanOnTheWay

(* A regular scan ends only behind the newest record, having taken it or a   *)
(* later one.                                                                *)
LEMMA EndsBehind ==
    ASSUME TypeOK, cfgFull = flash, NewestSettled, ScanOnTheWay, regular,
           ScanFree \/ ScanOutOfPartition \/ ScanEnd, newest >= 0
    PROVE  config' = config /\ config >= newest /\ ptr >= EndOf(flash, newest)
<1>1. /\ ptr \in Nat /\ newest \in Nat /\ newest < PartWords
      /\ PartWords \in Nat
  BY SizeAssumption DEF TypeOK
<1>2. pc = "scan" /\ config' = config
  BY DEF ScanFree, ScanOutOfPartition, ScanEnd, InScan
<1>3. ASSUME ptr <= newest PROVE FALSE
  <2>1. InScan
    BY <1>1, <1>2, <1>3 DEF InScan
  <2>2. /\ flash[ptr] # Erased /\ ptr + 1 < PartWords
        /\ StepFrom(flash, ptr) <= PartWords
    BY <1>3, <2>1, BeforeNewest
  <2>3. CASE ScanFree
    BY <2>2, <2>3 DEF ScanFree
  <2>4. CASE ScanOutOfPartition
    <3>1. SizeAtPtr = {SizeField[flash[ptr + 1]]}
      BY <2>2 DEF SizeAtPtr
    <3>2. ptr + 1 \in Offset
      BY <1>1, <2>2 DEF Offset
    <3>3. SizeField[flash[ptr + 1]] \in 0 .. PartWords
      BY <3>2, WordAssumption DEF TypeOK
    <3>4. QED BY <1>1, <2>2, <2>4, <3>1, <3>3 DEF ScanOutOfPartition, StepFrom
  <2>5. CASE ScanEnd
    BY <1>1, <1>3, <2>5 DEF ScanEnd
  <2>6. QED BY <2>3, <2>4, <2>5
<1>4. ptr > newest
  BY <1>1, <1>3
<1>5. QED BY <1>2, <1>4 DEF ScanOnTheWay

LEMMA ScanChain ==
    ASSUME TypeOK, TypeOK', TailInv, ChainInv, Scan PROVE ChainInv'
<1>1. pc = "scan" /\ cfgFull = flash
  BY DEF Scan, ScanFree, ScanAborted, ScanOutOfPartition, ScanRecord, ScanEnd,
         InScan, TailInv
<1>2. /\ flash' = flash /\ newest' = newest /\ cfgPat' = cfgPat /\ job' = job
      /\ img' = img /\ regular' \in {regular, FALSE} /\ pc' \in {"scan", "ready"}
  BY <1>1 DEF Scan, ScanFree, ScanAborted, ScanOutOfPartition, ScanRecord, ScanEnd,
         ScanUnchanged, TypeOK
<1>3. NewestSettled' /\ PartWritten' /\ SaveIsAllowed'
  <2>1. NewestSettled'
    BY <1>2 DEF ChainInv, NewestSettled
  <2>2. PartWritten'
    BY <1>2 DEF PartWritten
  <2>3. job = "none"
    BY <1>1 DEF TypeOK
  <2>4. SaveIsAllowed'
    BY <1>2, <2>3 DEF SaveIsAllowed
  <2>5. QED BY <2>1, <2>2, <2>4
<1>4. CASE ScanFree
  <2>1. /\ InScan /\ pc' = "ready" /\ regular' = regular /\ flash[ptr] = Erased
        /\ next' >= 0 => next' = ptr
    BY <1>1, <1>4 DEF ScanFree
  <2>2. ASSUME regular, next' >= 0
        PROVE  /\ Settled(flash, ptr)
               /\ newest >= 0 => ptr >= EndOf(flash, newest)
    <3>1. ptr \in Nat
      BY DEF TypeOK
    <3>2. PICK S \in SUBSET Nat : Chain(flash, S, ptr)
      BY <2>1, <2>2 DEF ChainInv, ScanOnTheWay, Reached, InScan
    <3>3. Solid(flash, S, ptr)
      BY <2>1, <3>1, <3>2, ErasedEnd
    <3>4. newest >= 0 => ptr >= EndOf(flash, newest)
      BY <1>1, <1>4, <2>2, EndsBehind DEF ChainInv
    <3>5. QED BY <3>3, <3>4 DEF Settled
  <2>3. NextSettled'
    BY <1>2, <2>1, <2>2 DEF NextSettled, Usable
  <2>4. QED BY <1>3, <2>1, <2>3 DEF ChainInv, ScanOnTheWay
<1>5. CASE ScanAborted \/ ScanRecord
  <2>1. pc' = "scan"
    BY <1>1, <1>5 DEF ScanAborted, ScanRecord
  <2>2. ScanOnTheWay'
    BY <1>1, <1>5, TurnOnTheWay DEF ChainInv
  <2>3. QED BY <1>3, <2>1, <2>2 DEF ChainInv, NextSettled, Usable
<1>6. CASE ScanOutOfPartition \/ ScanEnd
  BY <1>3, <1>6 DEF ScanOutOfPartition, ScanEnd, ChainInv, ScanOnTheWay, NextSettled
<1>7. QED BY <1>4, <1>5, <1>6 DEF Scan

---------------------------------------------------------------------------
(* Saving.                                                                   *)

(* What a record's programming changes is behind every way and every record. *)
LEMMA WriteFrame ==
    ASSUME TypeOK, ChainInv, regular, pc = "program",
           NEW g, \A i \in 0 .. next - 1 : g[i] = flash[i]
    PROVE  /\ Settled(g, next)
           /\ newest >= 0 => /\ SavedAt(g, newest) /\ Settled(g, newest)
                             /\ EndOf(g, newest) = EndOf(flash, newest)
                             /\ next >= EndOf(flash, newest)
<1>1. next \in Nat /\ PartWords \in Nat
  BY SizeAssumption DEF TypeOK
<1>2. /\ Settled(flash, next)
      /\ newest >= 0 => next >= EndOf(flash, newest)
  BY DEF ChainInv, NextSettled, Usable, SaveIsAllowed, TypeOK
<1>3. Settled(g, next)
  BY <1>1, <1>2, SolidFrame DEF Settled
<1>4. ASSUME newest >= 0
      PROVE  /\ SavedAt(g, newest) /\ Settled(g, newest)
             /\ EndOf(g, newest) = EndOf(flash, newest)
  <2>1. newest \in Nat
    BY <1>4 DEF TypeOK
  <2>2. SavedAt(flash, newest) /\ Settled(flash, newest)
    BY <1>4 DEF ChainInv, NewestSettled
  <2>3. EndOf(flash, newest) \in newest + 2 .. PartWords
    BY <2>1, <2>2, SavedFacts
  <2>4. \A i \in 0 .. EndOf(flash, newest) - 1 : g[i] = flash[i]
    BY <1>1, <1>2, <1>4, <2>3
  <2>5. \A i \in 0 .. newest - 1 : g[i] = flash[i]
    BY <2>1, <2>3, <2>4
  <2>6. SavedAt(g, newest) /\ EndOf(g, newest) = EndOf(flash, newest)
    BY <2>1, <2>2, <2>4, SavedFrame
  <2>7. Settled(g, newest)
    BY <2>1, <2>2, <2>5, SolidFrame DEF Settled
  <2>8. QED BY <2>6, <2>7
<1>5. QED BY <1>2, <1>3, <1>4

LEMMA TornBehind ==
    ASSUME TypeOK, ChainInv, pc = "program", TearWord
    PROVE  (regular /\ newest >= 0) => SavedAt(flash', newest) /\ Settled(flash', newest)
<1>1. PICK w : flash' = [flash EXCEPT ![next + done] = w]
  BY DEF TearWord
<1>2. next \in Nat /\ done \in Nat /\ next + done < PartWords /\ PartWords \in Nat
  <2>1. job # "none"
    BY DEF TypeOK
  <2>2. QED BY <2>1, ImageFacts, SizeAssumption DEF TypeOK
<1>3. \A i \in 0 .. next - 1 : flash'[i] = flash[i]
  <2>1. \A i \in 0 .. next - 1 : i \in Offset /\ i # next + done
    BY <1>2 DEF Offset
  <2>2. QED BY <1>1, <2>1 DEF TypeOK
<1>4. QED BY <1>3, WriteFrame

LEMMA ProgramChain ==
    ASSUME TypeOK, TypeOK', TailInv, ChainInv, Program PROVE ChainInv'
<1>1. /\ pc = "program" /\ regular' = regular /\ cfgPat' = cfgPat
      /\ flash' = [flash EXCEPT ![next + done] = Mix[@][img[done]]]
  BY DEF Program, ram
<1>2. /\ next \in Nat /\ done \in Nat /\ PartWords \in Nat
      /\ done < Words(img) /\ next + Words(img) <= PartWords
      /\ Words(img) \in 1 .. PartWords /\ DOMAIN img = 0 .. Words(img) - 1
      /\ img[done] \in Word
  <2>1. job # "none"
    BY <1>1 DEF TypeOK
  <2>2. QED BY <1>1, <2>1, ImageFacts, SizeAssumption DEF TypeOK
<1>3. SaveIsAllowed'
  BY <1>1 DEF ChainInv, SaveIsAllowed, Program, Return
<1>4. pc' \in {"program", "ready"}
  BY <1>1 DEF Program, Return
<1>5. CASE ~regular
  BY <1>1, <1>3, <1>5 DEF ChainInv, NewestSettled, ScanOnTheWay, NextSettled, PartWritten
<1>6. CASE regular
  <2>1. job = "image" /\ FreeFrom(flash, next + done)
    BY <1>1, <1>6 DEF TailInv, TailFree, TypeOK
  <2>2. next + done \in Offset
    BY <1>2 DEF Offset
  <2>3. flash'[next + done] = img[done]
    <3>1. flash[next + done] = Erased
      BY <1>2, <2>1, <2>2 DEF FreeFrom
    <3>2. Mix[Erased][img[done]] = img[done]
      BY <1>2, MixAssumption, WordAssumption
    <3>3. flash \in [Offset -> Word]
      BY DEF TypeOK
    <3>4. QED BY <1>1, <2>2, <3>1, <3>2, <3>3
  <2>4. \A i \in 0 .. next + done - 1 : flash'[i] = flash[i]
    <3>1. \A i \in 0 .. next + done - 1 : i \in Offset /\ i # next + done
      BY <1>2 DEF Offset
    <3>2. flash \in [Offset -> Word]
      BY DEF TypeOK
    <3>3. QED BY <1>1, <3>1, <3>2
  <2>5. \A i \in 0 .. done : flash'[next + i] = img[i]
    <3>1. TAKE i \in 0 .. done
    <3>2. CASE i = done
      BY <2>3, <3>2
    <3>3. CASE i < done
      <4>1. flash[next + i] = img[i]
        BY <1>1, <1>2, <1>6, <3>3 DEF ChainInv, PartWritten
      <4>2. next + i \in 0 .. next + done - 1
        BY <1>2, <3>3
      <4>3. QED BY <2>4, <4>1, <4>2
    <3>4. QED BY <1>2, <3>2, <3>3
  <2>6. /\ Settled(flash', next)
        /\ newest >= 0 => /\ SavedAt(flash', newest) /\ Settled(flash', newest)
                          /\ EndOf(flash', newest) = EndOf(flash, newest)
                          /\ next >= EndOf(flash, newest)
    <3>1. \A i \in 0 .. next - 1 : flash'[i] = flash[i]
      BY <1>2, <2>4
    <3>2. QED BY <1>1, <1>6, <3>1, WriteFrame
  <2>7. CASE done + 1 < Words(img)
    <3>1. /\ done' = done + 1 /\ next' = next /\ pc' = "program" /\ job' = job
          /\ img' = img /\ newest' = newest
      BY <1>1, <2>7 DEF Program
    <3>2. PartWritten'
      <4>1. 0 .. done' - 1 = 0 .. done
        BY <1>2, <3>1
      <4>2. QED BY <2>5, <3>1, <4>1 DEF PartWritten
    <3>3. NewestSettled' /\ NextSettled' /\ ScanOnTheWay'
      BY <2>6, <3>1 DEF NewestSettled, NextSettled, ScanOnTheWay
    <3>4. QED BY <1>3, <3>2, <3>3 DEF ChainInv
  <2>8. CASE ~(done + 1 < Words(img))
    <3>1. Words(img) = done + 1
      BY <1>2, <2>8
    <3>2. pc' = "ready" /\ next' = next + Words(img) /\ newest' = next
      BY <2>1, <2>8 DEF Program, Return, SavedNext
    <3>3. img \in Records /\ Words(img) >= MinWords /\ Words(img) >= 2
      <4>1. img \in Records /\ Words(img) >= MinWords
        BY <2>1, <1>2 DEF TypeOK, ChainInv, SaveIsAllowed
      <4>2. QED BY <1>2, <4>1, SizeAssumption
    <3>4. SavedAt(flash', next)
      <4>1. \A i \in DOMAIN img : flash'[next + i] = img[i]
        BY <1>2, <2>5, <3>1
      <4>2. QED BY <1>2, <3>3, <4>1 DEF SavedAt
    <3>5. EndOf(flash', next) = next + Words(img)
      <4>1. 1 \in 0 .. done
        BY <1>2, <3>1, <3>3
      <4>2. flash'[next + 1] = img[1]
        BY <2>5, <4>1
      <4>3. QED BY <1>2, <3>3, <4>2, RecordAssumption DEF EndOf
    <3>6. Settled(flash', next + Words(img))
      <4> DEFINE q == next + Words(img)
      <4>1. PICK S \in SUBSET Nat : Solid(flash', S, next)
        BY <2>6 DEF Settled
      <4>2. flash'[next] # Erased /\ StepFrom(flash', next) = q
        BY <1>2, <3>4, <3>5, SavedFacts
      <4>3. q \in Nat /\ next < q /\ next < q - 1
        BY <1>2, <3>3
      <4>4. Chain(flash', S, next) /\ S \subseteq 0 .. next
        BY <4>1 DEF Solid, Chain
      <4>5. q - 1 \notin S \union {q}
        <5>1. q - 1 # q
          BY <4>3
        <5>2. q - 1 \notin 0 .. next
          BY <1>2, <4>3
        <5>3. QED BY <4>4, <5>1, <5>2
      <4> HIDE DEF q
      <4>6. Chain(flash', S \union {q}, q)
        BY <1>2, <4>2, <4>3, <4>4, ChainStep
      <4>7. Solid(flash', S \union {q}, q) /\ S \union {q} \in SUBSET Nat
        BY <4>3, <4>5, <4>6 DEF Solid
      <4>8. Settled(flash', q)
        BY <4>7 DEF Settled
      <4>9. QED BY <4>8 DEF q
    <3>7. NewestSettled' /\ NextSettled'
      <4>1. next + Words(img) >= next + Words(img)
        BY <1>2
      <4>2. QED BY <2>6, <3>2, <3>4, <3>5, <3>6, <4>1 DEF NewestSettled, NextSettled
    <3>8. QED BY <1>3, <3>2, <3>7 DEF ChainInv, ScanOnTheWay, PartWritten
  <2>9. QED BY <2>7, <2>8
<1>7. QED BY <1>5, <1>6

LEMMA SaveChain ==
    ASSUME TypeOK, TypeOK', TailInv, ChainInv, Save PROVE ChainInv'
<1>1. ASSUME NEW r \in Records, SaveConfigImage(r) PROVE ChainInv'
  <2>1. /\ pc = "ready" /\ cfgPat /\ cfgPat' = cfgPat /\ flash' = flash
        /\ regular' = regular /\ newest' = newest /\ done' = 0
        /\ job' = "image" /\ img' = r /\ Words(r) >= MinWords
    BY <1>1 DEF SaveConfigImage, ram
  <2>2. SaveIsAllowed'
    BY <2>1 DEF SaveIsAllowed
  <2>3. NewestSettled'
    BY <2>1 DEF ChainInv, NewestSettled
  <2>4. pc' = "erase" \/ (pc' = "program" /\ next' = next)
    BY <1>1 DEF SaveConfigImage
  <2>5. NextSettled'
    BY <2>1, <2>4 DEF ChainInv, NextSettled, Usable
  <2>6. PartWritten'
    BY <2>1 DEF PartWritten
  <2>7. QED BY <2>2, <2>3, <2>4, <2>5, <2>6 DEF ChainInv, ScanOnTheWay
<1>2. ASSUME NEW f \in Fulls, SaveConfigFull(f) PROVE ChainInv'
  <2>1. /\ pc = "ready" /\ cfgPat /\ cfgPat' = cfgPat /\ flash' = flash
        /\ regular' = regular /\ newest' = newest /\ next' = next
        /\ job' = "full" /\ pc' = "erase"
    BY <1>2 DEF SaveConfigFull, ram
  <2>2. NewestSettled' /\ NextSettled'
    BY <2>1 DEF ChainInv, NewestSettled, NextSettled, Usable
  <2>3. QED BY <2>1, <2>2 DEF ChainInv, SaveIsAllowed, ScanOnTheWay, PartWritten
<1>3. CASE Erase
  <2>1. /\ pc = "erase" /\ pc' = "program" /\ next' = 0 /\ newest' = -1
        /\ done' = 0 /\ cfgPat' = cfgPat /\ job' = job /\ img' = img
    BY <1>3 DEF Erase, TypeOK, ram
  <2>2. Settled(flash', 0)
    <3>1. Solid(flash', {0}, 0) /\ {0} \in SUBSET Nat
      BY StartSettled
    <3>2. QED BY <3>1 DEF Settled
  <2>3. NextSettled'
    BY <2>1, <2>2 DEF NextSettled
  <2>4. SaveIsAllowed'
    BY <2>1 DEF ChainInv, SaveIsAllowed
  <2>5. NewestSettled' /\ PartWritten'
    BY <2>1 DEF NewestSettled, PartWritten
  <2>6. QED BY <2>1, <2>3, <2>4, <2>5 DEF ChainInv, ScanOnTheWay
<1>4. CASE EraseFails
  <2>1. /\ pc = "erase" /\ pc' = "ready" /\ flash' = flash /\ next' = next
        /\ newest' = newest /\ cfgPat' = cfgPat /\ job' = "none"
        /\ regular' = (regular /\ job = "full")
    BY <1>4 DEF EraseFails, Return, ram
  <2>2. NewestSettled' /\ NextSettled'
    BY <2>1 DEF ChainInv, NewestSettled, NextSettled, Usable
  <2>3. QED BY <2>1, <2>2 DEF ChainInv, SaveIsAllowed, ScanOnTheWay, PartWritten
<1>5. CASE Program
  BY <1>5, ProgramChain
<1>6. CASE ProgramFails
  <2>1. /\ pc = "program" /\ pc' = "ready" /\ job' = "none" /\ TearWord
        /\ newest' = newest /\ regular' = regular /\ next' = FailedNext
    BY <1>6 DEF ProgramFails, Return
  <2>2. NewestSettled'
    BY <2>1, TornBehind DEF NewestSettled
  <2>3. NextSettled'
    <3>1. regular => next' = -1
      BY <2>1 DEF FailedNext, TailInv
    <3>2. QED BY <2>1, <3>1 DEF NextSettled, Usable
  <2>4. QED BY <2>1, <2>2, <2>3 DEF ChainInv, SaveIsAllowed, ScanOnTheWay, PartWritten
<1>7. QED BY <1>1, <1>2, <1>3, <1>4, <1>5, <1>6 DEF Save

---------------------------------------------------------------------------
(* Every step, and the theorems.                                             *)

LEMMA NextChain ==
    ASSUME TypeOK, TypeOK', TailInv, ChainInv, [Next]_vars PROVE ChainInv'
<1>1. CASE LoadConfig
  <2>1. /\ pc = "off" /\ pc' = "scan" /\ ptr' = 0 /\ flash' = flash /\ job' = job
        /\ newest' = newest /\ regular' = regular
    BY <1>1 DEF LoadConfig
  <2>2. job = "none"
    BY <2>1 DEF TypeOK
  <2>3. NewestSettled'
    BY <2>1 DEF ChainInv, NewestSettled
  <2>4. Reached(flash', 0)
    <3>1. Chain(flash', {0}, 0) /\ {0} \in SUBSET Nat
      BY StartSettled DEF Solid
    <3>2. QED BY <3>1 DEF Reached
  <2>5. (regular /\ newest >= 0) =>
          \E S \in SUBSET Nat : Solid(flash', S, newest) /\ 0 \in S
    BY <2>1 DEF ChainInv, NewestSettled, Settled, Solid, Chain
  <2>6. newest >= 0 => ~(0 > newest)
    BY DEF TypeOK
  <2>7. ScanOnTheWay'
    BY <2>1, <2>4, <2>5, <2>6 DEF ScanOnTheWay
  <2>8. QED BY <2>1, <2>2, <2>3, <2>7
            DEF ChainInv, NextSettled, Usable, PartWritten, SaveIsAllowed
<1>2. CASE LoadConfigFails
  <2>1. /\ pc = "off" /\ pc' = "ready" /\ cfgPat' = FALSE /\ flash' = flash
        /\ job' = job /\ newest' = newest /\ regular' = regular
    BY <1>2 DEF LoadConfigFails
  <2>2. job = "none"
    BY <2>1 DEF TypeOK
  <2>3. NewestSettled'
    BY <2>1 DEF ChainInv, NewestSettled
  <2>4. QED BY <2>1, <2>2, <2>3
            DEF ChainInv, ScanOnTheWay, NextSettled, Usable, PartWritten, SaveIsAllowed
<1>3. CASE Scan
  BY <1>3, ScanChain
<1>4. CASE Save
  BY <1>4, SaveChain
<1>5. CASE Crash
  <2>1. /\ pc' = "off" /\ job' = "none" /\ newest' = newest /\ regular' = regular
        /\ IF pc = "program" THEN TearWord ELSE flash' = flash
    BY <1>5 DEF Crash
  <2>2. NewestSettled'
    BY <2>1, TornBehind DEF ChainInv, NewestSettled
  <2>3. QED BY <2>1, <2>2
            DEF ChainInv, ScanOnTheWay, NextSettled, Usable, PartWritten, SaveIsAllowed
<1>6. CASE UNCHANGED vars
  BY <1>6 DEF ChainInv, NewestSettled, ScanOnTheWay, NextSettled, Usable, PartWritten,
              SaveIsAllowed, vars, ram
<1>7. QED BY <1>1, <1>2, <1>3, <1>4, <1>5, <1>6 DEF Next

LEMMA ChainHolds == Spec => [](TypeOK /\ TailInv /\ ChainInv)
<1>1. Init => TailInv /\ ChainInv
  BY DEF Init, TailInv, TailFree, ChainInv, NewestSettled, ScanOnTheWay, NextSettled,
         Usable, PartWritten, SaveIsAllowed
<1>2. TypeOK /\ TypeOK' /\ TailInv /\ ChainInv /\ [Next]_vars => TailInv' /\ ChainInv'
  BY NextTail, NextChain
<1>3. QED BY <1>1, <1>2, TypeCorrect, PTL DEF Spec

(* In a regular log the record of the last successful save stays whole in    *)
(* flash through every save, failed save and power loss, until the partition *)
(* is erased (setup_data.cpp:49-92, 113-142).  Regular: since the last erase *)
(* no full image was written, no erase failed and every boot found the log's *)
(* end.  A torn word that makes a boot miss it ends the promise.             *)
THEOREM NewestStays == Spec => []NewestIntact
<1>1. TypeOK /\ ChainInv => NewestIntact
  BY DEF ChainInv, NewestSettled, SavedAt, NewestIntact, Whole
<1>2. QED BY <1>1, ChainHolds, PTL

(* Every boot of a regular log ends with that record or a later one          *)
(* (find_active_config, setup_data.cpp:49-92).                               *)
THEOREM BootFinds == Spec => BootFindsNewest
<1> DEFINE Found == (regular /\ pc = "scan" /\ pc' = "ready") => config' >= newest
<1>1. TypeOK /\ TypeOK' /\ TailInv /\ ChainInv /\ [Next]_vars => [Found]_vars
  <2>1. SUFFICES ASSUME TypeOK, TypeOK', TailInv, ChainInv, Next,
                        regular, pc = "scan", pc' = "ready"
                 PROVE  config' >= newest
    OBVIOUS
  <2>2. ScanFree \/ ScanOutOfPartition \/ ScanEnd
    BY <2>1 DEF Next, LoadConfig, LoadConfigFails, Crash, Save, SaveConfigImage,
                SaveConfigFull, Erase, EraseFails, Program, ProgramFails,
                Scan, ScanAborted, ScanRecord
  <2>3. cfgFull = flash
    BY <2>1 DEF TailInv
  <2>4. CASE newest >= 0
    BY <2>1, <2>2, <2>3, <2>4, EndsBehind DEF ChainInv
  <2>5. CASE ~(newest >= 0)
    BY <2>1, <2>5 DEF TypeOK
  <2>6. QED BY <2>4, <2>5
<1>2. QED BY <1>1, ChainHolds, PTL DEF Spec, BootFindsNewest
=============================================================================
