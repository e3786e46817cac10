----------------------- MODULE ConfigRefinement_proofs -----------------------
(* Proof that the configuration log implements the register, for every       *)
(* partition size, every set of records and every way words tear.            *)
EXTENDS ConfigRefinement, ConfigStore_proofs

(* The word at s starts a record of T, or was left by an interrupted write.  *)
Mark(f, s, T) == f[s] \in Junk \/ \E r \in T : f[s] = r[0]

(* Behind b, S holds no start of a record that is not one of T.              *)
Marked(f, S, b, T) ==
    \A s \in S : (s > b /\ s < PartWords /\ f[s] # Erased) => Mark(f, s, T)

(* S holds all the scan of f can pass.                                       *)
Closed(f, S) ==
    /\ 0 \in S
    /\ \A s \in S : (s + 1 < PartWords /\ f[s] # Erased) => StepFrom(f, s) \in S

(* Records the flash may hold behind the newest one.                         *)
InHand == IF pc = "program" /\ job = "image" THEN tried \union {img} ELSE tried

(* The next scan finds nothing behind the newest record but these.           *)
PathInv ==
    regular => \E S \in SUBSET Nat :
                 /\ Closed(flash, S) /\ Marked(flash, S, newest, InHand)
                 /\ (pc = "scan" /\ ptr < PartWords) => ptr \in S

(* Nor does the way to where the next record goes.                           *)
WayInv ==
    regular =>
      /\ (pc = "scan" /\ ptr < PartWords) =>
           \E C \in SUBSET Nat : /\ Chain(flash, C, ptr)
                                 /\ Marked(flash, C \ {ptr}, newest, tried)
      /\ Usable =>
           \E C \in SUBSET Nat : /\ Solid(flash, C, next)
                                 /\ Marked(flash, C \ {next}, newest, tried)

(* What the scan has taken so far.                                           *)
TakenInv ==
    (regular /\ pc = "scan" /\ config >= 0) =>
      /\ config > newest => RecordAt(cfgFull, config, cfgSize) \in tried
      /\ config = newest => cfgSize = SizeField[flash[newest + 1]]

MarkInv == PathInv /\ WayInv /\ TakenInv /\ (pc = "scan" => cfgPat)

---------------------------------------------------------------------------
(* Lemmas.                                                                   *)

LEMMA MarkedMore ==
    ASSUME NEW f, NEW S, NEW b, NEW T, NEW U, Marked(f, S, b, T), T \subseteq U
    PROVE  Marked(f, S, b, U)
BY DEF Marked, Mark

(* A record read from where it lies.                                         *)
LEMMA ReadBack ==
    ASSUME NEW r \in Records, NEW c, NEW o, \A i \in DOMAIN r : c[o + i] = r[i]
    PROVE  RecordAt(c, o, Words(r)) = r
<1>1. PICK n \in 1 .. PartWords : r \in [0 .. n - 1 -> Word] /\ Words(r) = n
  BY RecordAssumption
<1>2. QED BY <1>1 DEF RecordAt

LEMMA NotNone == NoImage \notin Records
<1>1. SUFFICES ASSUME NoImage \in Records PROVE FALSE
  OBVIOUS
<1>2. DOMAIN NoImage = 0 .. Words(NoImage) - 1 /\ Words(NoImage) \in 1 .. PartWords
  BY <1>1, RecordFacts
<1>3. DOMAIN NoImage = {}
  BY DEF NoImage
<1>4. 0 \in DOMAIN NoImage
  BY <1>2, SizeAssumption
<1>5. QED BY <1>3, <1>4

LEMMA SolidStep ==
    ASSUME NEW f, NEW p \in Nat, NEW q \in Nat, NEW S \in SUBSET Nat,
           Solid(f, S, p), f[p] # Erased, q = StepFrom(f, p), p < q - 1
    PROVE  Solid(f, S \union {q}, q)
<1>1. Chain(f, S, p) /\ S \subseteq 0 .. p
  BY DEF Solid, Chain
<1>2. p < q
  OBVIOUS
<1>3. Chain(f, S \union {q}, q)
  BY <1>1, <1>2, ChainStep
<1>4. q - 1 \notin S \union {q}
  <2>1. q - 1 # q
    OBVIOUS
  <2>2. q - 1 \notin 0 .. p
    OBVIOUS
  <2>3. QED BY <1>1, <2>1, <2>2
<1>5. QED BY <1>3, <1>4 DEF Solid

(* A step of programming the record img in a regular log.                    *)
LEMMA ProgramFacts ==
    ASSUME TypeOK, TailInv, ChainInv, regular, pc = "program"
    PROVE  /\ job = "image" /\ img \in Records /\ Words(img) \in 2 .. PartWords
           /\ next \in Nat /\ done \in 0 .. Words(img) - 1 /\ PartWords \in Nat
           /\ next + Words(img) <= PartWords
           /\ DOMAIN img = 0 .. Words(img) - 1
           /\ SizeField[img[1]] = Words(img) /\ img[0] # Erased
           /\ FreeFrom(flash, next + done)
           /\ \A i \in 0 .. done - 1 : flash[next + i] = img[i]
           /\ flash \in [Offset -> Word] /\ flash[next + done] = Erased
           /\ next + done \in Offset /\ Usable
<1>1. job = "image" /\ FreeFrom(flash, next + done)
  BY DEF TypeOK, TailInv, TailFree
<1>2. img \in Records /\ cfgPat /\ Words(img) >= MinWords
  BY <1>1 DEF TypeOK, ChainInv, SaveIsAllowed
<1>3. /\ Words(img) \in 1 .. PartWords /\ DOMAIN img = 0 .. Words(img) - 1
      /\ img[0] # Erased /\ PartWords \in Nat /\ MinWords \in Nat /\ MinWords >= 2
  BY <1>2, RecordFacts, SizeAssumption
<1>4. Words(img) >= 2
  BY <1>2, <1>3
<1>5. /\ next \in Nat /\ done \in Nat /\ done < Words(img)
      /\ next + Words(img) <= PartWords /\ flash \in [Offset -> Word]
  BY <1>3 DEF TypeOK
<1>6. SizeField[img[1]] = Words(img)
  BY <1>2, <1>3, <1>4, RecordAssumption
<1>7. \A i \in 0 .. done - 1 : flash[next + i] = img[i]
  BY DEF ChainInv, PartWritten
<1>8. next + done \in Offset
  BY <1>3, <1>5 DEF Offset
<1>9. flash[next + done] = Erased
  BY <1>1, <1>5, <1>8 DEF FreeFrom
<1>10. Usable
  BY <1>1, <1>2, <1>5 DEF Usable
<1>11. QED BY <1>1, <1>2, <1>3, <1>4, <1>5, <1>6, <1>7, <1>8, <1>9, <1>10


(* Whatever is left of a word of img when it is programmed, the next scan    *)
(* passes no start of a record but img and those it passed before.           *)
LEMMA PathBehind ==
    ASSUME TypeOK, TailInv, ChainInv, WayInv, regular, pc = "program",
           NEW w \in {Erased, img[done]} \union Junk,
           NEW g, g = [flash EXCEPT ![next + done] = w]
    PROVE  \E S \in SUBSET Nat :
             Closed(g, S) /\ Marked(g, S, newest, tried \union {img})
<1> USE ProgramFacts
<1>1. PICK C \in SUBSET Nat : /\ Solid(flash, C, next)
                              /\ Marked(flash, C \ {next}, newest, tried)
  BY DEF WayInv
<1> DEFINE Free == {s \in Nat : s > next /\ (s >= PartWords \/ g[s] = Erased)}
           Torn1 == {s \in Nat : s = next + 1 /\ done = 1 /\ g[s] \in Junk}
           S == C \union Free \union Torn1
<1>2. \A s \in 0 .. next + done - 1 : g[s] = flash[s]
  <2>1. \A s \in 0 .. next + done - 1 : s \in Offset /\ s # next + done
    BY DEF Offset
  <2>2. QED BY <2>1
<1>3. g[next + done] = w
  OBVIOUS
<1>4. ASSUME NEW s \in Nat, s >= next + done + 1 PROVE s \in Free
  <2>1. CASE s >= PartWords
    BY <1>4, <2>1
  <2>2. CASE s < PartWords
    <3>1. s \in Offset /\ s # next + done /\ s >= next + done
      BY <1>4, <2>2 DEF Offset
    <3>2. flash[s] = Erased
      BY <3>1 DEF FreeFrom
    <3>3. QED BY <1>4, <3>1, <3>2
  <2>3. QED BY <1>4, <2>1, <2>2
<1>5. 0 \in S /\ next \in C /\ C \subseteq 0 .. next /\ S \in SUBSET Nat
  BY <1>1 DEF Solid, Chain
<1>6. ASSUME NEW s \in C, s # next
      PROVE  /\ s \in 0 .. next - 1 /\ g[s] = flash[s] /\ StepFrom(g, s) \in C
  <2>1. s \in 0 .. next - 1 /\ s # next - 1
    BY <1>1, <1>5, <1>6 DEF Solid
  <2>2. s \in 0 .. next + done - 1 /\ s + 1 \in 0 .. next + done - 1
    BY <2>1
  <2>3. g[s] = flash[s] /\ g[s + 1] = flash[s + 1]
    BY <1>2, <2>2
  <2>4. StepFrom(flash, s) \in C
    BY <1>1, <1>6 DEF Solid, Chain
  <2>5. QED BY <2>1, <2>3, <2>4 DEF StepFrom
<1>7. SizeField[Erased] = 0 /\ \A v \in Junk : SizeField[v] \in 0 .. PartWords
  BY WordAssumption
<1>8. ASSUME next + 1 < PartWords PROVE StepFrom(g, next) \in S
  <2>1. CASE done = 0
    <3>1. next + 1 \in Free
      BY <1>4, <2>1
    <3>2. g[next + 1] = Erased
      BY <1>8, <3>1
    <3>3. StepFrom(g, next) = next + 2
      BY <1>7, <3>2 DEF StepFrom
    <3>4. QED BY <1>4, <2>1, <3>3
  <2>2. CASE done = 1
    <3>1. g[next + 1] = w
      BY <1>3, <2>2
    <3>2. CASE SizeField[w] = 0
      <4>1. StepFrom(g, next) = next + 2
        BY <3>1, <3>2 DEF StepFrom
      <4>2. QED BY <1>4, <2>2, <4>1
    <3>3. CASE w \in Junk /\ SizeField[w] # 0
      <4>1. StepFrom(g, next) = next + SizeField[w] /\ SizeField[w] \in 1 .. PartWords
        BY <1>7, <3>1, <3>3 DEF StepFrom
      <4>2. CASE SizeField[w] = 1
        BY <2>2, <3>1, <3>3, <4>1, <4>2
      <4>3. CASE SizeField[w] # 1
        <5>1. next + SizeField[w] >= next + done + 1 /\ next + SizeField[w] \in Nat
          BY <2>2, <4>1, <4>3
        <5>2. QED BY <1>4, <4>1, <5>1
      <4>4. QED BY <4>2, <4>3
    <3>4. CASE w = img[1]
      <4>1. StepFrom(g, next) = next + Words(img)
        BY <3>1, <3>4 DEF StepFrom
      <4>2. next + Words(img) >= next + done + 1 /\ next + Words(img) \in Nat
        BY <2>2
      <4>3. QED BY <1>4, <4>1, <4>2
    <3>5. QED BY <1>7, <2>2, <3>2, <3>3, <3>4
  <2>3. CASE done >= 2
    <3>1. 1 \in 0 .. done - 1 /\ next + 1 \in 0 .. next + done - 1
      BY <2>3
    <3>2. g[next + 1] = img[1]
      BY <1>2, <3>1
    <3>3. StepFrom(g, next) = next + Words(img)
      BY <3>2 DEF StepFrom
    <3>4. next + Words(img) >= next + done + 1 /\ next + Words(img) \in Nat
      OBVIOUS
    <3>5. QED BY <1>4, <3>3, <3>4
  <2>4. QED BY <2>1, <2>2, <2>3
<1>9. Closed(g, S)
  <2>1. ASSUME NEW s \in S, s + 1 < PartWords, g[s] # Erased
        PROVE  StepFrom(g, s) \in S
    <3>1. CASE s \in C /\ s # next
      BY <1>6, <3>1
    <3>2. CASE s = next
      BY <1>8, <2>1, <3>2
    <3>3. CASE s \in Free
      BY <2>1, <3>3
    <3>4. CASE s \in Torn1
      <4>1. s = next + 1 /\ done = 1
        BY <3>4
      <4>2. next + 2 \in Free
        BY <1>4, <4>1
      <4>3. g[s + 1] = Erased
        BY <2>1, <4>1, <4>2
      <4>4. StepFrom(g, s) = next + 3
        BY <1>7, <4>1, <4>3 DEF StepFrom
      <4>5. next + 3 \in Free
        BY <1>4, <4>1
      <4>6. QED BY <4>4, <4>5
    <3>5. QED BY <3>1, <3>2, <3>3, <3>4
  <2>2. QED BY <1>5, <2>1 DEF Closed
<1>10. ASSUME NEW s \in S, s > newest, s < PartWords, g[s] # Erased
       PROVE  Mark(g, s, tried \union {img})
  <2>1. CASE s \in C /\ s # next
    BY <1>1, <1>6, <1>10, <2>1 DEF Marked, Mark
  <2>2. CASE s = next
    <3>1. CASE done = 0
      BY <1>3, <1>10, <2>2, <3>1 DEF Mark
    <3>2. CASE done > 0
      <4>1. 0 \in 0 .. done - 1 /\ next \in 0 .. next + done - 1
        BY <3>2
      <4>2. g[next] = flash[next] /\ flash[next + 0] = img[0]
        BY <1>2, <4>1
      <4>3. g[next] = img[0]
        BY <4>2
      <4>4. QED BY <2>2, <4>3 DEF Mark
    <3>3. QED BY <3>1, <3>2
  <2>3. CASE s \in Free
    BY <1>10, <2>3
  <2>4. CASE s \in Torn1
    BY <2>4 DEF Mark
  <2>5. QED BY <2>1, <2>2, <2>3, <2>4
<1> HIDE DEF S
<1>11. Marked(g, S, newest, tried \union {img})
  BY <1>10 DEF Marked
<1>12. QED BY <1>5, <1>9, <1>11

---------------------------------------------------------------------------
(* The invariant.                                                            *)

LEMMA ScanMark ==
    ASSUME TypeOK, TypeOK', TailInv, ChainInv, ActiveInv, MarkInv, Scan
    PROVE  MarkInv'
<1>1. pc = "scan" /\ cfgFull = flash /\ cfgPat
  BY DEF Scan, ScanFree, ScanAborted, ScanOutOfPartition, ScanRecord, ScanEnd,
         InScan, TailInv, MarkInv
<1>2. /\ flash' = flash /\ newest' = newest /\ cfgPat' = cfgPat /\ job' = job
      /\ tried' = tried /\ cfgFull' = cfgFull /\ pc' \in {"scan", "ready"}
      /\ regular' \in {regular, FALSE}
  BY <1>1 DEF Scan, ScanFree, ScanAborted, ScanOutOfPartition, ScanRecord, ScanEnd,
         ScanUnchanged, TypeOK
<1>3. InHand = tried /\ InHand' = tried
  BY <1>1, <1>2 DEF InHand
<1>4. CASE ~regular'
  <2>1. PathInv' /\ WayInv' /\ TakenInv'
    BY <1>4 DEF PathInv, WayInv, TakenInv
  <2>2. QED BY <1>1, <1>2, <2>1 DEF MarkInv
<1> SUFFICES ASSUME regular' PROVE MarkInv'
  BY <1>4
<1>5. regular /\ PartWords \in Nat /\ ptr \in Nat /\ newest \in Int
  <2>1. regular \in BOOLEAN
    BY DEF TypeOK
  <2>2. regular
    BY <1>2, <2>1, Zenon
  <2>3. QED BY <2>2, SizeAssumption DEF TypeOK
<1>6. PICK S \in SUBSET Nat : /\ Closed(flash, S) /\ Marked(flash, S, newest, tried)
                              /\ ptr < PartWords => ptr \in S
  BY <1>1, <1>3, <1>5 DEF MarkInv, PathInv
<1>7. CASE ScanFree
  <2>1. /\ ptr < PartWords /\ pc' = "ready" /\ flash[ptr] = Erased
        /\ next' >= 0 => next' = ptr
    BY <1>1, <1>7 DEF ScanFree, InScan
  <2>2. PICK C \in SUBSET Nat : /\ Chain(flash, C, ptr)
                                /\ Marked(flash, C \ {ptr}, newest, tried)
    BY <1>1, <1>5, <2>1 DEF MarkInv, WayInv
  <2>3. Solid(flash, C, ptr)
    BY <1>5, <2>1, <2>2, ErasedEnd
  <2>4. PathInv'
    BY <1>2, <1>3, <1>6, <2>1 DEF PathInv
  <2>5. WayInv'
    BY <1>2, <2>1, <2>2, <2>3 DEF WayInv, Usable
  <2>6. QED BY <2>1, <2>4, <2>5 DEF MarkInv, TakenInv
<1>8. CASE ScanAborted \/ ScanRecord
  <2>1. /\ InScan /\ pc' = "scan" /\ ptr \in S /\ flash[ptr] # Erased
        /\ ptr < PartWords /\ ptr \in Offset
    BY <1>1, <1>5, <1>6, <1>8 DEF ScanAborted, ScanRecord, InScan, Offset
  <2>2. ASSUME ptr + 1 < PartWords
        PROVE  /\ ptr' = StepFrom(flash, ptr) /\ ptr < ptr' /\ ptr' \in S
    BY <1>1, <1>6, <1>8, <2>1, <2>2, TurnFacts DEF Closed
  <2>3. SizeAtPtr \subseteq 0 .. PartWords
    <3>1. ASSUME ptr + 1 < PartWords PROVE SizeField[cfgFull[ptr + 1]] \in 0 .. PartWords
      <4>1. ptr + 1 \in Offset
        BY <1>5, <3>1 DEF Offset
      <4>2. QED BY <4>1, WordAssumption DEF TypeOK
    <3>2. QED BY <3>1 DEF SizeAtPtr
  <2>4. ptr' \in Nat /\ ptr' > ptr
    <3>1. CASE ScanAborted
      BY <1>5, <3>1 DEF ScanAborted, AbortedEnd
    <3>2. CASE ScanRecord
      BY <1>5, <2>3, <3>2 DEF ScanRecord
    <3>3. QED BY <1>8, <3>1, <3>2
  <2>5. ptr' < PartWords => ptr + 1 < PartWords
    BY <1>5, <2>4
  <2>6. PathInv'
    BY <1>2, <1>3, <1>6, <2>1, <2>2, <2>5 DEF PathInv
  <2>7. WayInv'
    <3>1. SUFFICES ASSUME ptr' < PartWords
          PROVE  \E C \in SUBSET Nat : /\ Chain(flash, C, ptr')
                                        /\ Marked(flash, C \ {ptr'}, newest, tried)
      BY <1>2, <2>1 DEF WayInv, Usable
    <3>2. PICK C \in SUBSET Nat : /\ Chain(flash, C, ptr)
                                  /\ Marked(flash, C \ {ptr}, newest, tried)
      BY <1>1, <1>5, <2>1 DEF MarkInv, WayInv
    <3>3. Chain(flash, C \union {ptr'}, ptr')
      BY <1>5, <2>1, <2>2, <2>4, <2>5, <3>1, <3>2, ChainStep
    <3>4. Marked(flash, (C \union {ptr'}) \ {ptr'}, newest, tried)
      BY <1>6, <2>1, <3>2 DEF Marked
    <3>5. C \union {ptr'} \in SUBSET Nat
      BY <2>4
    <3>6. QED BY <3>3, <3>4, <3>5
  <2>8. TakenInv'
    <3>1. CASE UNCHANGED <<config, cfgSize>>
      BY <1>1, <1>2, <1>5, <3>1 DEF MarkInv, TakenInv
    <3>2. CASE ~UNCHANGED <<config, cfgSize>>
      <4>1. ScanRecord
        BY <1>8, <3>2 DEF ScanAborted
      <4>2. PICK sz \in SizeAtPtr \ {0} : Accept(sz) /\ config' = ptr /\ cfgSize' = sz
        BY <3>2, <4>1 DEF ScanRecord
      <4>3. ASSUME ptr > newest PROVE RecordAt(flash, ptr, sz) \in tried
        <5>1. PICK r \in Records : /\ Words(r) = sz
                                   /\ \A i \in 0 .. sz - 1 : flash[ptr + i] = r[i]
          BY <1>1, <4>2 DEF Accept, ValidAt
        <5>2. DOMAIN r = 0 .. sz - 1 /\ sz \in 1 .. PartWords
          BY <5>1, RecordFacts
        <5>3. flash[ptr] = r[0]
          <6>1. 0 \in 0 .. sz - 1
            BY <5>2
          <6>2. flash[ptr + 0] = r[0]
            BY <5>1, <6>1
          <6>3. QED BY <1>5, <6>2
        <5>4. Mark(flash, ptr, tried)
          BY <1>6, <2>1, <4>3 DEF Marked
        <5>5. r[0] \notin Junk /\ \A s \in Records : s[0] = r[0] => s = r
          BY CrcAssumption
        <5>6. tried \subseteq Records
          BY DEF TypeOK
        <5>7. r \in tried
          BY <5>3, <5>4, <5>5, <5>6 DEF Mark
        <5>8. QED BY <5>1, <5>2, <5>7, ReadBack
      <4>4. ASSUME ptr = newest PROVE sz = SizeField[flash[newest + 1]]
        <5>1. newest >= 0 /\ ptr <= newest
          BY <1>5, <4>4
        <5>2. ptr + 1 < PartWords
          BY <1>1, <1>5, <2>1, <5>1, BeforeNewest DEF ChainInv
        <5>3. QED BY <1>1, <4>2, <4>4, <5>2 DEF SizeAtPtr
      <4>5. QED BY <1>1, <1>2, <4>2, <4>3, <4>4 DEF TakenInv
    <3>3. QED BY <3>1, <3>2
  <2>9. QED BY <1>1, <1>2, <2>6, <2>7, <2>8 DEF MarkInv
<1>9. CASE ScanOutOfPartition \/ ScanEnd
  BY <1>9 DEF ScanOutOfPartition, ScanEnd
<1>10. QED BY <1>7, <1>8, <1>9 DEF Scan

(* A write that is cut short, and what is done about it.                     *)
LEMMA CutShortMark ==
    ASSUME TypeOK, TailInv, ChainInv, MarkInv, pc = "program", TearWord, CutShort,
           regular' = regular, newest' = newest, pc' \in {"off", "ready"}
    PROVE  PathInv'
<1> SUFFICES ASSUME regular PROVE PathInv'
  BY DEF PathInv
<1>1. job = "image" /\ tried' = tried \union {img} /\ InHand' = tried'
  BY ProgramFacts DEF CutShort, InHand
<1>2. PICK w \in {flash[next + done], Mix[flash[next + done]][img[done]]} \union Junk :
        flash' = [flash EXCEPT ![next + done] = w]
  BY DEF TearWord, Torn
<1>3. w \in {Erased, img[done]} \union Junk
  <2>1. flash[next + done] = Erased
    BY ProgramFacts
  <2>2. img[done] \in Word
    BY <1>1, ImageFacts, ProgramFacts
  <2>3. Mix[Erased][img[done]] = img[done]
    BY <2>2, MixAssumption, WordAssumption
  <2>4. QED BY <1>2, <2>1, <2>3
<1>4. \E S \in SUBSET Nat :
        Closed(flash', S) /\ Marked(flash', S, newest, tried \union {img})
  BY <1>2, <1>3, PathBehind DEF MarkInv
<1>5. QED BY <1>1, <1>4 DEF PathInv

LEMMA ProgramMark ==
    ASSUME TypeOK, TypeOK', TailInv, ChainInv, MarkInv, Program PROVE MarkInv'
<1>1. /\ pc = "program" /\ regular' = regular /\ pc' \in {"program", "ready"}
      /\ flash' = [flash EXCEPT ![next + done] = Mix[@][img[done]]]
  BY DEF Program, Return
<1>2. CASE ~regular
  BY <1>1, <1>2 DEF MarkInv, PathInv, WayInv, TakenInv
<1>3. CASE regular
  <2> USE ProgramFacts, <1>1, <1>3
  <2>1. flash' = [flash EXCEPT ![next + done] = img[done]]
    <3>1. img[done] \in Word
      BY ImageFacts
    <3>2. Mix[Erased][img[done]] = img[done]
      BY <3>1, MixAssumption, WordAssumption
    <3>3. QED BY <3>2
  <2>2. \A i \in 0 .. next + done - 1 : flash'[i] = flash[i]
    <3>1. \A i \in 0 .. next + done - 1 : i \in Offset /\ i # next + done
      BY DEF Offset
    <3>2. QED BY <2>1, <3>1
  <2>3. PICK C \in SUBSET Nat : /\ Solid(flash, C, next)
                                /\ Marked(flash, C \ {next}, newest, tried)
    BY DEF MarkInv, WayInv
  <2>4. Solid(flash', C, next) /\ C \subseteq 0 .. next
    <3>1. \A i \in 0 .. next - 1 : flash'[i] = flash[i]
      BY <2>2
    <3>2. next \in Nat /\ C \in SUBSET Nat /\ Solid(flash, C, next)
      BY <2>3
    <3>3. Solid(flash', C, next)
      BY ONLY <3>1, <3>2, SolidFrame
    <3>4. QED BY <3>3 DEF Solid, Chain
  <2>5. Marked(flash', C \ {next}, newest, tried)
    <3>1. ASSUME NEW s \in C \ {next} PROVE s \in 0 .. next + done - 1
      <4>1. s \in 0 .. next /\ s # next
        BY <2>4
      <4>2. QED BY <4>1
    <3>2. \A s \in C \ {next} : flash'[s] = flash[s]
      BY <2>2, <3>1
    <3>3. QED BY <2>3, <3>2 DEF Marked, Mark
  <2>6. CASE done + 1 < Words(img)
    <3>1. /\ next' = next /\ pc' = "program" /\ job' = job /\ img' = img
          /\ newest' = newest /\ tried' = tried
      BY <2>6 DEF Program
    <3>2. PathInv'
      <4>1. \E S \in SUBSET Nat :
              Closed(flash', S) /\ Marked(flash', S, newest, tried \union {img})
        BY <2>1, PathBehind DEF MarkInv
      <4>2. InHand' = tried \union {img}
        BY <3>1 DEF InHand
      <4>3. QED BY <3>1, <4>1, <4>2 DEF PathInv
    <3>3. WayInv'
      BY <2>4, <2>5, <3>1 DEF WayInv
    <3>4. QED BY <3>1, <3>2, <3>3 DEF MarkInv, TakenInv
  <2>7. CASE ~(done + 1 < Words(img))
    <3>1. Words(img) = done + 1
      BY <2>7
    <3>2. pc' = "ready" /\ next' = next + Words(img) /\ newest' = next /\ tried' = {}
      BY <2>7 DEF Program, Return, SavedNext
    <3>3. flash'[next] # Erased /\ StepFrom(flash', next) = next'
      <4>1. \A i \in 0 .. done : flash'[next + i] = img[i]
        <5>1. TAKE i \in 0 .. done
        <5>2. CASE i = done
          BY <2>1, <5>2
        <5>3. CASE i < done
          <6>1. i \in 0 .. done - 1 /\ next + i \in 0 .. next + done - 1
            BY <5>3
          <6>2. QED BY <2>2, <6>1
        <5>4. QED BY <5>2, <5>3
      <4>2. 0 \in 0 .. done /\ 1 \in 0 .. done
        BY <3>1
      <4>3. flash'[next + 0] = img[0] /\ flash'[next + 1] = img[1]
        BY <4>1, <4>2
      <4>4. QED BY <3>2, <4>3 DEF StepFrom
    <3>4. next' \in Nat /\ next < next' - 1
      BY <3>2
    <3>5. Solid(flash', C \union {next'}, next')
      BY <2>4, <3>3, <3>4, SolidStep
    <3>6. C \union {next'} \in SUBSET Nat /\ \A s \in C : ~(s > next)
      BY <2>4, <3>4
    <3>7. WayInv'
      <4>1. Marked(flash', (C \union {next'}) \ {next'}, newest', tried')
        BY <3>2, <3>6 DEF Marked
      <4>2. QED BY <3>2, <3>5, <3>6, <4>1 DEF WayInv
    <3>8. next' < PartWords => flash'[next'] = Erased
      <4>1. SUFFICES ASSUME next' < PartWords PROVE flash'[next'] = Erased
        OBVIOUS
      <4>2. next' \in Offset /\ next' # next + done /\ next' >= next + done
        BY <3>1, <3>2, <4>1 DEF Offset
      <4>3. QED BY <2>1, <4>2 DEF FreeFrom
    <3>9. PathInv'
      <4>1. Closed(flash', C \union {next'})
        <5>1. /\ 0 \in C \union {next'}
              /\ \A s \in (C \union {next'}) \ {next'} :
                   StepFrom(flash', s) \in C \union {next'}
          BY <3>5 DEF Solid, Chain
        <5>2. next' + 1 < PartWords => flash'[next'] = Erased
          BY <3>4, <3>8
        <5>3. QED BY <5>1, <5>2 DEF Closed
      <4>2. Marked(flash', C \union {next'}, newest', InHand')
        BY <3>2, <3>6, <3>8 DEF Marked
      <4>3. QED BY <3>2, <3>6, <4>1, <4>2 DEF PathInv
    <3>10. QED BY <3>2, <3>7, <3>9 DEF MarkInv, TakenInv
  <2>8. QED BY <2>6, <2>7
<1>4. QED BY <1>2, <1>3

LEMMA SaveMark ==
    ASSUME TypeOK, TypeOK', TailInv, ChainInv, MarkInv, Save PROVE MarkInv'
<1>1. ASSUME NEW r \in Records, SaveConfigImage(r) PROVE MarkInv'
  <2>1. /\ pc = "ready" /\ cfgPat /\ cfgPat' = cfgPat /\ flash' = flash /\ job' = "image"
        /\ regular' = regular /\ newest' = newest /\ tried' = tried /\ pc' # "scan"
        /\ pc' = "erase" \/ (pc' = "program" /\ next' = next)
    BY <1>1 DEF SaveConfigImage, ram
  <2>2. InHand = tried /\ tried \subseteq InHand'
    BY <2>1 DEF InHand
  <2>3. PathInv'
    BY <2>1, <2>2, MarkedMore DEF MarkInv, PathInv
  <2>4. WayInv'
    BY <2>1 DEF MarkInv, WayInv, Usable
  <2>5. QED BY <2>1, <2>3, <2>4 DEF MarkInv, TakenInv
<1>2. ASSUME NEW f \in Fulls, SaveConfigFull(f) PROVE MarkInv'
  BY <1>2 DEF SaveConfigFull, ram, MarkInv, PathInv, WayInv, TakenInv, Usable, InHand
<1>3. CASE Erase
  <2>1. /\ pc' = "program" /\ next' = 0 /\ tried' = {} /\ \A o \in Offset : flash'[o] = Erased
    BY <1>3 DEF Erase, Blank
  <2>2. \A S : Marked(flash', S, newest', InHand') \/ ~(S \subseteq Nat)
    BY <2>1, SizeAssumption DEF Marked, Offset
  <2>3. Closed(flash', {0}) /\ {0} \in SUBSET Nat
    BY <2>1, SizeAssumption DEF Closed, Offset
  <2>4. Solid(flash', {0}, 0) /\ Marked(flash', {0} \ {0}, newest', tried')
    BY StartSettled DEF Marked
  <2>5. QED BY <2>1, <2>2, <2>3, <2>4 DEF MarkInv, PathInv, WayInv, TakenInv
<1>4. CASE EraseFails
  BY <1>4 DEF EraseFails, Return, ram, MarkInv, PathInv, WayInv, TakenInv, Usable, InHand
<1>5. CASE Program
  BY <1>5, ProgramMark
<1>6. CASE ProgramFails
  <2>1. /\ pc = "program" /\ pc' = "ready" /\ TearWord /\ CutShort
        /\ newest' = newest /\ regular' = regular /\ next' = FailedNext
    BY <1>6 DEF ProgramFails, Return
  <2>2. regular => next' = -1
    BY <2>1 DEF FailedNext, TailInv
  <2>3. PathInv'
    BY <2>1, CutShortMark
  <2>4. WayInv' /\ TakenInv'
    BY <2>1, <2>2 DEF WayInv, TakenInv, Usable
  <2>5. QED BY <2>1, <2>3, <2>4 DEF MarkInv
<1>7. QED BY <1>1, <1>2, <1>3, <1>4, <1>5, <1>6 DEF Save

LEMMA NextMark ==
    ASSUME TypeOK, TypeOK', TailInv, ChainInv, ActiveInv, MarkInv, [Next]_vars
    PROVE  MarkInv'
<1>1. CASE LoadConfig
  <2>1. /\ pc = "off" /\ pc' = "scan" /\ ptr' = 0 /\ flash' = flash /\ cfgPat' = TRUE
        /\ newest' = newest /\ regular' = regular /\ tried' = tried /\ config' = -1
    BY <1>1 DEF LoadConfig, ActiveInv
  <2>2. InHand = tried /\ InHand' = tried
    BY <2>1 DEF InHand
  <2>3. PathInv'
    BY <2>1, <2>2 DEF MarkInv, PathInv, Closed
  <2>4. Chain(flash', {0}, 0) /\ Marked(flash', {0} \ {0}, newest', tried')
    BY StartSettled DEF Marked, Solid
  <2>5. WayInv'
    <3>1. {0} \in SUBSET Nat
      OBVIOUS
    <3>2. QED BY <2>1, <2>4, <3>1 DEF WayInv, Usable
  <2>6. QED BY <2>1, <2>3, <2>5 DEF MarkInv, TakenInv
<1>2. CASE LoadConfigFails
  BY <1>2 DEF LoadConfigFails, MarkInv, PathInv, WayInv, TakenInv, Usable, InHand
<1>3. CASE Scan
  BY <1>3, ScanMark
<1>4. CASE Save
  BY <1>4, SaveMark
<1>5. CASE Crash
  <2>1. /\ pc' = "off" /\ newest' = newest /\ regular' = regular
        /\ IF pc = "program" THEN TearWord /\ CutShort ELSE UNCHANGED <<flash, tried>>
    BY <1>5 DEF Crash
  <2>2. PathInv'
    <3>1. CASE pc = "program"
      BY <2>1, <3>1, CutShortMark
    <3>2. CASE pc # "program"
      BY <2>1, <3>2 DEF MarkInv, PathInv, InHand
    <3>3. QED BY <3>1, <3>2
  <2>3. QED BY <2>1, <2>2 DEF MarkInv, WayInv, TakenInv, Usable
<1>6. CASE UNCHANGED vars
  BY <1>6 DEF vars, ram, MarkInv, PathInv, WayInv, TakenInv, Usable, InHand
<1>7. QED BY <1>1, <1>2, <1>3, <1>4, <1>5, <1>6 DEF Next

LEMMA MarkHolds == Spec => [](TypeOK /\ TailInv /\ ChainInv /\ ActiveInv /\ MarkInv)
<1>1. Init => MarkInv
  <2>1. SUFFICES ASSUME Init PROVE MarkInv
    OBVIOUS
  <2>2. Closed(flash, {0}) /\ Marked(flash, {0}, newest, InHand) /\ {0} \in SUBSET Nat
    BY <2>1, SizeAssumption DEF Init, Blank, Offset, Closed, Marked
  <2>3. QED BY <2>1, <2>2 DEF Init, MarkInv, PathInv, WayInv, TakenInv, Usable
<1>2. Init => ActiveInv
  BY DEF Init, ActiveInv, ActiveIsRecord
<1>3. TypeOK /\ TypeOK' /\ TailInv /\ ChainInv /\ ActiveInv /\ MarkInv /\ [Next]_vars
        => ActiveInv' /\ MarkInv'
  BY NextActive, NextMark
<1>4. QED BY <1>1, <1>2, <1>3, ChainHolds, PTL DEF Spec

---------------------------------------------------------------------------
(* Every step of the log is a step of the register or leaves it unchanged.   *)

Bars == <<upBar, regular, savedBar, pendingBar, triedBar, activeBar>>

(* The last saved record is read the same while another one is written.      *)
LEMMA SavedStays ==
    ASSUME TypeOK, TailInv, ChainInv, pc = "program",
           \A i \in Offset : i # next + done => flash'[i] = flash[i],
           regular' = regular, newest' = newest
    PROVE  savedBar' = savedBar
<1> SUFFICES ASSUME regular, newest >= 0 PROVE savedBar' = savedBar
  BY DEF savedBar
<1>1. \A i \in 0 .. next - 1 : flash'[i] = flash[i]
  <2>1. \A i \in 0 .. next - 1 : i \in Offset /\ i # next + done
    BY ProgramFacts DEF Offset
  <2>2. QED BY <2>1
<1>2. /\ SavedAt(flash, newest) /\ newest \in Nat /\ next \in Nat
      /\ EndOf(flash, newest) <= next
  BY ProgramFacts DEF ChainInv, NewestSettled, NextSettled, TypeOK
<1>3. /\ EndOf(flash, newest) \in newest + 2 .. PartWords
      /\ SizeField[flash[newest + 1]] = EndOf(flash, newest) - newest
  BY <1>2, SavedFacts
<1>4. newest + 1 \in 0 .. next - 1
  BY <1>2, <1>3, ProgramFacts
<1>5. flash'[newest + 1] = flash[newest + 1]
  BY <1>1, <1>4
<1> DEFINE n == SizeField[flash[newest + 1]]
<1>6. \A i \in 0 .. n - 1 : flash'[newest + i] = flash[newest + i]
  <2>1. \A i \in 0 .. n - 1 : newest + i \in 0 .. next - 1
    BY <1>2, <1>3, ProgramFacts
  <2>2. QED BY <1>1, <2>1
<1>7. RecordAt(flash', newest, n) = RecordAt(flash, newest, n)
  BY <1>6 DEF RecordAt
<1>8. QED BY <1>5, <1>7 DEF savedBar

LEMMA CutShortBars ==
    ASSUME TypeOK, TailInv, ChainInv, pc = "program", TearWord, CutShort,
           regular' = regular, newest' = newest
    PROVE  Register!CutShort
<1>1. savedBar' = savedBar
  <2>1. \A i \in Offset : i # next + done => flash'[i] = flash[i]
    BY DEF TearWord, TypeOK
  <2>2. QED BY <2>1, SavedStays
<1>2. CASE ~regular
  BY <1>1, <1>2 DEF triedBar, Register!CutShort
<1>3. CASE regular
  <2>1. job = "image" /\ img \in Records
    BY <1>3, ProgramFacts
  <2>2. triedBar' = triedBar \union ({pendingBar} \ {NoImage})
    BY <1>3, <2>1, NotNone DEF CutShort, triedBar, pendingBar
  <2>3. QED BY <1>1, <2>2 DEF Register!CutShort
<1>4. QED BY <1>2, <1>3

(* What a boot hands out.                                                    *)
LEMMA BootBars ==
    ASSUME TypeOK, TailInv, ChainInv, ActiveInv, MarkInv,
           ScanFree \/ ScanOutOfPartition \/ ScanEnd
    PROVE  Register!Boot
<1>1. /\ pc = "scan" /\ pc' = "ready" /\ cfgFull = flash /\ cfgPat /\ cfgPat'
      /\ job = "none" /\ job' = "none" /\ flash' = flash /\ newest' = newest
      /\ tried' = tried /\ cfgFull' = cfgFull /\ config' = config /\ cfgSize' = cfgSize
      /\ (regular' = regular \/ regular' = FALSE)
  BY DEF ScanFree, ScanOutOfPartition, ScanEnd, InScan, ScanUnchanged, TailInv,
         MarkInv, TypeOK
<1>2. /\ upBar = "off" /\ upBar' = "on"
      /\ pendingBar' = pendingBar
  BY <1>1 DEF upBar, pendingBar
<1>3. Register!Kept \/ Register!Forget
  <2>1. CASE regular' = regular
    BY <1>1, <2>1 DEF Register!Kept, savedBar, triedBar
  <2>2. CASE regular' = FALSE
    BY <1>1, <2>2 DEF Register!Forget, savedBar, triedBar
  <2>3. QED BY <1>1, <2>1, <2>2
<1>4. activeBar' = IF config < 0 THEN NoImage ELSE RecordAt(flash, config, cfgSize)
  BY <1>1 DEF activeBar
<1>5. activeBar' \in Records \union {NoImage}
  <2>1. CASE config >= 0
    <3>1. PICK r \in Records : /\ Words(r) = cfgSize
                               /\ \A i \in 0 .. cfgSize - 1 : flash[config + i] = r[i]
      BY <1>1, <2>1 DEF ActiveInv, ActiveIsRecord, ValidAt
    <3>2. DOMAIN r = 0 .. cfgSize - 1
      BY <3>1, RecordFacts
    <3>3. RecordAt(flash, config, cfgSize) = r
      BY <3>1, <3>2, ReadBack
    <3>4. ~(config < 0)
      BY <2>1 DEF TypeOK
    <3>5. QED BY <1>4, <3>3, <3>4
  <2>2. CASE ~(config >= 0)
    BY <1>4, <2>2 DEF TypeOK
  <2>3. QED BY <2>1, <2>2
<1>6. ASSUME regular PROVE activeBar' \in {savedBar} \union triedBar
  <2>1. newest >= 0 => config >= newest
    BY <1>1, <1>6, EndsBehind DEF ChainInv
  <2>2. newest \in Int /\ config \in Int /\ newest >= -1 /\ config >= -1
    BY DEF TypeOK
  <2>3. CASE config < 0
    <3>1. ~(newest >= 0)
      BY <2>1, <2>2, <2>3
    <3>2. QED BY <1>4, <2>3, <3>1 DEF savedBar
  <2>4. CASE config >= 0 /\ config > newest
    <3>1. RecordAt(flash, config, cfgSize) \in tried
      BY <1>1, <1>6, <2>4 DEF MarkInv, TakenInv
    <3>2. ~(config < 0)
      BY <2>2, <2>4
    <3>3. QED BY <1>4, <1>6, <3>1, <3>2 DEF triedBar
  <2>5. CASE config >= 0 /\ config = newest
    <3>1. cfgSize = SizeField[flash[newest + 1]]
      BY <1>1, <1>6, <2>5 DEF MarkInv, TakenInv
    <3>2. ~(config < 0)
      BY <2>2, <2>5
    <3>3. QED BY <1>4, <1>6, <2>5, <3>1, <3>2 DEF savedBar
  <2>6. QED BY <2>1, <2>2, <2>3, <2>4, <2>5
<1>7. QED BY <1>2, <1>3, <1>5, <1>6 DEF Register!Boot

LEMMA ProgramBars ==
    ASSUME TypeOK, TypeOK', TailInv, ChainInv, Program
    PROVE  Register!Complete \/ UNCHANGED Bars
<1>1. /\ pc = "program" /\ regular' = regular /\ cfgPat' = cfgPat /\ cfgPat
      /\ cfgFull' = cfgFull /\ config' = config /\ cfgSize' = cfgSize
      /\ flash' = [flash EXCEPT ![next + done] = Mix[@][img[done]]]
      /\ pc' \in {"program", "ready"}
  BY DEF Program, Return, ram, ChainInv, SaveIsAllowed
<1>2. upBar = "on" /\ upBar' = "on" /\ activeBar' = activeBar
  BY <1>1 DEF upBar, activeBar
<1>3. \A i \in Offset : i # next + done => flash'[i] = flash[i]
  BY <1>1 DEF TypeOK
<1>4. CASE done + 1 < Words(img)
  <2>1. newest' = newest /\ tried' = tried /\ job' = job /\ img' = img
    BY <1>4 DEF Program
  <2>2. savedBar' = savedBar
    BY <1>1, <1>3, <2>1, SavedStays
  <2>3. pendingBar' = pendingBar /\ triedBar' = triedBar
    BY <1>1, <2>1 DEF pendingBar, triedBar
  <2>4. QED BY <1>1, <1>2, <2>2, <2>3 DEF Bars
<1>5. CASE ~(done + 1 < Words(img))
  <2>1. job' = "none" /\ pc' = "ready"
    BY <1>5 DEF Program, Return
  <2>2. CASE ~regular
    <3>1. savedBar' = savedBar /\ triedBar' = triedBar
      BY <1>1, <2>2 DEF savedBar, triedBar
    <3>2. CASE job = "image"
      <4>1. pendingBar = img /\ img # NoImage /\ pendingBar' = NoImage
        BY <2>1, <3>2, NotNone DEF TypeOK, pendingBar
      <4>2. QED BY <1>1, <1>2, <2>2, <3>1, <4>1 DEF Register!Complete
    <3>3. CASE job # "image"
      BY <1>1, <1>2, <2>1, <3>1, <3>3 DEF Bars, pendingBar
    <3>4. QED BY <3>2, <3>3
  <2>3. CASE regular
    <3> USE ProgramFacts
    <3>1. newest' = next /\ tried' = {} /\ Words(img) = done + 1
      BY <1>1, <1>5, <2>3 DEF Program
    <3>2. pendingBar = img /\ img # NoImage /\ pendingBar' = NoImage
      BY <1>1, <2>1, <2>3, NotNone DEF pendingBar
    <3>3. \A i \in 0 .. done : flash'[next + i] = img[i]
      <4>1. TAKE i \in 0 .. done
      <4>2. CASE i = done
        <5>1. img[done] \in Word
          BY <1>1, <2>3, ImageFacts
        <5>2. Mix[Erased][img[done]] = img[done]
          BY <5>1, MixAssumption, WordAssumption
        <5>3. QED BY <1>1, <2>3, <4>2, <5>2
      <4>3. CASE i < done
        <5>1. i \in 0 .. done - 1 /\ next + i \in Offset /\ next + i # next + done
          BY <1>1, <2>3, <4>3 DEF Offset
        <5>2. QED BY <1>1, <1>3, <2>3, <5>1
      <4>4. QED BY <1>1, <2>3, <4>2, <4>3
    <3>4. DOMAIN img = 0 .. done /\ 1 \in 0 .. done
      BY <1>1, <2>3, <3>1
    <3>5. RecordAt(flash', next, Words(img)) = img
      <4>1. img \in Records /\ \A i \in DOMAIN img : flash'[next + i] = img[i]
        BY <1>1, <2>3, <3>3, <3>4
      <4>2. QED BY ONLY <4>1, ReadBack
    <3>6. SizeField[flash'[next + 1]] = Words(img)
      BY <1>1, <2>3, <3>3, <3>4
    <3>7. savedBar' = img
      BY <1>1, <2>3, <3>1, <3>5, <3>6 DEF savedBar
    <3>8. triedBar' = {}
      BY <3>1 DEF triedBar
    <3>9. QED BY <1>1, <1>2, <2>3, <3>2, <3>7, <3>8 DEF Register!Complete
  <2>4. QED BY <2>2, <2>3
<1>6. QED BY <1>4, <1>5

LEMMA StepBars ==
    ASSUME TypeOK, TypeOK', TailInv, ChainInv, ActiveInv, MarkInv, [Next]_vars
    PROVE  Register!Next \/ UNCHANGED Bars
<1>1. CASE LoadConfig
  <2>1. job = "none"
    BY <1>1 DEF LoadConfig, TypeOK
  <2>2. QED BY <1>1, <2>1
            DEF LoadConfig, Bars, upBar, savedBar, pendingBar, triedBar, activeBar
<1>2. CASE LoadConfigFails
  <2>1. config = -1 /\ config < 0
    BY <1>2 DEF LoadConfigFails, ActiveInv
  <2>2. Register!BootBare
    BY <1>2, <2>1 DEF LoadConfigFails, Register!BootBare, upBar, savedBar, pendingBar,
                      triedBar, activeBar
  <2>3. QED BY <2>2 DEF Register!Next
<1>3. CASE ScanAborted \/ ScanRecord
  BY <1>3 DEF ScanAborted, ScanRecord, ScanUnchanged, InScan,
              Bars, upBar, savedBar, pendingBar, triedBar, activeBar
<1>4. CASE ScanFree \/ ScanOutOfPartition \/ ScanEnd
  BY <1>4, BootBars DEF Register!Next
<1>5. ASSUME NEW r \in Records, SaveConfigImage(r) PROVE Register!Begin
  <2>1. /\ pc = "ready" /\ job = "none" /\ cfgPat /\ cfgPat' = cfgPat
        /\ pc' \in {"erase", "program"} /\ job' = "image" /\ img' = r
        /\ UNCHANGED <<flash, cfgFull, config, cfgSize, regular, newest, tried>>
    BY <1>5 DEF SaveConfigImage, ram, TypeOK
  <2>2. pendingBar = NoImage /\ pendingBar' = r
    BY <2>1 DEF pendingBar
  <2>3. /\ upBar = "on" /\ upBar' = upBar /\ savedBar' = savedBar
        /\ triedBar' = triedBar /\ activeBar' = activeBar
    BY <2>1 DEF upBar, savedBar, triedBar, activeBar
  <2>4. QED BY <2>1, <2>2, <2>3 DEF Register!Begin
<1>6. ASSUME NEW f \in Fulls, SaveConfigFull(f) PROVE UNCHANGED Bars
  <2>1. job = "none"
    BY <1>6 DEF SaveConfigFull, TypeOK
  <2>2. QED BY <1>6, <2>1 DEF SaveConfigFull, ram, Bars, upBar, savedBar, pendingBar,
                              triedBar, activeBar
<1>7. CASE Erase
  <2>1. /\ pc = "erase" /\ cfgPat /\ cfgPat' = cfgPat /\ pc' = "program"
        /\ newest' = -1 /\ tried' = {} /\ job' = job /\ img' = img
        /\ regular' = (job = "image")
        /\ UNCHANGED <<cfgFull, config, cfgSize>>
    BY <1>7 DEF Erase, ram, ChainInv, SaveIsAllowed
  <2>2. /\ upBar = "on" /\ upBar' = upBar /\ savedBar' = NoImage
        /\ triedBar' = {} /\ activeBar' = activeBar /\ pendingBar' = pendingBar
    BY <2>1 DEF upBar, savedBar, triedBar, activeBar, pendingBar
  <2>3. (pendingBar # NoImage) = (job = "image")
    BY NotNone DEF pendingBar, TypeOK
  <2>4. regular' = (pendingBar # NoImage)
    BY <2>1, <2>3, Zenon
  <2>5. QED BY <2>2, <2>4 DEF Register!Clear, Register!Next
<1>8. CASE EraseFails
  <2>1. /\ pc = "erase" /\ cfgPat /\ cfgPat' = cfgPat /\ pc' = "ready" /\ job' = "none"
        /\ UNCHANGED <<flash, cfgFull, config, cfgSize, newest, tried>>
    BY <1>8 DEF EraseFails, Return, ram, ChainInv, SaveIsAllowed
  <2>2. /\ upBar = "on" /\ upBar' = upBar /\ activeBar' = activeBar
        /\ pendingBar' = NoImage
    BY <2>1 DEF upBar, activeBar, pendingBar
  <2>3. CASE job = "full"
    <3>1. regular' = regular
      <4>1. regular' = (regular /\ job = "full") /\ regular \in BOOLEAN
        BY <1>8 DEF EraseFails, TypeOK
      <4>2. QED BY <2>3, <4>1, Zenon
    <3>2. Register!CutShort
      BY <2>1, <3>1 DEF Register!CutShort, savedBar, triedBar
    <3>3. QED BY <2>2, <3>2 DEF Register!Fail, Register!Next
  <2>4. CASE job # "full"
    <3>1. regular' = FALSE
      <4>1. regular' = (regular /\ job = "full")
        BY <1>8 DEF EraseFails
      <4>2. QED BY <2>4, <4>1, Zenon
    <3>2. Register!Forget
      BY <3>1 DEF Register!Forget, savedBar, triedBar
    <3>3. QED BY <2>2, <3>2 DEF Register!Fail, Register!Next
  <2>5. QED BY <2>3, <2>4
<1>9. CASE Program
  BY <1>9, ProgramBars DEF Register!Next
<1>10. CASE ProgramFails
  <2>1. /\ pc = "program" /\ cfgPat /\ cfgPat' = cfgPat /\ pc' = "ready" /\ job' = "none"
        /\ TearWord /\ CutShort
        /\ UNCHANGED <<cfgFull, config, cfgSize, regular, newest>>
    BY <1>10 DEF ProgramFails, Return, ram, ChainInv, SaveIsAllowed
  <2>2. /\ upBar = "on" /\ upBar' = upBar /\ activeBar' = activeBar
        /\ pendingBar' = NoImage
    BY <2>1 DEF upBar, activeBar, pendingBar
  <2>3. QED BY <2>1, <2>2, CutShortBars DEF Register!Fail, Register!Next
<1>11. CASE Crash
  <2>1. /\ pc' = "off" /\ job' = "none"
        /\ IF pc = "program" THEN TearWord /\ CutShort ELSE UNCHANGED <<flash, tried>>
        /\ UNCHANGED <<regular, newest>>
    BY <1>11 DEF Crash
  <2>2. upBar' = "off" /\ activeBar' = NoImage /\ pendingBar' = NoImage
    BY <2>1 DEF upBar, activeBar, pendingBar
  <2>3. Register!CutShort
    <3>1. CASE pc = "program"
      BY <2>1, <3>1, CutShortBars
    <3>2. CASE pc # "program"
      BY <2>1, <3>2 DEF Register!CutShort, savedBar, triedBar
    <3>3. QED BY <3>1, <3>2
  <2>4. QED BY <2>2, <2>3 DEF Register!PowerLoss, Register!Next
<1>12. CASE UNCHANGED vars
  BY <1>12 DEF vars, ram, Bars, upBar, savedBar, pendingBar, triedBar, activeBar
<1>13. QED BY <1>1, <1>2, <1>3, <1>4, <1>5, <1>6, <1>7, <1>8, <1>9, <1>10, <1>11, <1>12
           DEF Next, Scan, Save, Register!Next

(* The configuration log is a register that survives power losses: a boot    *)
(* hands out the record of the last save that returned NULL, or one whose    *)
(* save was cut short since, and a save does not change the configuration in *)
(* use (setup_data.cpp:49-142).                                              *)
THEOREM LogIsRegister == Spec => ImplementsRegister
<1>1. Init => Register!Init
  BY DEF Init, Register!Init, upBar, savedBar, pendingBar, triedBar, activeBar
<1>2. TypeOK /\ TypeOK' /\ TailInv /\ ChainInv /\ ActiveInv /\ MarkInv /\ [Next]_vars
        => [Register!Next]_(Register!rvars)
  BY StepBars DEF Bars, Register!rvars
<1>3. QED BY <1>1, <1>2, MarkHolds, PTL DEF Spec, ImplementsRegister, Register!Spec
=============================================================================
