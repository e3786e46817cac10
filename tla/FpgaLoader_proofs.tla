-------------------------- MODULE FpgaLoader_proofs --------------------------
(* Proofs about the FPGA loader, for every length of the image and of a      *)
(* transfer, and every time CDONE may take.                                  *)
EXTENDS FpgaLoader, TLAPS

FpgaType == [dummy : Nat, got : Nat, after : Nat, need : Needs,
             dead : BOOLEAN, stuck : BOOLEAN]

(* How far the FPGA is at each step of load_fpga, and how the pins are.      *)
Untouched == fpga.dummy = 0 /\ fpga.got = 0 /\ fpga.after = 0
Listening == ~fpga.stuck /\ creset = 1 /\ fpga.after = 0
             /\ fpga.dummy = DummyTicks /\ fpga.got = image - left

StepInv ==
    /\ pc = "load" => Untouched /\ creset = 0 /\ ss = 0
    /\ pc = "check" => Untouched /\ creset = 1 /\ ss = 0
    /\ pc = "dummy" => Untouched /\ creset = 1 /\ ss = 1 /\ ~fpga.stuck
    /\ pc = "data" => Listening /\ ss = 0
    /\ pc = "wait" => Listening /\ ss = 1 /\ left = 0 /\ cnt = 0

LoaderInv == TypeOK /\ StepInv /\ ShownIsTrue

LEMMA TickType ==
    ASSUME NEW n \in Nat, fpga \in FpgaType, Ticks(n) PROVE fpga' \in FpgaType
BY DEF Ticks, FpgaType, Least, ManyTicks

LEMMA LastTicksAre ==
    ASSUME fpga \in FpgaType, Ticks(LastTicks), ss = 1, fpga.dummy = DummyTicks, fpga.after = 0
    PROVE  fpga' = [fpga EXCEPT !.after = 49]
<1>1. /\ ss # 0 /\ ~(fpga.dummy < DummyTicks)
      /\ Least(fpga.after + LastTicks, ManyTicks) = 49
  BY DEF DummyTicks, Least, LastTicks, ManyTicks
<1>2. QED BY <1>1 DEF Ticks, FpgaType

LEMMA ClearedType == FpgaCleared \subseteq FpgaType
BY DEF FpgaCleared, FpgaType

LEMMA LoadStep == ASSUME LoaderInv, LoadFpga PROVE LoaderInv'
<1> USE DEF LoaderInv
<1>t. /\ fpga \in FpgaType /\ image \in Nat \ {0} /\ left \in 0 .. image
      /\ Chunk \in Nat \ {0} /\ image \in Images
  BY LoaderAssumption DEF TypeOK, FpgaType
<1>1. CASE Release
  BY <1>1 DEF Release, TypeOK, StepInv, ShownIsTrue, Untouched
<1>2. CASE CheckStuck
  <2>1. CDone => ~Running
    BY <1>2, <1>t DEF CheckStuck, StepInv, Untouched, CDone, Configured, Running
  <2>2. Running' = Running
    BY <1>2 DEF CheckStuck, Running, Configured
  <2>3. ~CDone => ~fpga.stuck
    BY DEF CDone
  <2>4. QED BY <1>2, <2>1, <2>2, <2>3
            DEF CheckStuck, SsForDummy, End, TypeOK, StepInv, Untouched, ShownIsTrue
<1>3. CASE SendDummy
  <2>1. fpga' = [fpga EXCEPT !.dummy = 8] /\ fpga' \in FpgaType
    BY <1>3, <1>t DEF SendDummy, Ticks, StepInv, Untouched, DummyTicks, FpgaType
  <2>2. left' = image /\ left' \in 0 .. image /\ image' = image /\ creset' = 1 /\ ss' = 0
    BY <1>3, <1>t DEF SendDummy, StepInv
  <2>3. Listening'
    BY <1>3, <1>t, <2>1, <2>2
       DEF SendDummy, StepInv, Listening, Untouched, DummyTicks, FpgaType
  <2>4. QED BY <1>3, <2>1, <2>2, <2>3
            DEF SendDummy, TypeOK, StepInv, ShownIsTrue, FpgaType
<1>4. CASE SendData
  <2>1. Len(left) \in 1 .. left /\ left' = left - Len(left) /\ left' \in 0 .. image
    BY <1>4, <1>t DEF SendData, Len, Least
  <2>2. fpga' = [fpga EXCEPT !.got = @ + Len(left)]
    BY <1>4 DEF SendData, TakesBytes, StepInv, Listening, DummyTicks
  <2>3. fpga' \in FpgaType
    BY <1>t, <2>1, <2>2 DEF FpgaType
  <2>4. Listening' /\ ss' = 0 /\ pc' = "data"
    BY <1>4, <1>t, <2>1, <2>2 DEF SendData, StepInv, Listening, FpgaType
  <2>5. QED BY <1>4, <2>1, <2>3, <2>4 DEF SendData, TypeOK, StepInv, ShownIsTrue, FpgaType
<1>5. CASE DataSent
  <2>1. left = 0 /\ 0 \in 0 .. ManyTurns
    BY <1>5, <1>t DEF DataSent, ManyTurns
  <2>2. QED BY <1>5, <2>1 DEF DataSent, TypeOK, StepInv, Listening, ShownIsTrue
<1>6. CASE WaitDone
  <2>1. cnt = 0 /\ GivesUp(cnt + 1) /\ cnt' = 2 /\ 2 \in 0 .. ManyTurns
    BY <1>6 DEF WaitDone, StepInv, GivesUp, Least, ManyTurns
  <2>2. pc' = "end" /\ shown' = "CDONE" /\ fpga' = fpga
    BY <1>6, <2>1 DEF WaitDone, End
  <2>3. ~Running'
    BY <1>6, <2>2 DEF WaitDone, CDone, Running, Configured
  <2>4. QED BY <1>6, <2>1, <2>2, <2>3 DEF WaitDone, TypeOK, StepInv, ShownIsTrue
<1>7. CASE SendLast
  <2>1. /\ Listening /\ ss = 1 /\ left = 0 /\ Configured
    BY <1>7 DEF SendLast, StepInv, Listening, CDone
  <2>2. fpga.need = 0
    <3>1. fpga.need \in Needs /\ fpga.after = 0 /\ fpga.after >= fpga.need
      BY <1>t, <2>1 DEF Listening, Configured, FpgaType
    <3>2. fpga.need \in 0 .. 100
      BY <3>1, LoaderAssumption
    <3>3. QED BY <3>1, <3>2
  <2>3. fpga' = [fpga EXCEPT !.after = 49]
    BY <1>7, <1>t, <2>1, LastTicksAre DEF SendLast, Listening
  <2>4. fpga' \in FpgaType
    BY <1>t, <2>3 DEF FpgaType
  <2>5. Running'
    <3>1. /\ fpga'.after = 49 /\ fpga'.got = fpga.got /\ fpga'.need = 0
          /\ fpga'.dead = fpga.dead /\ fpga'.stuck = fpga.stuck
      BY <1>t, <2>2, <2>3 DEF FpgaType
    <3>2. creset' = creset /\ image' = image
      BY <1>7 DEF SendLast
    <3>3. Configured' /\ ~fpga'.stuck
      BY <2>1, <3>1, <3>2 DEF Configured, Listening
    <3>4. QED BY <3>1, <3>3 DEF Running, StartTicks
  <2>6. QED BY <1>7, <2>4, <2>5 DEF SendLast, End, TypeOK, StepInv, ShownIsTrue, FpgaType
<1>8. CASE SendFails
  <2>1. PICK sent \in {0, 1, 2} :
          \/ pc = "dummy" /\ Ticks(8 * sent) /\ End("ERR")
          \/ pc = "data" /\ left > 0 /\ TakesBytes(Len(left) * sent) /\ End("ERR")
          \/ pc = "wait" /\ CDone /\ Ticks(LastTicks * sent) /\ End("ERR Tr11")
    BY <1>8 DEF SendFails
  <2>2. /\ creset' = creset /\ image' = image /\ ss' = ss /\ left' = left /\ cnt' = cnt
        /\ pc' = "end"
    BY <1>8, <2>1 DEF SendFails, End
  <2>3. CASE pc = "dummy"
    <3>1. Untouched /\ 8 * sent \in Nat /\ fpga' \in FpgaType /\ shown' = "ERR"
      BY <1>t, <2>1, <2>3, TickType DEF StepInv, End
    <3>2. fpga'.got = 0
      BY <1>t, <2>1, <2>3, <3>1 DEF Ticks, Untouched, FpgaType, DummyTicks
    <3>3. ~Running'
      BY <1>t, <2>2, <3>2 DEF Running, Configured
    <3>4. QED BY <2>2, <3>1, <3>3 DEF TypeOK, StepInv, ShownIsTrue, FpgaType
  <2>4. CASE pc = "data"
    <3>1. Listening /\ shown' = "ERR" /\ TakesBytes(Len(left) * sent) /\ left > 0
      BY <2>1, <2>4 DEF StepInv, End
    <3>2. Len(left) * sent \in Nat
      <4>1. sent = 0 \/ sent = 1 \/ sent = 2
        OBVIOUS
      <4>2. Len(left) \in Nat
        BY <1>t, <3>1 DEF Len, Least
      <4>3. QED BY <4>1, <4>2
    <3>3. fpga' \in FpgaType /\ fpga'.after = 0 /\ fpga'.need = fpga.need
      BY <1>t, <3>1, <3>2 DEF TakesBytes, Listening, FpgaType
    <3>4. fpga.need \in 0 .. 100
      BY <1>t, LoaderAssumption DEF FpgaType
    <3>5. ~Running'
      BY <3>3, <3>4 DEF Running, StartTicks
    <3>6. QED BY <2>2, <3>1, <3>3, <3>5, <2>4 DEF TypeOK, StepInv, ShownIsTrue, FpgaType
  <2>5. CASE pc = "wait"
    <3>1. LastTicks * sent \in Nat /\ Ticks(LastTicks * sent) /\ shown' = "ERR Tr11"
      <4>1. Ticks(LastTicks * sent) /\ shown' = "ERR Tr11"
        BY <2>1, <2>5 DEF End
      <4>2. LastTicks * sent \in Nat
        <5>1. sent = 0 \/ sent = 1 \/ sent = 2
          OBVIOUS
        <5>2. QED BY <5>1 DEF LastTicks
      <4>3. QED BY <4>1, <4>2
    <3>2. fpga' \in FpgaType
      BY <1>t, <3>1, TickType
    <3>3. QED BY <2>2, <3>1, <3>2 DEF TypeOK, StepInv, ShownIsTrue, FpgaType
  <2>6. QED BY <2>1, <2>3, <2>4, <2>5
<1>9. QED BY <1>1, <1>2, <1>3, <1>4, <1>5, <1>6, <1>7, <1>8 DEF LoadFpga

LEMMA LoaderHolds == Spec => []LoaderInv
<1>1. Init => LoaderInv
  <2>1. SUFFICES ASSUME Init PROVE LoaderInv
    OBVIOUS
  <2>2. fpga \in FpgaType /\ image \in Nat /\ 0 \in 0 .. image /\ 0 \in 0 .. ManyTurns
    BY <2>1, ClearedType, LoaderAssumption DEF Init, ManyTurns
  <2>3. QED BY <2>1, <2>2 DEF Init, LoaderInv, TypeOK, StepInv, ShownIsTrue, FpgaType
<1>2. LoaderInv /\ [Next]_vars => LoaderInv'
  <2>1. SUFFICES ASSUME LoaderInv, [Next]_vars PROVE LoaderInv'
    OBVIOUS
  <2>2. CASE HwInit
    <3>1. fpga' \in FpgaType /\ Untouched'
      BY <2>2, ClearedType DEF HwInit, Untouched, FpgaCleared
    <3>2. QED BY <2>1, <2>2, <3>1
              DEF HwInit, LoaderInv, TypeOK, StepInv, ShownIsTrue, FpgaType
  <2>3. CASE LoadFpga
    BY <2>1, <2>3, LoadStep
  <2>4. CASE Restart
    BY <2>1, <2>4 DEF Restart, LoaderInv, TypeOK, StepInv, ShownIsTrue
  <2>5. CASE UNCHANGED vars
    <3>1. TypeOK'
      BY <2>1, <2>5 DEF vars, LoaderInv, TypeOK
    <3>2. StepInv'
      BY <2>1, <2>5 DEF vars, LoaderInv, StepInv, Untouched, Listening
    <3>3. ShownIsTrue'
      BY <2>1, <2>5 DEF vars, LoaderInv, ShownIsTrue, Running, Configured
    <3>4. QED BY <3>1, <3>2, <3>3 DEF LoaderInv
  <2>6. QED BY <2>1, <2>2, <2>3, <2>4, <2>5 DEF Next
<1>3. QED BY <1>1, <1>2, PTL DEF Spec

(* Type correctness: bytes_to_send never leaves 0 .. image                   *)
(* (test-hw/main/hardware.cpp:99-105).                                       *)
THEOREM LoaderTypes == Spec => []TypeOK
<1>1. LoaderInv => TypeOK
  BY DEF LoaderInv
<1>2. QED BY <1>1, LoaderHolds, PTL

(* When the display shows "FPGA Load done" the FPGA runs, and when it shows  *)
(* another message than that or the error of the last transfer the FPGA does *)
(* not run (test-hw/main/hardware.cpp:57-60, 84-116).                        *)
THEOREM DoneMeansRunning == Spec => []ShownIsTrue
<1>1. LoaderInv => ShownIsTrue
  BY DEF LoaderInv
<1>2. QED BY <1>1, LoaderHolds, PTL

(* The FPGA takes in every byte that is sent, once                           *)
(* (test-hw/main/hardware.cpp:94-106).                                       *)
THEOREM NothingLost == Spec => []SentIsTaken
<1>1. LoaderInv => SentIsTaken
  BY DEF LoaderInv, StepInv, Listening, SentIsTaken
<1>2. QED BY <1>1, LoaderHolds, PTL
=============================================================================
