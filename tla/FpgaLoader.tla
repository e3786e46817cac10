----------------------------- MODULE FpgaLoader -----------------------------
(* The FPGA loader of the hardware test (test-hw/main/hardware.cpp): pins and *)
(* SPI transfers in the order load_fpga makes them, against an FPGA that is   *)
(* configured over SPI as pins.txt describes (pins.txt:62-75).                *)
EXTENDS Integers

CONSTANTS
    Chunk,      \* bytes sent by one SPI transfer at most
    Images,     \* lengths the image may have
    Needs,      \* SCK ticks behind the image that CDONE may take to rise
    SpiFails    \* whether a transfer may report an error

ASSUME LoaderAssumption ==
    /\ Chunk \in Nat \ {0} /\ Images \subseteq Nat \ {0}
    /\ Needs \subseteq 0 .. 100 /\ SpiFails \in BOOLEAN

DummyTicks == 8      \* what the FPGA waits for in front of the image
StartTicks == 49     \* and behind CDONE
ManyTicks == 149     \* bound: more ticks than these are not told apart
ManyTurns == 13      \* bound: nor more turns of the wait than these

Least(m, n) == IF m < n THEN m ELSE n

VARIABLES
    pc,       \* the next step of load_fpga
    creset,   \* level of PIN_CRESET
    ss,       \* level of PIN_SPI_SS
    left,     \* bytes_to_send
    cnt,
    shown,    \* the row of messages
    image,    \* length of the image
    fpga      \* the FPGA: see FpgaCleared

vars == <<pc, creset, ss, left, cnt, shown, image, fpga>>

(* dummy: ticks in front of the image; got: bytes taken in; after: ticks      *)
(* behind the image; need: those until CDONE; dead: CDONE never rises;        *)
(* stuck: CDONE is high whatever happens.                                     *)
FpgaCleared ==
    [dummy : {0}, got : {0}, after : {0}, need : Needs, dead : BOOLEAN, stuck : BOOLEAN]

Configured == creset = 1 /\ fpga.got = image /\ ~fpga.dead /\ fpga.after >= fpga.need
CDone == fpga.stuck \/ Configured
Running == Configured /\ ~fpga.stuck /\ fpga.after >= fpga.need + StartTicks

(* What the FPGA makes of n ticks, and of n bytes: it takes data while SS is  *)
(* low, once it had its ticks with SS high.                                   *)
Ticks(n) ==
    fpga' = IF ss = 0 THEN fpga
            ELSE IF fpga.dummy < DummyTicks THEN [fpga EXCEPT !.dummy = @ + n]
            ELSE [fpga EXCEPT !.after = Least(@ + n, ManyTicks)]
TakesBytes(n) ==
    fpga' = IF ss = 0 /\ fpga.dummy >= DummyTicks
              THEN [fpga EXCEPT !.got = @ + n] ELSE fpga

Init ==
    /\ pc = "boot" /\ creset = 1 /\ ss = 1 /\ left = 0 /\ cnt = 0 /\ shown = "none"
    /\ image \in Images /\ fpga \in FpgaCleared

(* app_main: the pins are set low, which resets the FPGA.                     *)
HwInit ==
    /\ pc = "boot" /\ pc' = "load"
    /\ creset' = 0 /\ ss' = 0 /\ shown' = "none"
    /\ fpga' \in FpgaCleared
    /\ UNCHANGED <<left, cnt, image>>

Release ==
    /\ pc = "load" /\ pc' = "check" /\ creset' = 1
    /\ UNCHANGED <<ss, left, cnt, shown, image, fpga>>

(* The task goes on to the endless loop of app_main with this message.        *)
End(m) == pc' = "end" /\ shown' = m

SsForDummy_Low == 0
SsForDummy == 1

CheckStuck ==
    /\ pc = "check"
    /\ IF CDone THEN End("CDONE stack") /\ UNCHANGED ss
                ELSE pc' = "dummy" /\ ss' = SsForDummy /\ UNCHANGED shown
    /\ UNCHANGED <<creset, left, cnt, image, fpga>>

SendDummy ==
    /\ pc = "dummy" /\ pc' = "data"
    /\ Ticks(8) /\ ss' = 0 /\ left' = image
    /\ UNCHANGED <<creset, cnt, shown, image>>

Len_Full(n) == Chunk
Len(n) == Least(Chunk, n)

SendData ==
    /\ pc = "data" /\ left > 0
    /\ TakesBytes(Len(left)) /\ left' = left - Len(left)
    /\ UNCHANGED <<pc, creset, ss, cnt, shown, image>>

DataSent ==
    /\ pc = "data" /\ left <= 0 /\ pc' = "wait"
    /\ ss' = 1 /\ cnt' = 0
    /\ UNCHANGED <<creset, left, shown, image, fpga>>

(* ERROR_CHECK reports when its argument is not zero: "++cnt < 13" ends the   *)
(* load in the first turn of the loop, before any of the "Max 100 clocks" of  *)
(* pins.txt:74.  To report, it evaluates its argument a second time.          *)
GivesUp_Never(n) == FALSE
GivesUp(n) == n < 13

WaitDone ==
    /\ pc = "wait" /\ ~CDone
    /\ IF GivesUp(cnt + 1)
         THEN cnt' = Least(cnt + 2, ManyTurns) /\ End("CDONE") /\ UNCHANGED fpga
         ELSE cnt' = Least(cnt + 1, ManyTurns) /\ Ticks(8) /\ UNCHANGED <<pc, shown>>
    /\ UNCHANGED <<creset, ss, left, image>>

LastTicks_Byte == 8
LastTicks == 49

SendLast ==
    /\ pc = "wait" /\ CDone
    /\ Ticks(LastTicks) /\ End("FPGA Load done")
    /\ UNCHANGED <<creset, ss, left, cnt, image>>

(* A transfer reports an error: a message, and the pins stay as they are.     *)
(* ERROR_CHECK evaluates its argument once more inside sprintf, so the        *)
(* transfer is made a second time; of the two, any number reached the FPGA.   *)
SendFails ==
    /\ SpiFails
    /\ \E sent \in {0, 1, 2} :
         \/ pc = "dummy" /\ Ticks(8 * sent) /\ End("ERR")
         \/ pc = "data" /\ left > 0 /\ TakesBytes(Len(left) * sent) /\ End("ERR")
         \/ pc = "wait" /\ CDone /\ Ticks(LastTicks * sent) /\ End("ERR Tr11")
    /\ UNCHANGED <<creset, ss, left, cnt, image>>

(* The ESP32 is reset; the FPGA keeps what it has.                            *)
Restart ==
    /\ pc # "boot" /\ pc' = "boot"
    /\ UNCHANGED <<creset, ss, left, cnt, shown, image, fpga>>

LoadFpga == Release \/ CheckStuck \/ SendDummy \/ SendData \/ DataSent \/ WaitDone
            \/ SendLast \/ SendFails

Next == HwInit \/ LoadFpga \/ Restart

Spec == Init /\ [][Next]_vars /\ WF_vars(HwInit \/ LoadFpga)

---------------------------------------------------------------------------
(* Type invariant: bytes_to_send stays within the image.                      *)
TypeOK ==
    /\ pc \in {"boot", "load", "check", "dummy", "data", "wait", "end"}
    /\ creset \in {0, 1} /\ ss \in {0, 1}
    /\ image \in Images /\ left \in 0 .. image /\ cnt \in 0 .. ManyTurns
    /\ shown \in {"none", "CDONE stack", "CDONE", "ERR", "ERR Tr11",
                  "FPGA Load done"}
    /\ fpga \in [dummy : Nat, got : Nat, after : Nat, need : Needs,
                 dead : BOOLEAN, stuck : BOOLEAN]

(* What the display says of the FPGA, after any number of resets and SPI      *)
(* errors: "FPGA Load done" only when the whole image was taken in, CDONE is  *)
(* high and the 49 ticks behind it were sent, and another message only when   *)
(* the FPGA does not run.  The error of the last transfer says neither: its   *)
(* repetition inside ERROR_CHECK may have started the FPGA                    *)
(* (test-hw/main/hardware.cpp:57-60, 115).                                    *)
ShownIsTrue ==
    pc = "end" => /\ shown = "FPGA Load done" => Running
                  /\ Running => shown \in {"FPGA Load done", "ERR Tr11"}

(* The FPGA has taken in just what was sent: no byte is lost because SS or    *)
(* the dummy byte came at the wrong time, none is sent twice or from behind   *)
(* the image.                                                                 *)
SentIsTaken == pc \in {"data", "wait"} => fpga.got = image - left

(* "wait for CDONE => 1 (still generating clocks). Max 100 clocks"            *)
(* (pins.txt:74): a load is given up only when CDONE does not rise at all,    *)
(* since it rises within 100 ticks if it does (Needs).                        *)
DoneIsAwaited == (pc = "end" /\ shown = "CDONE") => fpga.dead

(* load_fpga returns whatever CDONE does.                                     *)
LoaderEnds == pc \notin {"end", "boot"} ~> pc \in {"end", "boot"}
=============================================================================
