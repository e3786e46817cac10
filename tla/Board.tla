-------------------------------- MODULE Board --------------------------------
(* The bootloader's two tasks that draw: the main task (app_main, then the   *)
(* TFTP server's handlers with their progress indicator) and the event loop  *)
(* task that runs the handlers of wifi_module.cpp.                           *)
EXTENDS Oled

CONSTANTS
    ApRow, StaRow, MsgRow, PiStart, \* OLED_AP_ROW, OLED_STA_ROW, OLED_MSG_ROW, OLED_MSG_PI
    Job,         \* kinds of transfer
    Load,        \* those that load something into the board
    Firmware,    \* the one that loads firmware
    Total,       \* [Job -> total_size of inc_cur_ptr]
    Limit,       \* [Job -> most that can be transferred]
    Blk,         \* most that one block holds
    Word32,      \* 2^32, where cur_ptr * TOTAL_PI wraps
    MaxRetry,    \* reconnects in a row (10)
    MaxIps,      \* bound: addresses obtained
    MaxTransfers \* bound: transfers started

TotalPi == (Rows - PiStart) * Bits * Cols    \* TOTAL_PI, 16*128

ASSUME BoardAssumption ==
    /\ Task = {"main", "event"}
    /\ {ApRow, StaRow, MsgRow, PiStart} \subseteq Nat
    /\ ApRow + 2 < StaRow /\ StaRow + 1 < MsgRow /\ MsgRow < PiStart /\ PiStart < Rows
    /\ Load \subseteq Job /\ Firmware \in Load /\ Total \in [Job -> Nat \ {0}] /\ Limit \in [Job -> Nat]
    /\ Blk \in Nat \ {0} /\ Word32 \in Nat \ {0} /\ MaxRetry \in Nat

(* No transfer is longer than its total_size, and its products either never  *)
(* wrap, as a configuration's, or do with a total_size that divides 2^32 and *)
(* blocks of at most a tick, as those of firmware (4M, 512 * 2048 <= 4M).    *)
ASSUME PaceAssumption ==
    \A j \in Job :
      /\ Limit[j] <= Total[j]
      /\ \/ Limit[j] * TotalPi < Word32
         \/ Word32 % Total[j] = 0 /\ Blk * TotalPi <= Total[j]

VARIABLES
    main,      \* where the main task is: "hw", "wifi", "ap", "msg", "idle",
               \* "move" (between the blocks of a transfer), "last" (behind its
               \* short block), "stopped" (no server) or "reset"
    job,       \* the transfer
    cur,       \* cur_ptr
    left,      \* turns left of inc_cur_ptr's loop
    ticks,     \* history: calls of inc_pi in this transfer
    alone,     \* history: only the indicator drew since this transfer began,
               \* and every I2C transfer of it arrived
    started,   \* transfers started
    sta,       \* the station: "none", "off", "connecting", "connected", "failed"
    retry,     \* s_retry_num
    ips,       \* addresses obtained
    fails      \* history: disconnects since the last address

mainVars == <<main, job, cur, left, ticks, started>>
staVars == <<sta, retry, ips, fails>>
vars == <<oledVars, mainVars, alone, staVars>>

Init ==
    /\ PowerOn
    /\ main = "hw" /\ job = (CHOOSE j \in Job : TRUE) /\ cur = 0 /\ left = 0 /\ ticks = 0
    /\ started = 0 /\ alone = TRUE
    /\ sta = "none" /\ retry = 0 /\ ips = 0 /\ fails = 0

Chars == 1    \* bound: characters in a row of text (up to 21)

(* app_main: hw_init, then load_config and wifi_init.  There is a station if *)
(* there is a configuration with a name of a network.  An error (storage     *)
(* that cannot be erased either, the driver) aborts, which resets the board. *)
HwInit ==
    /\ main = "hw" /\ main' = "wifi" /\ OledInit("main")
    /\ UNCHANGED <<job, cur, left, ticks, started, alone, staVars>>

WifiInit ==
    /\ main = "wifi" /\ Idle("main")
    /\ \/ main' = "ap" /\ sta' \in {"none", "off"}
       \/ main' = "reset" /\ UNCHANGED sta
    /\ UNCHANGED <<oledVars, job, cur, left, ticks, started, alone, retry, ips, fails>>

(* The access point's three rows, then "Waiting for update" or, if the       *)
(* server does not start, two rows of error.                                 *)
DrawAp ==
    /\ main = "ap" /\ main' = "msg"
    /\ Draws("main", DrawRows(ApRow, ApRow + 3, ApText, Chars))
    /\ UNCHANGED <<piVars, job, cur, left, ticks, started, alone, staVars>>

ErrorMsg == DrawRows(MsgRow, MsgRow + 2, MsgText, Chars)
DrawWaiting ==
    /\ main = "msg"
    /\ \/ main' = "idle" /\ Draws("main", DrawRow(MsgRow, MsgText, Chars))
       \/ main' = "stopped" /\ Draws("main", ErrorMsg)
    /\ UNCHANGED <<piVars, job, cur, left, ticks, started, alone, staVars>>

(* on_write and on_read: a refused file has an error message, of two rows;   *)
(* others have one of a row, then start_pi.                                  *)
Refuse ==
    /\ main = "idle"
    /\ Draws("main", ErrorMsg)
    /\ UNCHANGED <<piVars, mainVars, alone, staVars>>

StartTransfer(j) ==
    /\ main = "idle" /\ started < MaxTransfers
    /\ main' = "move" /\ job' = j /\ cur' = 0 /\ left' = 0 /\ ticks' = 0
    /\ started' = started + 1
    /\ alone' = Idle("event")
    /\ StartPi("main", DrawRow(MsgRow, MsgText, Chars), PiStart)
    /\ UNCHANGED staVars

(* inc_cur_ptr after a block of n: the products wrap at 2^32.                *)
At(n) == ((n * TotalPi) % Word32) \div Total[job]
Turns_OneMore(n) == IF At(cur) < At(cur + n) THEN At(cur + n) - At(cur) + 1 ELSE 0
Turns(n) == IF At(cur) < At(cur + n) THEN At(cur + n) - At(cur) ELSE 0

Block(n) ==
    /\ main = "move" /\ Idle("main") /\ left = 0 /\ cur + n <= Limit[job]
    /\ cur' = cur + n /\ left' = Turns(n)
    /\ main' = IF n < Blk THEN "last" ELSE "move"
    /\ UNCHANGED <<oledVars, job, ticks, started, alone, staVars>>

(* on_write_data: flash that cannot be written, or a full buffer.  The       *)
(* message covers the indicator's first row and leaves its address there.    *)
BlockFails(n) ==
    /\ main = "move" /\ job \in Load /\ left = 0
    /\ job = Firmware \/ cur + n > Limit[job]
    /\ Draws("main", ErrorMsg) /\ alone' = FALSE
    /\ main' = IF n < Blk THEN "last" ELSE "move"
    /\ UNCHANGED <<piVars, job, cur, left, ticks, started, staVars>>

Moving == main \in {"move", "last"}

Tick ==
    /\ Moving /\ left > 0
    /\ IncPi("main")
    /\ left' = left - 1 /\ ticks' = ticks + 1
    /\ UNCHANGED <<main, job, cur, started, alone, staVars>>

(* on_close: no message, or one of two rows, an error or success; firmware   *)
(* that verifies also resets the board.                                      *)
EndTransfer ==
    /\ Moving /\ left = 0
    /\ \/ main' = "idle" /\ Draws("main", <<>>)
       \/ /\ main' = "idle" \/ (job = Firmware /\ main' = "reset")
          /\ Draws("main", ErrorMsg)
    /\ UNCHANGED <<piVars, job, cur, left, ticks, started, alone, staVars>>

(* The watchdog's reset, or the user's; the panel keeps what it shows.       *)
Reset ==
    /\ main \in {"reset", "stopped"} /\ Idle("main")
    /\ dev' = FALSE /\ UNCHANGED <<panel, page, col>>
    /\ todo' = [t \in Task |-> <<>>] /\ piRow' = 0 /\ piData' = 0 /\ piCount' = 0
    /\ main' = "hw" /\ sta' = "none" /\ retry' = 0 /\ fails' = 0
    /\ cur' = 0 /\ ticks' = 0
    /\ UNCHANGED <<job, left, started, alone, ips>>

MainStep ==
    \/ HwInit \/ WifiInit \/ DrawAp \/ DrawWaiting \/ Refuse \/ Tick \/ EndTransfer \/ Reset
    \/ \E j \in Job : StartTransfer(j)
    \/ \E n \in 0 .. Blk : Block(n) \/ BlockFails(n)

---------------------------------------------------------------------------
(* The event loop task runs one handler after another.                       *)

StaStart ==
    /\ Idle("event") /\ sta = "off" /\ sta' = "connecting"
    /\ UNCHANGED <<oledVars, mainVars, alone, retry, ips, fails>>

Disconnected ==
    /\ Idle("event") /\ sta \in {"connecting", "connected"}
    /\ IF retry < MaxRetry
         THEN sta' = "connecting" /\ retry' = retry + 1
         ELSE sta' = "failed" /\ UNCHANGED retry
    /\ fails' = fails + 1
    /\ UNCHANGED <<oledVars, mainVars, alone, ips>>

AfterIp_Keep == retry
AfterIp == 0
GotIp ==
    /\ sta \in {"connecting", "connected"} /\ ips < MaxIps
    /\ sta' = "connected" /\ retry' = AfterIp /\ fails' = 0 /\ ips' = ips + 1
    /\ Draws("event", DrawRows(StaRow, StaRow + 2, StaText, Chars))
    /\ alone' = FALSE
    /\ UNCHANGED <<piVars, mainVars>>

Bus == \E t \in Task : Transfer(t) /\ UNCHANGED <<mainVars, alone, staVars>>

BusError ==
    /\ \E t \in Task : TransferFails(t)
    /\ alone' = FALSE /\ UNCHANGED <<mainVars, staVars>>

Next == MainStep \/ StaStart \/ Disconnected \/ GotIp \/ Bus \/ BusError

Spec == Init /\ [][Next]_vars

---------------------------------------------------------------------------
(* Properties.                                                               *)

(* Type invariant.                                                           *)
TypeOK ==
    /\ panel \in [Row -> [Col -> Cell]] /\ page \in Row /\ col \in Col
    /\ DOMAIN todo = Task
    /\ piRow \in Row /\ piData \in 0 .. Bits /\ piCount \in Col
    /\ main \in {"hw", "wifi", "ap", "msg", "idle", "move", "last", "stopped", "reset"}
    /\ job \in Job /\ dev \in BOOLEAN
    /\ cur \in 0 .. Limit[job] /\ left \in 0 .. TotalPi /\ ticks \in 0 .. TotalPi
    /\ sta \in {"none", "off", "connecting", "connected", "failed"}
    /\ retry \in 0 .. MaxRetry

Pixels == {x \in (PiStart .. Rows - 1) \X Col \X (1 .. Bits) : x[3] <= panel[x[1]][x[2]]}

(* Unless something else drew meanwhile, the indicator has a pixel for every *)
(* tick, or one more: its first pass leaves the row's last column out, and   *)
(* the second makes up for it (sd1306.cpp:372-389).                          *)
BarShowsTicks ==
    (dev /\ Moving /\ Idle("main") /\ alone /\ ticks < TotalPi)
      => Cardinality(Pixels) - ticks \in 0 .. 1

(* The indicator keeps pace with the transfer: never ahead of it, and behind *)
(* by at most one tick for every time cur_ptr * TOTAL_PI wraps.              *)
TicksKeepPace ==
    Moving =>
      LET behind == (cur * TotalPi) \div Total[job] - (ticks + left)
      IN  behind >= 0 /\ behind <= (cur * TotalPi) \div Word32

ApRows == ApRow .. ApRow + 2
ApShown == \A r \in ApRows, c \in Col :
    panel[r][c] = IF c < Chars * CharCols THEN ApText ELSE Blank

(* The access point's rows, once drawn and left, are never written again,    *)
(* however the two tasks interleave their transfers and whichever of these   *)
(* fail, until the indicator is full or the board boots again.  Left: the    *)
(* page of the panel is no longer one of these rows; if the first transfer   *)
(* that is to leave them is lost, what follows lands on the last of them.    *)
ApLeft == page \notin ApRows
          /\ \A t \in Task : \A i \in 1 .. Len(todo[t]) : todo[t][i].page \notin ApRows
ApSafe == ApShown /\ ApLeft /\ main \notin {"reset", "hw", "wifi", "ap"}
ApStays ==
    [][(ApSafe /\ ticks' < TotalPi) => (ApSafe' \/ main' \in {"reset", "hw"})]_vars

(* The station is given up only after MaxRetry + 1 disconnects without an    *)
(* address between them (wifi_module.cpp:16, 42).                            *)
StationGivesUpLate == sta = "failed" => fails > MaxRetry

---------------------------------------------------------------------------
(* What the code's documentation says and the code does not do.              *)

(* The layout of hardware.h:10-31 gives the access point rows 0 to 2 and     *)
(* "Progress indicator ..  (16*128 = 2048)" rows 6 and 7: all the ticks of a *)
(* transfer have place there.                                                *)
FullBarKeepsText ==
    [][ApSafe => (ApSafe' \/ main' \in {"reset", "hw"})]_vars
=============================================================================
