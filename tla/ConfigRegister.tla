--------------------------- MODULE ConfigRegister ---------------------------
(* What the configuration log promises to the rest of the bootloader: a      *)
(* register that survives power losses.  A save that returned is what the    *)
(* next boot hands out, whatever was cut short before it; a save cut short   *)
(* is handed out whole or not at all.                                        *)
CONSTANTS Records, None

VARIABLES
    up,        \* "off"; "on"; "bare": on, without a configuration partition
    reliable,  \* the promise holds: no whole-partition image, failed erase or
               \* overrun log since the last erase
    saved,     \* the record of the last save that returned since the erase
    pending,   \* the record being saved
    tried,     \* records whose save was cut short since then
    active     \* the record in use since the boot

rvars == <<up, reliable, saved, pending, tried, active>>

Init ==
    /\ up = "off" /\ reliable = TRUE
    /\ saved = None /\ pending = None /\ tried = {} /\ active = None

(* The log is no longer one that can be relied on.                           *)
Forget == reliable' = FALSE /\ saved' = None /\ tried' = {}

Kept == UNCHANGED <<reliable, saved, tried>>

Boot ==
    /\ up = "off" /\ up' = "on"
    /\ active' \in IF reliable THEN {saved} \union tried ELSE Records \union {None}
    /\ Kept \/ Forget
    /\ UNCHANGED pending

BootBare == up = "off" /\ up' = "bare" /\ UNCHANGED <<reliable, saved, pending, tried, active>>

Begin ==
    /\ up = "on" /\ pending = None
    /\ pending' \in Records
    /\ UNCHANGED <<up, reliable, saved, tried, active>>

Complete ==
    /\ up = "on" /\ pending # None /\ pending' = None
    /\ IF reliable THEN saved' = pending /\ tried' = {} ELSE UNCHANGED <<saved, tried>>
    /\ UNCHANGED <<up, reliable, active>>

(* The pending record may or may not have got into the log whole.            *)
CutShort == /\ tried' \in {tried, tried \union ({pending} \ {None})}
            /\ UNCHANGED <<reliable, saved>>

Fail ==
    /\ up = "on" /\ pending' = None
    /\ CutShort \/ Forget
    /\ UNCHANGED <<up, active>>

(* The log is erased: to make room for a record, or for a whole image, which *)
(* ends the promise.                                                         *)
Clear ==
    /\ up = "on"
    /\ saved' = None /\ tried' = {} /\ reliable' = (pending # None)
    /\ UNCHANGED <<up, pending, active>>

PowerLoss ==
    /\ up' = "off" /\ active' = None /\ pending' = None
    /\ CutShort

Next == Boot \/ BootBare \/ Begin \/ Complete \/ Fail \/ Clear \/ PowerLoss

Spec == Init /\ [][Next]_rvars
=============================================================================
