------------------------------ MODULE MCBoard ------------------------------
(* Instances of Board for TLC: the panel's eight rows with their real roles, *)
(* but two columns of two pixels, so that the indicator has 8 ticks, and     *)
(* characters of one column.                                                 *)
EXTENDS Board

CONSTANTS loadFW, loadCfg, sendCfg

(* Units of 4096 / 4 bytes, except that firmware has a 16-unit partition of  *)
(* which 12 can be written (4M and 3M), and the products wrap at half of it. *)
MCTotal == [j \in Job |-> CASE j = loadFW -> 16 [] j = loadCfg -> 4 [] j = sendCfg -> 3]
MCLimit == [j \in Job |-> CASE j = loadFW -> 12 [] j = loadCfg -> 4 [] j = sendCfg -> 3]

(* Bounds: a boot after a reset is not followed, nor one whose access point  *)
(* rows the event task has drawn over; the station starts and disconnects    *)
(* only while nothing is drawn and no transfer moves.  Those two steps touch *)
(* nothing the display depends on, and an address may come at any time.      *)
(* Without a panel a transfer is followed only without a station.  A file is *)
(* refused only before the transfer, and a block fails only while nothing    *)
(* else has drawn over the indicator; I2C transfers fail while the first     *)
(* screen is drawn and in downloads of the configuration.                    *)
OneBoot ==
    /\ (dev /\ main = "idle" /\ started = 0) => ApShown
    /\ (~dev /\ started > 0) => sta = "none"
QuietStation ==
    /\ (StaStart \/ Disconnected) =>
         main \in {"ap", "idle"} /\ \A t \in Task : Idle(t)
    /\ (Refuse \/ Reset) => started = 0
    /\ (sta = "none" /\ alone /\ (main = "msg" \/ job = sendCfg)) \/ ~BusError \/ Bus
    /\ (\E n \in 0 .. Blk : BlockFails(n)) => alone

(* Every I2C transfer arrives.                                               *)
AllArrives == QuietStation /\ (BusError => Bus)
=============================================================================
