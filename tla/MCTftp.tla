------------------------------ MODULE MCTftp ------------------------------
(* Instances of TftpSystem for TLC.  A block is two units, the partition two *)
(* blocks, so that a partition image ends with an empty block (4096 is a     *)
(* multiple of 512), and so does sendCfg's configuration, which fills the    *)
(* buffer and asks for its CRC; firmware ends with a short one; sendLong's   *)
(* configuration is longer than the buffer.                                  *)
EXTENDS TftpRefinement

CONSTANTS sendCfg, sendFull, sendFw, sendLong, sendOther, readCfg, readFull

MCMode == [c \in Client |->
    IF c \in {readCfg, readFull} THEN "read" ELSE "send"]
MCName == [c \in Client |->
    CASE c \in {sendCfg, sendLong, readCfg} -> ".cfg"
      [] c \in {sendFull, readFull} -> "full.cfg"
      [] c = sendFw -> ".bin"
      [] OTHER -> "other"]
MCSize == [c \in Client |->
    CASE c \in {sendFull, sendCfg} -> MaxCfg [] c \in {sendFw, sendLong} -> 5 [] OTHER -> 3]
=============================================================================
