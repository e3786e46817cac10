------------------------------ MODULE TftpNet ------------------------------
(* The network between the bootloader's TFTP server (one UDP socket) and the *)
(* clients, each a run of mstd.cfg.py moving one file with a socket of its   *)
(* own.  Datagrams keep their order; they may be lost.                       *)
EXTENDS Integers, Sequences

CONSTANTS
    Client,      \* the client runs
    MailBox,     \* datagrams the server's socket holds, the rest is discarded
    Blk,         \* bytes of a full DATA block (TFTP_DATA_SIZE - 4), in units
    Mode,        \* [Client -> {"send", "read"}]
    Name,        \* [Client -> FileName], the name in its request
    Size,        \* [Client -> Nat], units of the file it sends
    MaxDrops     \* bound: datagrams lost

FileName == {"full.cfg", ".cfg", ".bin", "other"}

ASSUME NetAssumption ==
    /\ Client # {} /\ MailBox \in Nat \ {0} /\ Blk \in Nat \ {0} /\ MaxDrops \in Nat
    /\ Mode \in [Client -> {"send", "read"}]
    /\ Name \in [Client -> FileName] /\ Size \in [Client -> Nat]

VARIABLES
    bound,       \* whether the server's socket has got its port
    toServer,    \* datagrams in the server's mailbox
    toClient,    \* [Client -> datagrams on their way to it]
    cst,         \* [Client -> state of the run: "idle", "wait" (in
                 \* get_answer), "done", "failed" or "killed"]; its socket is
                 \* open while it waits
    drops        \* datagrams lost so far

netVars == <<bound, toServer, toClient, drops, cst>>

NetInit ==
    /\ bound = FALSE /\ toServer = <<>> /\ toClient = [c \in Client |-> <<>>] /\ drops = 0
    /\ cst = [c \in Client |-> "idle"]

(* A datagram of client c, in either direction.                              *)
Pkt(op, c, n, d) == [op |-> op, c |-> c, n |-> n, d |-> d]
Req(c) == Pkt(IF Mode[c] = "send" THEN "WRQ" ELSE "RRQ", c, 0, <<>>)

(* Units first .. last of a file, and its n-th block.                        *)
Units(file, first, last) ==
    [i \in 1 .. (IF last < first THEN 0 ELSE last - first + 1) |->
        <<file, first + i - 1>>]
Block(file, size, n) ==
    Units(file, (n - 1) * Blk + 1, IF n * Blk < size THEN n * Blk ELSE size)
Whole(c) == Units(c, 1, Size[c])

Deliver(q, p) == IF bound /\ Len(q) < MailBox THEN Append(q, p) ELSE q

(* Datagrams ps leave for client c; none gets to a socket that is closed.    *)
Send(c, ps) ==
    toClient' = [toClient EXCEPT ![c] = IF cst[c] = "wait" THEN @ \o ps ELSE @]

DropToServer ==
    /\ drops < MaxDrops /\ toServer # <<>>
    /\ \E i \in 1 .. Len(toServer) :
         toServer' = SubSeq(toServer, 1, i - 1)
                       \o SubSeq(toServer, i + 1, Len(toServer))
    /\ drops' = drops + 1 /\ UNCHANGED <<bound, toClient, cst>>

DropToClient(c) ==
    /\ drops < MaxDrops /\ toClient[c] # <<>>
    /\ toClient' = [toClient EXCEPT ![c] = Tail(@)]
    /\ drops' = drops + 1 /\ UNCHANGED <<bound, toServer, cst>>

Drop == DropToServer \/ \E c \in Client : DropToClient(c)
=============================================================================
