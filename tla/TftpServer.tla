----------------------------- MODULE TftpServer -----------------------------
(* The bootloader's TFTP server: tftp_server.cpp with the handlers of        *)
(* tftp_ota_server.cpp.  One task, one socket: a step runs from one blocking *)
(* recvfrom to the next.                                                     *)
EXTENDS TftpNet

CONSTANTS
    MaxCfg,       \* MAX_CFG_SIZE, in units
    CfgSize,      \* cfg_size of the active configuration, 0 if there is none
    HasPartition, \* cfg_full_loaded, and with it cfg_pat
    AsksCrc,      \* clients whose configuration has -1 for its CRC
    MaxFaults     \* bound: errors of the system's calls, and resets

ASSUME ServerAssumption ==
    /\ MaxCfg \in Nat /\ CfgSize \in 0 .. MaxCfg /\ HasPartition \in BOOLEAN
    /\ AsksCrc \subseteq Client /\ MaxFaults \in Nat

VARIABLES
    spc,       \* where the server is: "start" is start(), "stopped" the
               \* endless loop behind its error, "run", "write" and "ack" wait
               \* in a recvfrom, "parse" is parse_rq's loop with a request in
               \* m_buffer, "hung" the same loop with anything else, and
               \* "reboot" the endless loop after a firmware update
    mclient,   \* m_client: the sender of the last datagram received
    job,       \* what TftpOtaServer is doing
    got,       \* ota_cfg_buffer up to cur_ptr, or the firmware written
    block,     \* next_block_num of process_write, block_num of process_read
    cur,       \* cur_ptr of a download
    out,       \* the datagram in m_buffer during a download
    tries,     \* r of process_read's retry loop
    stored,    \* what the last on_close stored, by job
    closed,    \* history: how the last upload was closed
    faults     \* errors and resets so far

serverVars == <<spc, mclient, job, got, block, cur, out, tries, stored, closed, faults>>

NoPkt == Pkt("none", CHOOSE c \in Client : TRUE, 0, <<>>)
Jobs == {"None", "LoadFW", "LoadCfg", "LoadFCfg", "SendCfg", "SendFCfg"}
Loads == {"LoadFW", "LoadCfg", "LoadFCfg"}

ServerInit ==
    /\ spc = "start" /\ mclient = NoPkt.c /\ job = "None" /\ got = <<>>
    /\ block = 1 /\ cur = 0 /\ out = NoPkt /\ tries = 0
    /\ stored = [j \in Loads |-> <<>>] /\ closed = "none"
    /\ faults = 0

(* test_file_name, with the switches of on_write and on_read that refuse.    *)
WriteJob(name) ==
    CASE name = "full.cfg" /\ HasPartition -> "LoadFCfg"
      [] name = ".bin" -> "LoadFW"
      [] name = ".cfg" -> "LoadCfg"
      [] OTHER -> "None"
ReadJob(name) ==
    CASE name = "full.cfg" /\ HasPartition -> "SendFCfg"
      [] name = ".cfg" /\ CfgSize > 0 -> "SendCfg"
      [] OTHER -> "None"

(* What a download of job j sends.                                           *)
Served(j) == Units(j, 1, IF j = "SendCfg" THEN CfgSize ELSE MaxCfg)
ServedBlock_NoClip(j, from) == Units(j, from + 1, from + Blk)
ServedBlock(j, from) ==
    Units(j, from + 1,
          IF from + Blk < Len(Served(j)) THEN from + Blk ELSE Len(Served(j)))

InMail(op) == toServer # <<>> /\ Head(toServer).op = op
Msg == Head(toServer)
Ack_Next(c, n) == Pkt("ACK", c, n + 1, <<>>)
Ack(c, n) == Pkt("ACK", c, n, <<>>)
Err(c) == Pkt("ERROR", c, 0, <<>>)

(* recvfrom takes the next datagram, and its sender becomes m_client.        *)
Receive == toServer' = Tail(toServer) /\ mclient' = Msg.c /\ UNCHANGED <<bound, drops, cst>>

(* The step's calls of the system succeed, or one of them fails.             *)
Outcome(ok) ==
    /\ ok \in BOOLEAN /\ (ok \/ faults < MaxFaults)
    /\ faults' = IF ok THEN faults ELSE faults + 1

---------------------------------------------------------------------------
(* start: without socket or buffer app_main stops; without its port the      *)
(* server runs all the same, where no datagram reaches it.                   *)
StartServer ==
    /\ spc = "start"
    /\ \/ Outcome(TRUE) /\ spc' = "run" /\ bound' = TRUE
       \/ Outcome(FALSE) /\ spc' \in {"run", "stopped"} /\ UNCHANGED bound
    /\ UNCHANGED <<toServer, toClient, drops, cst, mclient, job, got, block, cur, out,
                   tries, stored, closed>>

---------------------------------------------------------------------------
(* on_close.  The first unit of a file is its header.  A configuration is    *)
(* stored if it is as long as its header says and has its CRC, or asks for   *)
(* one, whatever it holds; firmware if it verifies.  A partition image is    *)
(* stored as it is.  With an error nothing is, but if only the switch to the *)
(* new firmware fails the board restarts all the same.                       *)
HeaderOf(c, data) == data # <<>> /\ data[1] = <<c, 1>>

Accepted(j, data) ==
    \/ j = "LoadFCfg"
    \/ \E c \in Client :
         /\ Mode[c] = "send" /\ WriteJob(Name[c]) = j /\ HeaderOf(c, data)
         /\ \/ data = Whole(c)
            \/ j = "LoadCfg" /\ c \in AsksCrc /\ Len(data) = Size[c]
         /\ j = "LoadCfg" => HasPartition

OnClose(how, data, then, ok) ==
    /\ closed' = how
    /\ stored' = IF job \in Loads /\ Accepted(job, data) /\ ok
                   THEN [stored EXCEPT ![job] = data] ELSE stored
    /\ spc' \in IF job = "LoadFW" /\ Accepted(job, data)
                  THEN {"reboot"} \cup (IF ok THEN {} ELSE {then}) ELSE {then}

(* Entering parse_rq with request q: from run, or from its own loop.  No     *)
(* firmware is taken if its partition cannot be prepared.                    *)
StartWrite(q) ==
    /\ job' = WriteJob(Name[q.c])
    /\ got' = <<>> /\ cur' = 0
    /\ \/ /\ (job' = "None" /\ Outcome(TRUE)) \/ (job' = "LoadFW" /\ Outcome(FALSE))
          /\ Send(q.c, <<Err(q.c)>>) /\ spc' = "run" /\ UNCHANGED block
       \/ /\ job' # "None" /\ Outcome(TRUE)
          /\ Send(q.c, <<Ack(q.c, 0)>>) /\ spc' = "write" /\ block' = 1
    /\ UNCHANGED <<out, tries, stored, closed>>

(* m_buffer is sent; if that fails, the download is over.                    *)
SendBlock(c, before) ==
    \E ok \in BOOLEAN :
      /\ Outcome(ok)
      /\ Send(c, IF ok THEN Append(before, out') ELSE before)
      /\ spc' = IF ok THEN "ack" ELSE "run"

StartRead(q) ==
    /\ job' = ReadJob(Name[q.c])
    /\ IF job' = "None"
         THEN /\ Send(q.c, <<Err(q.c)>>) /\ spc' = "run" /\ cur' = 0
              /\ UNCHANGED <<block, out, tries, faults>>
         ELSE /\ out' = Pkt("DATA", q.c, 1, ServedBlock(job', 0))
              /\ SendBlock(q.c, <<>>)
              /\ block' = 1 /\ tries' = 0 /\ cur' = Len(out'.d)
    /\ UNCHANGED <<got, stored, closed>>

StartRequest(q) == IF q.op = "WRQ" THEN StartWrite(q) ELSE StartRead(q)

RunRequest ==
    /\ spc = "run" /\ (InMail("WRQ") \/ InMail("RRQ"))
    /\ Receive /\ StartRequest(Msg)

(* "unknown command": parse_rq returns, its result is still -1.              *)
RunUnknown ==
    /\ spc = "run" /\ (InMail("DATA") \/ InMail("ACK"))
    /\ Receive
    /\ UNCHANGED <<toClient, spc, job, got, block, cur, out, tries, stored, closed, faults>>

(* The request that ended process_write is still in m_buffer.                *)
ParseAgain ==
    /\ spc = "parse"
    /\ StartRequest(out)
    /\ UNCHANGED <<bound, toServer, drops, cst, mclient>>

---------------------------------------------------------------------------
(* process_write.                                                            *)

(* The block is acknowledged first; what on_write_data returns is ignored,   *)
(* also when the flash cannot be written.                                    *)
IsDup_Never(n) == FALSE
IsDup(n) == n < block
Stores_Below(d) == job = "LoadFW" \/ Len(got) + Len(d) < MaxCfg
Stores(d) == job = "LoadFW" \/ Len(got) + Len(d) <= MaxCfg
WriteData(n, d) == IF ~IsDup(n) /\ Stores(d) THEN got \o d ELSE got

WriteBlock ==
    /\ spc = "write" /\ InMail("DATA")
    /\ Receive
    /\ Send(Msg.c, <<Ack(Msg.c, Msg.n)>>)
    /\ \E ok \in BOOLEAN :
         /\ Outcome(ok)
         /\ got' = WriteData(Msg.n, Msg.d) \/ (~ok /\ job = "LoadFW" /\ got' = got)
         /\ IF Len(Msg.d) < Blk THEN OnClose("complete", got', "run", ok)
            ELSE UNCHANGED <<spc, stored, closed>>
    /\ block' = IF IsDup(Msg.n) THEN block ELSE block + 1
    /\ UNCHANGED <<job, cur, out, tries>>

(* A write request before the first block is taken for a repeated one.       *)
WriteRepeat ==
    /\ spc = "write" /\ InMail("WRQ") /\ block = 1
    /\ Receive /\ Send(Msg.c, <<Ack(Msg.c, 0)>>)
    /\ UNCHANGED <<spc, job, got, block, cur, out, tries, stored, closed, faults>>

(* Anything else ends the upload with result 1, and parse_rq's loop goes on  *)
(* with it; the loop never ends on what is not a request.                    *)
WriteBroken ==
    /\ spc = "write"
    /\ \/ InMail("RRQ") \/ InMail("ACK")
       \/ InMail("WRQ") /\ block # 1
    /\ Receive
    /\ \E ok \in BOOLEAN :
         Outcome(ok) /\ OnClose("broken", got, IF InMail("ACK") THEN "hung" ELSE "parse", ok)
    /\ out' = Msg
    /\ UNCHANGED <<toClient, job, got, block, cur, tries>>

WriteTimeout ==
    /\ spc = "write" /\ toServer = <<>>
    /\ \E ok \in BOOLEAN : Outcome(ok) /\ OnClose("timeout", got, "run", ok)
    /\ UNCHANGED <<netVars, mclient, job, got, block, cur, out, tries>>

---------------------------------------------------------------------------
(* process_read: every block is sent at most three times.                    *)

ReadAcked == spc = "ack" /\ InMail("ACK") /\ Msg.n = block

(* on_close has nothing to do after a download.                              *)
ReadNext ==
    /\ ReadAcked /\ Receive
    /\ IF Len(out.d) < Blk
         THEN /\ spc' = "run"
              /\ UNCHANGED <<toClient, block, out, tries, cur, faults>>
         ELSE /\ out' = Pkt("DATA", Msg.c, block + 1, ServedBlock(job, cur))
              /\ SendBlock(Msg.c, <<>>)
              /\ block' = block + 1 /\ tries' = 0 /\ cur' = cur + Len(out'.d)
    /\ UNCHANGED <<job, got, stored, closed>>

(* Send m_buffer again, to whoever was heard last, or give up.               *)
Attempts_NotCounted == tries
Attempts == tries + 1
Resend(c, before, buffer) ==
    /\ out' = [buffer EXCEPT !.c = c]
    /\ tries' = Attempts
    /\ IF Attempts < 3 THEN SendBlock(c, before)
       ELSE Send(c, before) /\ spc' = "run" /\ UNCHANGED faults
    /\ UNCHANGED <<job, got, block, cur, stored, closed>>

(* The wrong ACK leaves m_buffer alone; anything else, and a timeout, is     *)
(* answered with an ERROR that is built in m_buffer, over the block.         *)
ReadWrongAck ==
    /\ spc = "ack" /\ InMail("ACK") /\ Msg.n # block
    /\ Receive
    /\ Resend(Msg.c, <<>>, out)

Clobbered(c) == [out EXCEPT !.op = "ERROR", !.c = c]

ReadNoAck ==
    /\ spc = "ack" /\ toServer # <<>> /\ Msg.op # "ACK"
    /\ Receive
    /\ Resend(Msg.c, <<Err(Msg.c)>>, Clobbered(Msg.c))

ReadTimeout ==
    /\ spc = "ack" /\ toServer = <<>>
    /\ Resend(mclient, <<Err(mclient)>>, Clobbered(mclient))
    /\ UNCHANGED <<bound, toServer, drops, cst, mclient>>

(* The board boots; datagrams waiting for it are lost.  reboot arms the       *)
(* watchdog, which resets it; or the power fails, at any time.               *)
Boot ==
    /\ spc' = "start" /\ bound' = FALSE /\ toServer' = <<>>
    /\ job' = "None" /\ got' = <<>> /\ block' = 1 /\ cur' = 0
    /\ out' = NoPkt /\ tries' = 0 /\ mclient' = NoPkt.c
    /\ UNCHANGED <<toClient, drops, cst, stored, closed>>

Reboot == spc = "reboot" /\ Boot /\ UNCHANGED faults
PowerCycle == Outcome(FALSE) /\ Boot

ServerStep ==
    \/ StartServer \/ RunRequest \/ RunUnknown \/ ParseAgain
    \/ WriteBlock \/ WriteRepeat \/ WriteBroken
    \/ ReadNext \/ ReadWrongAck \/ ReadNoAck \/ Reboot

ServerTimeout == WriteTimeout \/ ReadTimeout
=============================================================================
