----------------------------- MODULE TftpClient -----------------------------
(* TFTPClient of mstd.cfg.py: send (WRQ) and read (RRQ), one run per client. *)
EXTENDS TftpNet

CONSTANT MaxRetry    \* MAX_RETRY_COUNT

ASSUME ClientAssumption == MaxRetry \in Nat \ {0}

VARIABLES
    pktN,     \* pkt_n
    retry,    \* retry_count
    result    \* what read has collected

clientVars == <<pktN, retry, result>>

ClientInit ==
    /\ pktN = [c \in Client |-> IF Mode[c] = "send" THEN 0 ELSE 1]
    /\ retry = [c \in Client |-> 0]
    /\ result = [c \in Client |-> <<>>]

SendToServer(p) == toServer' = Deliver(toServer, p)

Start(c) ==
    /\ cst[c] = "idle"
    /\ cst' = [cst EXCEPT ![c] = "wait"]
    /\ SendToServer(Req(c))
    /\ UNCHANGED <<bound, toClient, drops, pktN, retry, result>>

(* get_answer has a datagram of kind op for client c.                        *)
Answer(c) == Head(toClient[c])
HasAnswer(c, op) == cst[c] = "wait" /\ toClient[c] # <<>> /\ Answer(c).op = op
Consume(c) == /\ toClient' = [toClient EXCEPT ![c] =
                      IF cst'[c] = "wait" THEN Tail(@) ELSE <<>>]
              /\ UNCHANGED <<bound, drops>>
Ends(c, how) == cst' = [cst EXCEPT ![c] = how]

(* Every ERROR ends the run with an assertion.                               *)
RecvError(c) ==
    /\ HasAnswer(c, "ERROR") /\ Ends(c, "failed") /\ Consume(c)
    /\ UNCHANGED <<toServer, pktN, retry, result>>

(* The ACK that releases the next block, and the block read waits for.       *)
Expected_Any(c) == TRUE
Expected(c) == Answer(c).n = pktN[c]

(* send: the run ends as soon as the last, short block is on its way,        *)
(* without waiting for its ACK.                                              *)
SendNext(c) ==
    /\ Mode[c] = "send"
    /\ HasAnswer(c, "ACK") /\ Expected(c)
    /\ pktN' = [pktN EXCEPT ![c] = @ + 1]
    /\ retry' = [retry EXCEPT ![c] = 0]
    /\ LET data == Block(c, Size[c], pktN[c] + 1)
       IN  /\ SendToServer(Pkt("DATA", c, pktN[c] + 1, data))
           /\ IF Len(data) < Blk THEN Ends(c, "done") ELSE UNCHANGED cst
    /\ Consume(c)
    /\ UNCHANGED result

(* read: a block with another number than the expected one is answered with  *)
(* an ACK of the expected block, which has not come yet.                     *)
ReadBlock(c) ==
    /\ Mode[c] = "read"
    /\ HasAnswer(c, "DATA")
    /\ SendToServer(Pkt("ACK", c, pktN[c], <<>>))
    /\ IF Expected(c)
         THEN /\ result' = [result EXCEPT ![c] = @ \o Answer(c).d]
              /\ IF Len(Answer(c).d) < Blk
                   THEN Ends(c, "done") /\ UNCHANGED <<pktN, retry>>
                   ELSE /\ pktN' = [pktN EXCEPT ![c] = @ + 1]
                        /\ retry' = [retry EXCEPT ![c] = 0]
                        /\ UNCHANGED cst
         ELSE UNCHANGED <<cst, clientVars>>
    /\ Consume(c)

(* Anything else is dropped without a word.                                  *)
Ignored(c) ==
    IF Mode[c] = "send"
      THEN HasAnswer(c, "DATA") \/ (HasAnswer(c, "ACK") /\ ~Expected(c))
      ELSE HasAnswer(c, "ACK")

Ignore(c) ==
    Ignored(c) /\ UNCHANGED <<cst, toServer, clientVars>> /\ Consume(c)

(* TimeoutError: give up after MaxRetry in a row, else repeat the request,   *)
(* the last block, or, reading, an ACK of the block that did not come.       *)
Repeat_Request(c) == Req(c)
Repeat(c) ==
    IF Mode[c] = "send"
      THEN IF pktN[c] = 0 THEN Req(c)
           ELSE Pkt("DATA", c, pktN[c], Block(c, Size[c], pktN[c]))
      ELSE IF pktN[c] = 1 THEN Req(c) ELSE Pkt("ACK", c, pktN[c], <<>>)

Tried_NotCounted(c) == retry[c]
Tried(c) == retry[c] + 1

Timeout(c) ==
    /\ cst[c] = "wait" /\ toClient[c] = <<>>
    /\ retry' = [retry EXCEPT ![c] = Tried(c)]
    /\ IF Tried(c) < MaxRetry
         THEN SendToServer(Repeat(c)) /\ UNCHANGED cst
         ELSE Ends(c, "failed") /\ UNCHANGED toServer
    /\ UNCHANGED <<bound, toClient, drops, pktN, result>>

(* The user stops the program.                                               *)
Kill(c) ==
    /\ cst[c] = "wait" /\ Ends(c, "killed")
    /\ toClient' = [toClient EXCEPT ![c] = <<>>]
    /\ UNCHANGED <<bound, toServer, drops, pktN, retry, result>>

ClientStep(c) == RecvError(c) \/ SendNext(c) \/ ReadBlock(c) \/ Ignore(c)
=============================================================================
