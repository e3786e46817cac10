----------------------- MODULE TftpRefinement_proofs -----------------------
(* One transfer after another: why a run that was not hurried fails, and     *)
(* that server, network and tool implement the service of FileService, for   *)
(* every size of a block, a mailbox and a file, and any number of clients,   *)
(* losses and retries.                                                       *)
EXTENDS TftpRefinement, TftpTransfers_proofs

---------------------------------------------------------------------------
(* First part: what is under way between a client that waits, of a run that  *)
(* was not hurried, and the server: at most one datagram.                    *)
Nothing(c) == toServer = <<>> /\ toClient[c] = <<>>
AtServer(c, p) == toServer = <<p>> /\ toClient[c] = <<>>
AtClient(c, p) == toServer = <<>> /\ toClient[c] = <<p>>

(* No call failed, no timeout came early and the run was not hurried; of     *)
(* what a reader needs nothing was lost, of what a sender needs less than    *)
(* makes the server give up.                                                 *)
OnTime(c) ==
    /\ faults = 0 /\ early = 0 /\ ~hurried
    /\ IF Mode[c] = "read" THEN drops = 0 ELSE drops < Patience

(* The server is at the sender's block or behind it, and every retry since   *)
(* the last ACK had a loss before it; the server has waited no longer.       *)
SenderInStep(c) ==
    /\ spc = "write" => waited[c] <= retry[c]
    /\ \/ spc = "run" /\ pktN[c] = 0
       \/ spc = "write" /\ block \in {pktN[c], pktN[c] + 1}
    /\ pktN[c] # 0 => ~(Len(Block(c, Size[c], pktN[c])) < Blk)
    /\ \/ Nothing(c) /\ retry[c] < drops
       \/ AtServer(c, Repeat(c)) /\ retry[c] <= drops
       \/ AtClient(c, Err(c)) /\ Refused(c) /\ retry[c] <= drops
       \/ AtClient(c, Ack(c, pktN[c])) /\ spc = "write" /\ block = pktN[c] + 1
          /\ retry[c] <= drops /\ waited[c] = 0

(* A reader waits for the block that the server sends next, or has sent.     *)
ReaderInStep(c) ==
    \/ AtServer(c, Req(c)) /\ spc = "run" /\ pktN[c] = 1
    \/ AtServer(c, Ack(c, block)) /\ spc = "ack" /\ pktN[c] = block + 1 /\ ~(Len(out.d) < Blk)
    \/ AtClient(c, Err(c)) /\ Refused(c) /\ spc = "run"
    \/ /\ AtClient(c, out) /\ spc = "ack" /\ waited[c] = 0
       /\ out.op = "DATA" /\ out.n = block /\ pktN[c] = block

Together(c) ==
    /\ bound
    /\ Mode[c] = "send" => SenderInStep(c)
    /\ Mode[c] = "read" => ReaderInStep(c)

Fresh(c) == cst[c] = "idle" => retry[c] = 0

ServerBound == faults = 0 /\ spc # "start" => bound

RetriesInv ==
    /\ ServerBound
    /\ \A c \in Client : Fresh(c)
    /\ \A c \in Client : OnTime(c) /\ cst[c] = "wait" => Together(c)

---------------------------------------------------------------------------
(* Datagrams that come one by one.                                           *)

LEMMA OneOf ==
    ASSUME NEW S, NEW p \in S
    PROVE  /\ <<p>> \in Seq(S) /\ <<p>> # <<>> /\ Head(<<p>>) = p /\ Tail(<<p>>) = <<>>
           /\ <<>> \o <<p>> = <<p>> /\ Append(<<>>, p) = <<p>> /\ Len(<<>>) = 0
OBVIOUS

LEMMA ServerAnswers ==
    ASSUME Types, NEW c \in Client, cst[c] = "wait", NEW q \in Datum, NEW p \in Datum,
           AtServer(c, q), Receive, Send(c, <<p>>)
    PROVE  AtClient(c, p)' /\ Msg = q
<1>1. toServer' = Tail(toServer) /\ toServer = <<q>> /\ toClient[c] = <<>>
  BY DEF Receive, AtServer
<1>2. toClient'[c] = toClient[c] \o <<p>>
  BY DEF Send, Types, NetTypes
<1>3. Tail(<<q>>) = <<>> /\ Head(<<q>>) = q
  BY OneOf
<1>4. <<>> \o <<p>> = <<p>>
  BY OneOf
<1>5. toServer' = <<>> /\ toClient'[c] = <<p>> /\ Msg = q
  BY ONLY <1>1, <1>2, <1>3, <1>4 DEF Msg
<1>6. QED BY <1>5 DEF AtClient

LEMMA ClientAnswers ==
    ASSUME Types, NEW c \in Client, NEW q \in Datum, NEW p \in Datum, bound,
           AtClient(c, q), Consume(c), SendToServer(p)
    PROVE  AtServer(c, p)'
<1>1. toServer = <<>> /\ toClient[c] = <<q>>
  BY DEF AtClient
<1>2. toServer' = <<p>>
  <2>1. Len(<<>>) < MailBox /\ Append(<<>>, p) = <<p>>
    BY Sizes, OneOf
  <2>2. toServer' = Deliver(<<>>, p)
    BY <1>1 DEF SendToServer
  <2>3. QED BY ONLY <2>1, <2>2, bound DEF Deliver
<1>3. toClient'[c] = IF cst'[c] = "wait" THEN Tail(toClient[c]) ELSE <<>>
  BY DEF Consume, Types, NetTypes
<1>4. Tail(<<q>>) = <<>>
  BY OneOf
<1>5. toClient'[c] = <<>>
  BY ONLY <1>1, <1>3, <1>4
<1>6. QED BY <1>2, <1>5 DEF AtServer

LEMMA ClientRepeats ==
    ASSUME NEW c \in Client, NEW p \in Datum, bound, Nothing(c), UNCHANGED toClient,
           SendToServer(p)
    PROVE  AtServer(c, p)'
<1>1. Len(<<>>) < MailBox /\ Append(<<>>, p) = <<p>>
  BY Sizes, OneOf
<1>2. toServer' = Deliver(<<>>, p) /\ toClient'[c] = <<>>
  BY DEF SendToServer, Nothing
<1>3. toServer' = <<p>>
  BY ONLY <1>1, <1>2, bound DEF Deliver
<1>4. QED BY <1>2, <1>3 DEF AtServer

(* The network loses what there is.                                          *)
LEMMA LosesIt ==
    ASSUME Types, Inboxes, NEW c \in Client, \A d \in Client : d # c => cst[d] # "wait", Drop
    PROVE  /\ ~Nothing(c)
           /\ \A p \in Datum : AtServer(c, p) \/ AtClient(c, p) => Nothing(c)'
           /\ drops' = drops + 1 /\ UNCHANGED <<bound, cst>>
<1>1. \A d \in Client : d # c => toClient[d] = <<>>
  BY DEF Inboxes
<1>2. CASE DropToServer
  <2>1. PICK i \in 1 .. Len(toServer) :
          /\ toServer' = SubSeq(toServer, 1, i - 1) \o SubSeq(toServer, i + 1, Len(toServer))
          /\ toServer # <<>> /\ drops' = drops + 1 /\ UNCHANGED <<bound, toClient, cst>>
    BY <1>2 DEF DropToServer
  <2>2. ASSUME NEW p \in Datum, AtServer(c, p) PROVE Nothing(c)'
    <3>1. toServer = <<p>> /\ toClient'[c] = <<>>
      BY <2>1, <2>2 DEF AtServer
    <3>2. Len(<<p>>) = 1 /\ i = 1
      BY <2>1, <3>1
    <3>3. SubSeq(<<p>>, 1, 1 - 1) \o SubSeq(<<p>>, 1 + 1, 1) = <<>>
      <4>1. <<p>> \in Seq(Datum)
        OBVIOUS
      <4>2. SubSeq(<<p>>, 1, 1 - 1) = <<>> /\ SubSeq(<<p>>, 1 + 1, 1) = <<>>
        BY <4>1
      <4>3. QED BY <4>2
    <3>4. toServer' = <<>>
      BY ONLY <2>1, <3>1, <3>2, <3>3
    <3>5. QED BY <3>1, <3>4 DEF Nothing
  <2>3. ASSUME NEW p \in Datum PROVE ~AtClient(c, p)
    BY <2>1 DEF AtClient
  <2>4. QED BY <2>1, <2>2, <2>3 DEF Nothing
<1>3. CASE \E d \in Client : DropToClient(d)
  <2>1. PICK d \in Client : DropToClient(d)
    BY <1>3
  <2>2. /\ toClient[d] # <<>> /\ toClient' = [toClient EXCEPT ![d] = Tail(@)]
        /\ drops' = drops + 1 /\ UNCHANGED <<bound, toServer, cst>>
    BY <2>1 DEF DropToClient
  <2>3. d = c /\ toClient'[c] = Tail(toClient[c])
    BY <1>1, <2>2 DEF Types, NetTypes
  <2>4. ASSUME NEW p \in Datum, AtClient(c, p) PROVE Nothing(c)'
    <3>1. Tail(<<p>>) = <<>>
      BY OneOf
    <3>2. QED BY <2>2, <2>3, <2>4, <3>1 DEF AtClient, Nothing
  <2>5. ASSUME NEW p \in Datum PROVE ~AtServer(c, p)
    BY <2>2, <2>3 DEF AtServer
  <2>6. QED BY <2>2, <2>3, <2>4, <2>5 DEF Nothing
<1>4. QED BY <1>2, <1>3 DEF Drop

---------------------------------------------------------------------------
(* Steps of the server while a client waits.                                 *)

(* What the server can do while it waits for a datagram.                     *)
LEMMA ServerSteps ==
    ASSUME ServerStep, spc \in {"run", "write", "ack"}
    PROVE  /\ toServer # <<>>
           /\ \/ spc = "run" /\ RunRequest /\ Msg.op \in {"WRQ", "RRQ"}
              \/ spc = "run" /\ RunUnknown /\ Msg.op \in {"DATA", "ACK"}
              \/ spc = "write" /\ WriteBlock /\ Msg.op = "DATA"
              \/ spc = "write" /\ WriteRepeat /\ Msg.op = "WRQ" /\ block = 1
              \/ spc = "write" /\ WriteBroken
                 /\ (Msg.op \in {"RRQ", "ACK"} \/ (Msg.op = "WRQ" /\ block # 1))
              \/ spc = "ack" /\ ReadNext /\ Msg.op = "ACK" /\ Msg.n = block
              \/ spc = "ack" /\ ReadWrongAck /\ Msg.op = "ACK" /\ Msg.n # block
              \/ spc = "ack" /\ ReadNoAck /\ Msg.op # "ACK"
<1>1. ~StartServer /\ ~ParseAgain /\ ~Reboot
  BY DEF StartServer, ParseAgain, Reboot
<1>2. CASE RunRequest
  BY <1>2, InMailType DEF RunRequest
<1>3. CASE RunUnknown
  BY <1>3, InMailType DEF RunUnknown
<1>4. CASE WriteBlock
  BY <1>4, InMailType DEF WriteBlock
<1>5. CASE WriteRepeat
  BY <1>5, InMailType DEF WriteRepeat
<1>6. CASE WriteBroken
  BY <1>6, InMailType DEF WriteBroken
<1>7. CASE ReadNext
  BY <1>7, InMailType DEF ReadNext, ReadAcked
<1>8. CASE ReadWrongAck
  BY <1>8, InMailType DEF ReadWrongAck
<1>9. CASE ReadNoAck
  BY <1>9 DEF ReadNoAck
<1>10. QED BY <1>1, <1>2, <1>3, <1>4, <1>5, <1>6, <1>7, <1>8, <1>9 DEF ServerStep

LEMMA OkOutcome == ASSUME NEW ok, Outcome(ok), faults \in Nat, faults' = 0 PROVE ok = TRUE
BY DEF Outcome

LEMMA Repeats ==
    ASSUME Types, NEW c \in Client, Mode[c] = "send"
    PROVE  /\ Repeat(c) \in Datum /\ Repeat(c).c = c
           /\ pktN[c] = 0 => Repeat(c).op = "WRQ"
           /\ pktN[c] # 0 => /\ Repeat(c).op = "DATA" /\ Repeat(c).n = pktN[c]
                             /\ Repeat(c).d = Block(c, Size[c], pktN[c])
BY RepeatType DEF Repeat, Req, Pkt

LEMMA UploadServed ==
    ASSUME Types, NEW c \in Client, Mode[c] = "send", cst[c] = "wait", SenderInStep(c),
           ServerStep, faults = 0, faults' = 0, UNCHANGED clientVars,
           waited' = [d \in Client |-> 0]
    PROVE  SenderInStep(c)' /\ UNCHANGED bound
<1>1. /\ block \in Nat \ {0} /\ pktN[c] \in Nat /\ retry[c] \in Nat /\ drops \in Nat
      /\ faults \in Nat
  BY Sizes DEF Types, ServerTypes, ClientTypes, NetTypes
<1>2. /\ spc \in {"run", "write"}
      /\ spc = "run" => pktN[c] = 0
      /\ spc = "write" => block \in {pktN[c], pktN[c] + 1}
  BY DEF SenderInStep
<1>3. /\ toServer # <<>>
      /\ RunRequest \/ RunUnknown \/ WriteBlock \/ WriteRepeat \/ WriteBroken
      /\ RunUnknown => spc = "run" /\ Msg.op \in {"DATA", "ACK"}
      /\ WriteBroken => spc = "write" /\ (Msg.op \in {"RRQ", "ACK"} \/ (Msg.op = "WRQ" /\ block # 1))
  <2>1. spc = "run" \/ spc = "write"
    BY <1>2
  <2>2. RunUnknown => spc = "run" /\ Msg.op \in {"DATA", "ACK"}
    BY InMailType DEF RunUnknown
  <2>3. WriteBroken => spc = "write" /\ (Msg.op \in {"RRQ", "ACK"} \/ (Msg.op = "WRQ" /\ block # 1))
    BY InMailType DEF WriteBroken
  <2>4. QED BY <2>1, <2>2, <2>3, ServerSteps
<1>4. SenderInStep(c)' /\ UNCHANGED bound
  <2>1. AtServer(c, Repeat(c)) /\ retry[c] <= drops
    BY <1>3 DEF SenderInStep, Nothing, AtClient
  <2>2. /\ Repeat(c) \in Datum /\ Repeat(c).c = c
        /\ pktN[c] = 0 => Repeat(c).op = "WRQ"
        /\ pktN[c] # 0 => /\ Repeat(c).op = "DATA" /\ Repeat(c).n = pktN[c]
                          /\ Repeat(c).d = Block(c, Size[c], pktN[c])
    BY Repeats
  <2>3. Msg = Repeat(c)
    BY <2>1, <2>2, OneOf DEF Msg, AtServer
  <2>4. UNCHANGED <<pktN, retry>> /\ waited'[c] = 0 /\ 0 <= retry[c]
    BY <1>1 DEF clientVars
  <2>5. ASSUME NEW p \in Datum, Receive, Send(c, <<p>>), spc' = "write" \/ pktN[c] = 0,
               \/ spc' = "write" /\ block' = pktN[c] + 1 /\ p = Ack(c, pktN[c])
               \/ spc' = "run" /\ pktN[c] = 0 /\ p = Err(c) /\ Refused(c)
        PROVE  SenderInStep(c)' /\ UNCHANGED bound
    <3>1. AtClient(c, p)' /\ UNCHANGED <<bound, drops>>
      BY <2>1, <2>2, <2>5, ServerAnswers DEF Receive
    <3>2. pktN[c] # 0 => ~(Len(Block(c, Size[c], pktN[c])) < Blk)
      BY DEF SenderInStep
    <3>3. CASE spc' = "write" /\ block' = pktN[c] + 1 /\ p = Ack(c, pktN[c])
      BY <2>1, <2>4, <3>1, <3>2, <3>3 DEF SenderInStep, AtClient, Ack
    <3>4. CASE spc' = "run" /\ pktN[c] = 0 /\ p = Err(c) /\ Refused(c)
      BY <2>1, <2>4, <3>1, <3>4 DEF SenderInStep, AtClient, Err, Refused
    <3>5. QED BY <2>5, <3>3, <3>4
  <2>6. CASE RunRequest
    <3>1. Receive /\ StartRequest(Msg) /\ pktN[c] = 0
      BY <1>2, <2>6 DEF RunRequest
    <3>2. StartWrite(Msg) /\ Msg.c = c
      BY <2>2, <2>3, <3>1 DEF StartRequest
    <3>3. \/ /\ WriteJob(Name[c]) = "None"
             /\ Send(c, <<Err(c)>>) /\ spc' = "run"
          \/ Send(c, <<Ack(c, 0)>>) /\ spc' = "write" /\ block' = 1
      <4>1. ~Outcome(FALSE)
        BY <1>1, OkOutcome
      <4>2. QED BY <3>2, <4>1, Zenon DEF StartWrite
    <3>4. Err(c) \in Datum /\ Ack(c, 0) \in Datum /\ 1 = 0 + 1
      BY Replies
    <3>5. CASE WriteJob(Name[c]) = "None" /\ Send(c, <<Err(c)>>) /\ spc' = "run"
      BY <2>5, <3>1, <3>4, <3>5 DEF Refused
    <3>6. CASE Send(c, <<Ack(c, 0)>>) /\ spc' = "write" /\ block' = 1
      BY <2>5, <3>1, <3>4, <3>6
    <3>7. QED BY <3>3, <3>5, <3>6
  <2>7. CASE WriteRepeat
    <3>1. /\ Receive /\ Send(c, <<Ack(c, 0)>>) /\ block = 1 /\ Msg.op = "WRQ"
          /\ UNCHANGED <<spc, block>> /\ spc = "write"
      BY <2>2, <2>3, <2>7, InMailType DEF WriteRepeat
    <3>2. pktN[c] = 0
      BY <2>2, <2>3, <3>1
    <3>3. Ack(c, 0) \in Datum /\ block' = 0 + 1 /\ spc' = "write"
      BY <3>1, Replies
    <3>4. QED BY <2>5, <3>1, <3>2, <3>3
  <2>8. CASE WriteBlock
    <3>1. /\ Receive /\ Send(Msg.c, <<Ack(Msg.c, Msg.n)>>) /\ Msg.op = "DATA" /\ spc = "write"
          /\ block' = IF IsDup(Msg.n) THEN block ELSE block + 1
          /\ Len(Msg.d) < Blk \/ UNCHANGED spc
      BY <2>8, InMailType DEF WriteBlock
    <3>2. /\ pktN[c] # 0 /\ Msg.c = c /\ Msg.n = pktN[c]
          /\ Msg.d = Block(c, Size[c], pktN[c])
      BY <2>2, <2>3, <3>1
    <3>3. ~(Len(Msg.d) < Blk)
      BY <3>2 DEF SenderInStep
    <3>4. block' = pktN[c] + 1
      <4>1. block' = IF pktN[c] < block THEN block ELSE block + 1
        BY <3>1, <3>2 DEF IsDup
      <4>2. QED BY <1>1, <1>2, <3>1, <4>1
    <3>5. Ack(c, pktN[c]) \in Datum
      BY <1>1, Replies
    <3>6. QED BY <2>5, <3>1, <3>2, <3>3, <3>4, <3>5
  <2>9. ~RunUnknown
    BY <1>2, <1>3, <2>2, <2>3
  <2>10. ~WriteBroken
    <3>1. Msg.op \in {"WRQ", "DATA"} /\ (Msg.op = "WRQ" => pktN[c] = 0)
      BY <2>2, <2>3
    <3>2. pktN[c] = 0 /\ spc = "write" => block = 1
      BY <1>1, <1>2
    <3>3. QED BY <1>3, <3>1, <3>2
  <2>11. QED BY <1>3, <2>6, <2>7, <2>8, <2>9, <2>10
<1>5. QED BY <1>4

(* Steps of the server while a reader waits.                                 *)
LEMMA BlockSent ==
    ASSUME NEW c \in Client, SendBlock(c, <<>>), faults \in Nat, faults' = 0
    PROVE  Send(c, <<out'>>) /\ spc' = "ack"
<1>1. PICK ok \in BOOLEAN :
        /\ Outcome(ok) /\ Send(c, IF ok THEN Append(<<>>, out') ELSE <<>>)
        /\ spc' = IF ok THEN "ack" ELSE "run"
  BY DEF SendBlock
<1>2. ok = TRUE
  BY <1>1, OkOutcome
<1>3. Append(<<>>, out') = <<out'>>
  OBVIOUS
<1>4. QED BY <1>1, <1>2, <1>3

LEMMA DownloadServed ==
    ASSUME Types, NEW c \in Client, Mode[c] = "read", cst[c] = "wait", ReaderInStep(c),
           ServerStep, faults' = 0, UNCHANGED clientVars, waited' = [d \in Client |-> 0]
    PROVE  ReaderInStep(c)' /\ UNCHANGED bound
<1>1. /\ block \in Nat \ {0} /\ pktN[c] \in Nat /\ UNCHANGED pktN
      /\ faults \in Nat /\ waited'[c] = 0
  BY Sizes DEF Types, ServerTypes, ClientTypes, clientVars
<1>2. spc = "run" \/ spc = "ack"
  BY DEF ReaderInStep
<1>3. /\ toServer # <<>>
      /\ RunRequest \/ RunUnknown \/ ReadNext \/ ReadWrongAck \/ ReadNoAck
      /\ RunUnknown => spc = "run" /\ Msg.op \in {"DATA", "ACK"}
      /\ ReadWrongAck => spc = "ack" /\ Msg.n # block
      /\ ReadNoAck => spc = "ack" /\ Msg.op # "ACK"
  <2>1. RunUnknown => spc = "run" /\ Msg.op \in {"DATA", "ACK"}
    BY InMailType DEF RunUnknown
  <2>2. /\ ReadWrongAck => spc = "ack" /\ Msg.n # block
        /\ ReadNoAck => spc = "ack" /\ Msg.op # "ACK"
    BY DEF ReadWrongAck, ReadNoAck
  <2>3. QED BY <1>2, <2>1, <2>2, ServerSteps
<1>4. Req(c) \in Datum /\ Req(c).op = "RRQ" /\ Req(c).c = c /\ Err(c) \in Datum
  BY Replies DEF Req, Pkt
<1>5. Ack(c, block) \in Datum /\ Ack(c, block).op = "ACK" /\ Ack(c, block).n = block
      /\ Ack(c, block).c = c
  BY <1>1, Replies DEF Ack, Pkt
<1>6. CASE AtServer(c, Req(c)) /\ spc = "run" /\ pktN[c] = 1
  <2>1. Msg = Req(c)
    BY <1>4, <1>6, OneOf DEF Msg, AtServer
  <2>2. RunRequest
    <3>1. ~ReadNext
      BY <1>6 DEF ReadNext, ReadAcked
    <3>2. QED BY <1>3, <1>4, <1>6, <2>1, <3>1
  <2>3. Receive /\ StartRead(Msg) /\ Msg.c = c
    BY <1>4, <2>1, <2>2 DEF RunRequest, StartRequest
  <2>4. CASE job' = "None"
    <3>1. Refused(c) /\ Send(c, <<Err(c)>>) /\ spc' = "run"
      BY <2>3, <2>4 DEF StartRead, Refused
    <3>2. AtClient(c, Err(c))' /\ UNCHANGED bound
      BY <1>4, <1>6, <2>3, <3>1, ServerAnswers DEF Receive, AtClient, Err
    <3>3. QED BY <3>1, <3>2 DEF ReaderInStep, Refused
  <2>5. CASE job' # "None"
    <3>1. /\ out' = Pkt("DATA", c, 1, ServedBlock(job', 0)) /\ Send(c, <<out'>>)
          /\ spc' = "ack" /\ block' = 1
      <4>1. /\ out' = Pkt("DATA", c, 1, ServedBlock(job', 0)) /\ SendBlock(c, <<>>)
            /\ block' = 1
        BY <2>3, <2>5 DEF StartRead
      <4>2. QED BY <1>1, <4>1, BlockSent
    <3>2. PICK p \in Datum : p = out'
      BY ServerType DEF ServerKeeps, ServerTypes
    <3>3. AtClient(c, p)' /\ UNCHANGED bound
      BY <1>4, <1>6, <2>3, <3>1, <3>2, ServerAnswers DEF Receive
    <3>4. out'.op = "DATA" /\ out'.n = 1
      BY <3>1 DEF Pkt
    <3>5. QED BY <1>1, <1>6, <3>1, <3>2, <3>3, <3>4 DEF ReaderInStep, AtClient
  <2>6. QED BY <2>4, <2>5
<1>7. CASE AtServer(c, Ack(c, block)) /\ spc = "ack" /\ pktN[c] = block + 1 /\ ~(Len(out.d) < Blk)
  <2>1. Msg = Ack(c, block)
    BY <1>5, <1>7, OneOf DEF Msg, AtServer
  <2>2. ReadNext
    <3>1. ~RunRequest
      BY <1>7 DEF RunRequest
    <3>2. QED BY <1>3, <1>5, <1>7, <2>1, <3>1
  <2>3. /\ Receive /\ out' = Pkt("DATA", c, block + 1, ServedBlock(job, cur))
        /\ Send(c, <<out'>>) /\ block' = block + 1 /\ spc' = "ack"
    <3>1. /\ Receive /\ out' = Pkt("DATA", c, block + 1, ServedBlock(job, cur))
          /\ SendBlock(c, <<>>) /\ block' = block + 1
      BY <1>5, <1>7, <2>1, <2>2 DEF ReadNext
    <3>2. QED BY <1>1, <3>1, BlockSent
  <2>4. PICK p \in Datum : p = out'
    BY ServerType DEF ServerKeeps, ServerTypes, ServerStep
  <2>5. AtClient(c, p)' /\ UNCHANGED bound
    BY <1>5, <1>7, <2>3, <2>4, ServerAnswers DEF Receive
  <2>6. out'.op = "DATA" /\ out'.n = block + 1
    BY <2>3 DEF Pkt
  <2>7. QED BY <1>1, <1>7, <2>3, <2>4, <2>5, <2>6 DEF ReaderInStep, AtClient
<1>8. QED BY <1>3, <1>6, <1>7 DEF ReaderInStep, AtClient

---------------------------------------------------------------------------
(* Steps of the client that waits.                                           *)

LEMMA UploadGoesOn ==
    ASSUME Types, NEW c \in Client, Mode[c] = "send", cst[c] = "wait", SenderInStep(c), bound,
           ClientStep(c), UNCHANGED serverVars, UNCHANGED waited
    PROVE  /\ UNCHANGED bound
           /\ cst'[c] = "wait" => SenderInStep(c)'
           /\ cst'[c] = "failed" => Refused(c)
<1>1. /\ block \in Nat \ {0} /\ pktN \in [Client -> Nat] /\ retry \in [Client -> Nat]
      /\ drops \in Nat /\ pktN[c] \in Nat /\ UNCHANGED <<spc, block, waited>>
  BY Sizes DEF Types, ServerTypes, ClientTypes, NetTypes, serverVars
<1>2. Err(c) \in Datum /\ Err(c).op = "ERROR" /\ Ack(c, pktN[c]) \in Datum
      /\ Ack(c, pktN[c]).op = "ACK" /\ Ack(c, pktN[c]).n = pktN[c]
  BY <1>1, Replies DEF Err, Ack, Pkt
<1>3. toClient[c] # <<>>
  BY DEF ClientStep, RecvError, SendNext, ReadBlock, Ignore, Ignored, HasAnswer
<1>4. \/ AtClient(c, Err(c)) /\ Refused(c) /\ retry[c] <= drops
      \/ AtClient(c, Ack(c, pktN[c])) /\ spc = "write" /\ block = pktN[c] + 1 /\ waited[c] = 0
  BY <1>3 DEF SenderInStep, Nothing, AtServer
<1>5. CASE AtClient(c, Err(c)) /\ Refused(c)
  <2>1. Answer(c) = Err(c)
    BY <1>2, <1>5, OneOf DEF Answer, AtClient
  <2>2. RecvError(c)
    BY <1>2, <2>1 DEF ClientStep, SendNext, ReadBlock, Ignore, Ignored, HasAnswer
  <2>3. cst'[c] = "failed" /\ UNCHANGED bound
    BY <2>2, EndsType DEF RecvError, Consume
  <2>4. QED BY <1>5, <2>3
<1>6. CASE AtClient(c, Ack(c, pktN[c])) /\ spc = "write" /\ block = pktN[c] + 1 /\ waited[c] = 0
  <2>1. Answer(c) = Ack(c, pktN[c])
    BY <1>2, <1>6, OneOf DEF Answer, AtClient
  <2>2. SendNext(c)
    BY <1>2, <2>1 DEF ClientStep, RecvError, ReadBlock, Ignore, Ignored, HasAnswer, Expected
  <2>3. PICK k \in Nat \ {0} : k = pktN[c] + 1
    BY <1>1
  <2>4. /\ pktN'[c] = k /\ retry'[c] = 0 /\ Consume(c) /\ UNCHANGED <<bound, drops>>
        /\ SendToServer(Pkt("DATA", c, k, Block(c, Size[c], k)))
        /\ IF Len(Block(c, Size[c], k)) < Blk THEN Ends(c, "done") ELSE UNCHANGED cst
    BY <1>1, <2>2, <2>3 DEF SendNext, Consume
  <2>5. CASE Len(Block(c, Size[c], k)) < Blk
    BY <2>4, <2>5, EndsType
  <2>6. CASE ~(Len(Block(c, Size[c], k)) < Blk)
    <3>1. PICK p \in Datum : p = Pkt("DATA", c, k, Block(c, Size[c], k))
      <4>1. PICK size \in Nat : size = Size[c] /\ c \in Client \union Jobs
        BY Sizes
      <4>2. Block(c, size, k) \in Seq(Item)
        BY ONLY <4>1, BlockType, k \in Nat \ {0}
      <4>3. QED BY <4>1, <4>2, PktType DEF Op
    <3>2. AtServer(c, p)'
      BY <1>2, <1>6, <2>4, <3>1, ClientAnswers
    <3>3. Repeat(c)' = p
      BY <2>3, <2>4, <3>1 DEF Repeat
    <3>4. AtServer(c, Repeat(c))'
      BY <3>2, <3>3 DEF AtServer
    <3>5. /\ spc' = "write" /\ block' = pktN'[c] /\ retry'[c] <= drops'
          /\ waited'[c] <= retry'[c]
      BY <1>1, <1>6, <2>3, <2>4
    <3>6. ~(Len(Block(c, Size[c], pktN'[c])) < Blk)
      BY <2>4, <2>6
    <3>7. QED BY <2>4, <3>4, <3>5, <3>6 DEF SenderInStep
  <2>7. QED BY <2>5, <2>6
<1>7. QED BY <1>4, <1>5, <1>6

LEMMA DownloadGoesOn ==
    ASSUME Types, NEW c \in Client, Mode[c] = "read", cst[c] = "wait", ReaderInStep(c), bound,
           ClientStep(c), UNCHANGED serverVars, UNCHANGED waited
    PROVE  /\ UNCHANGED bound
           /\ cst'[c] = "wait" => ReaderInStep(c)'
           /\ cst'[c] = "failed" => Refused(c)
<1>1. /\ block \in Nat \ {0} /\ pktN \in [Client -> Nat] /\ pktN[c] \in Nat
      /\ out \in Datum /\ UNCHANGED <<spc, block, out>>
  BY DEF Types, ServerTypes, ClientTypes, serverVars
<1>2. Err(c) \in Datum /\ Err(c).op = "ERROR"
  BY Replies DEF Err, Pkt
<1>3. toClient[c] # <<>>
  BY DEF ClientStep, RecvError, SendNext, ReadBlock, Ignore, Ignored, HasAnswer
<1>4. \/ AtClient(c, Err(c)) /\ Refused(c)
      \/ /\ AtClient(c, out) /\ spc = "ack" /\ out.op = "DATA"
         /\ out.n = block /\ pktN[c] = block
  BY <1>3 DEF ReaderInStep, AtServer
<1>5. CASE AtClient(c, Err(c)) /\ Refused(c)
  <2>1. Answer(c) = Err(c)
    BY <1>2, <1>5, OneOf DEF Answer, AtClient
  <2>2. RecvError(c)
    BY <1>2, <2>1 DEF ClientStep, SendNext, ReadBlock, Ignore, Ignored, HasAnswer
  <2>3. cst'[c] = "failed" /\ UNCHANGED bound
    BY <2>2, EndsType DEF RecvError, Consume
  <2>4. QED BY <1>5, <2>3
<1>6. CASE /\ AtClient(c, out) /\ spc = "ack" /\ out.op = "DATA"
           /\ out.n = block /\ pktN[c] = block
  <2>1. Answer(c) = out
    BY <1>1, <1>6, OneOf DEF Answer, AtClient
  <2>2. ReadBlock(c) /\ Expected(c)
    BY <1>6, <2>1 DEF ClientStep, RecvError, SendNext, Ignore, Ignored, HasAnswer, Expected
  <2>3. Consume(c) /\ UNCHANGED bound /\ SendToServer(Ack(c, block))
    BY <1>6, <2>2 DEF ReadBlock, Consume, Ack
  <2>4. CASE Len(out.d) < Blk
    <3>1. Ends(c, "done")
      BY <2>1, <2>2, <2>4 DEF ReadBlock
    <3>2. cst'[c] = "done"
      BY <3>1, EndsType
    <3>3. QED BY <2>3, <3>2
  <2>5. CASE ~(Len(out.d) < Blk)
    <3>1. pktN'[c] = block + 1 /\ UNCHANGED cst
      BY <1>1, <1>6, <2>1, <2>2, <2>5 DEF ReadBlock
    <3>2. PICK p \in Datum : p = Ack(c, block)
      BY <1>1, Replies
    <3>3. AtServer(c, p)'
      BY <1>1, <1>6, <2>3, <3>2, ClientAnswers
    <3>4. p = Ack(c, block)' /\ UNCHANGED <<spc, block, out>>
      BY <1>1, <3>2 DEF Ack
    <3>5. AtServer(c, Ack(c, block))'
      BY <3>3, <3>4 DEF AtServer
    <3>6. QED BY <1>6, <2>3, <2>5, <3>1, <3>4, <3>5 DEF ReaderInStep
  <2>6. QED BY <2>4, <2>5
<1>7. QED BY <1>4, <1>5, <1>6

(* How many timeouts the server has waited.                                  *)
Waits(c) == waited' = [waited EXCEPT ![c] = IF @ < Patience THEN @ + 1 ELSE @]

(* Nothing comes: for a sender there was a loss for each of its retries; for *)
(* a reader that can only be if something was lost.                          *)
LEMMA UploadRepeats ==
    ASSUME Types, NEW c \in Client, Mode[c] = "send", SenderInStep(c), bound, Timeout(c),
           UNCHANGED serverVars, ServerWaits \/ ServerDeaf, Waits(c)
    PROVE  /\ UNCHANGED bound
           /\ cst'[c] = "wait" => SenderInStep(c)'
           /\ cst'[c] = "failed" => MaxRetry <= drops'
<1>1. /\ pktN \in [Client -> Nat] /\ retry \in [Client -> Nat] /\ drops \in Nat
      /\ cst[c] = "wait" /\ UNCHANGED <<spc, block, bound, toClient, drops, pktN>>
      /\ waited \in [Client -> Nat] /\ Patience \in Nat
  BY Sizes DEF Types, ClientTypes, NetTypes, serverVars, Timeout
<1>2. toServer = <<>> /\ toClient[c] = <<>>
  BY DEF SenderInStep, ServerWaits, ServerDeaf, Timeout
<1>3. Nothing(c) /\ retry[c] < drops
  BY <1>2 DEF SenderInStep, Nothing, AtServer, AtClient
<1>4. PICK r \in Nat : r = retry[c] + 1 /\ retry'[c] = r /\ r <= drops
  BY <1>1, <1>3 DEF Timeout, Tried
<1>5. CASE r < MaxRetry
  <2>7. spc' = "write" => waited'[c] <= r
    <3>1. waited'[c] <= waited[c] + 1
      BY <1>1 DEF Waits
    <3>2. spc' = "write" => waited[c] <= retry[c]
      BY <1>1 DEF SenderInStep
    <3>3. waited'[c] \in Nat
      BY <1>1 DEF Waits
    <3>4. QED BY <1>1, <1>4, <3>1, <3>2, <3>3
  <2>1. SendToServer(Repeat(c)) /\ UNCHANGED cst
    BY <1>4, <1>5 DEF Timeout, Tried
  <2>2. PICK p \in Datum : p = Repeat(c)
    BY Repeats
  <2>3. AtServer(c, p)'
    BY <1>1, <1>3, <2>1, <2>2, ClientRepeats
  <2>4. Repeat(c)' = p
    BY <1>1, <2>2 DEF Repeat
  <2>5. AtServer(c, Repeat(c))'
    BY <2>3, <2>4 DEF AtServer
  <2>6. QED BY <1>1, <1>4, <2>1, <2>5, <2>7 DEF SenderInStep
<1>6. CASE ~(r < MaxRetry)
  <2>1. Ends(c, "failed")
    BY <1>4, <1>6 DEF Timeout, Tried
  <2>2. cst'[c] = "failed"
    BY <2>1, EndsType
  <2>3. QED BY <1>1, <1>4, <1>6, <2>2, Sizes
<1>7. QED BY <1>5, <1>6

LEMMA DownloadComes ==
    ASSUME NEW c \in Client, ReaderInStep(c), bound, Timeout(c), ServerWaits \/ ServerDeaf
    PROVE  FALSE
<1>1. toClient[c] = <<>>
  BY DEF Timeout
<1>2. \A p : <<p>> # <<>>
  OBVIOUS
<1>3. toServer # <<>> /\ spc \in {"run", "ack"}
  BY <1>1, <1>2 DEF ReaderInStep, AtServer, AtClient
<1>4. QED BY <1>3 DEF ServerWaits, ServerDeaf

---------------------------------------------------------------------------
(* Counters only grow, and a server without failures has its port.           *)

LEMMA FaultsGrow ==
    ASSUME ServerStep \/ ServerTimeout \/ PowerCycle, faults \in Nat, faults' = 0
    PROVE  faults = 0 /\ ~PowerCycle
<1>1. ASSUME NEW ok, Outcome(ok) PROVE faults = 0
  BY <1>1 DEF Outcome
<1>2. ~PowerCycle
  BY DEF PowerCycle, Outcome
<1>8. ASSUME NEW c, NEW ps, SendBlock(c, ps) PROVE faults = 0
  BY <1>1, <1>8 DEF SendBlock
<1> SUFFICES faults = 0
  BY <1>2
<1>3. CASE StartServer \/ WriteBlock \/ WriteBroken \/ WriteTimeout
  BY <1>1, <1>3 DEF StartServer, WriteBlock, WriteBroken, WriteTimeout
<1>4. CASE RunRequest \/ ParseAgain
  <2>1. PICK q : StartRequest(q)
    BY <1>4 DEF RunRequest, ParseAgain
  <2>2. CASE StartWrite(q)
    BY <1>1, <2>2 DEF StartWrite
  <2>3. CASE StartRead(q)
    BY <1>8, <2>3 DEF StartRead
  <2>4. QED BY <2>1, <2>2, <2>3 DEF StartRequest
<1>5. CASE RunUnknown \/ WriteRepeat \/ ReadNext \/ Reboot
  BY <1>5, <1>8 DEF RunUnknown, WriteRepeat, ReadNext, Reboot
<1>6. CASE ReadWrongAck \/ ReadNoAck \/ ReadTimeout
  BY <1>6, <1>8 DEF ReadWrongAck, ReadNoAck, ReadTimeout, Resend
<1>7. QED BY <1>2, <1>3, <1>4, <1>5, <1>6 DEF ServerStep, ServerTimeout

LEMMA BoundByServer ==
    ASSUME ServerBound, ServerStep \/ ServerTimeout \/ PowerCycle, faults \in Nat
    PROVE  ServerBound'
<1> SUFFICES ASSUME faults' = 0, spc' # "start" PROVE bound'
  BY DEF ServerBound
<1>1. faults = 0 /\ ~PowerCycle
  BY FaultsGrow
<1>2. CASE StartServer
  <2>1. ~Outcome(FALSE)
    BY OkOutcome
  <2>2. QED BY <1>2, <2>1 DEF StartServer
<1>3. ~Reboot
  BY DEF Reboot, Boot
<1>4. CASE ServerTimeout
  BY <1>1, <1>4 DEF ServerTimeout, WriteTimeout, ReadTimeout, netVars, ServerBound
<1>5. CASE RunRequest \/ RunUnknown \/ ParseAgain
  BY <1>1, <1>5 DEF RunRequest, RunUnknown, ParseAgain, Receive, ServerBound
<1>6. CASE WriteBlock \/ WriteRepeat \/ WriteBroken
  BY <1>1, <1>6 DEF WriteBlock, WriteRepeat, WriteBroken, Receive, ServerBound
<1>7. CASE ReadNext \/ ReadWrongAck \/ ReadNoAck
  BY <1>1, <1>7 DEF ReadNext, ReadAcked, ReadWrongAck, ReadNoAck, Receive, ServerBound
<1>8. QED BY <1>1, <1>2, <1>3, <1>4, <1>5, <1>6, <1>7 DEF ServerStep

(* The server does not time out while a client of a run on time waits.       *)
LEMMA NotLate ==
    ASSUME Types, NEW c \in Client, OnTime(c), cst[c] = "wait", Together(c),
           waited[c] = Patience
    PROVE  ~ServerTimeout
<1>1. /\ retry[c] \in Nat /\ drops \in Nat /\ waited[c] \in Nat /\ Patience \in Nat
      /\ Patience # 0
  BY Sizes DEF Types, ClientTypes, NetTypes
<1> SUFFICES ASSUME toServer = <<>>, spc = "write" \/ spc = "ack" PROVE FALSE
  BY DEF ServerTimeout, WriteTimeout, ReadTimeout
<1>2. \A p : <<p>> # <<>>
  OBVIOUS
<1>3. CASE Mode[c] = "send"
  <2>1. SenderInStep(c) /\ spc = "write"
    BY <1>3 DEF Together, SenderInStep
  <2>2. retry[c] <= drops
    BY <1>1, <2>1 DEF SenderInStep
  <2>3. waited[c] <= retry[c] /\ drops < Patience
    BY <1>3, <2>1 DEF SenderInStep, OnTime
  <2>4. QED BY <1>1, <2>2, <2>3
<1>4. CASE Mode[c] = "read"
  BY <1>1, <1>2, <1>4 DEF Together, ReaderInStep, AtServer
<1>5. QED BY <1>3, <1>4, Modes

LEMMA RetriesServer ==
    ASSUME Types, RetriesInv, ServerGoesOn,
           \/ ServerStep \/ PowerCycle
           \/ ServerTimeout /\ \A c \in Client : cst[c] = "wait" => waited[c] = Patience
    PROVE  RetriesInv'
<1>1. /\ faults \in Nat /\ drops \in Nat
      /\ UNCHANGED <<cst, drops, retry, pktN, early, hurried>>
  BY Sizes, ServerType DEF Types, NetTypes, ServerTypes, ServerKeeps, ServerGoesOn, clientVars
<1>2. ServerBound'
  BY <1>1, BoundByServer DEF RetriesInv
<1>3. ASSUME NEW c \in Client PROVE Fresh(c)'
  BY <1>1 DEF RetriesInv, Fresh
<1>4. ASSUME NEW c \in Client, OnTime(c)', cst'[c] = "wait" PROVE Together(c)'
  <2>1. faults' = 0 /\ faults = 0 /\ ~PowerCycle
    BY <1>1, <1>4, FaultsGrow DEF OnTime
  <2>2. OnTime(c)
    BY <1>1, <1>4, <2>1 DEF OnTime
  <2>3. cst[c] = "wait" /\ Together(c)
    BY <1>1, <1>4, <2>2 DEF RetriesInv
  <2>4. ServerStep
    BY <2>1, <2>2, <2>3, NotLate
  <2>5. UNCHANGED clientVars /\ waited' = [d \in Client |-> 0]
    BY DEF ServerGoesOn
  <2>6. CASE Mode[c] = "send"
    BY <2>1, <2>3, <2>4, <2>5, <2>6, UploadServed DEF Together
  <2>7. CASE Mode[c] = "read"
    BY <2>1, <2>3, <2>4, <2>5, <2>7, DownloadServed DEF Together
  <2>8. QED BY <2>6, <2>7, Modes
<1>5. QED BY <1>2, <1>3, <1>4 DEF RetriesInv

LEMMA ClientActs ==
    ASSUME Types, NEW a \in Client, ClientRuns(a) \/ ClientTimeout(a) \/ Stop(a)
    PROVE  /\ early \in Nat /\ early' \in Nat /\ early <= early'
           /\ UNCHANGED <<drops, bound, hurried>> /\ UNCHANGED serverVars
           /\ cst[a] = "wait" /\ ClientKeeps
           /\ \/ (ClientStep(a) \/ Kill(a)) /\ UNCHANGED waited
              \/ Timeout(a) /\ Waits(a) /\ (early' = 0 => ServerWaits \/ ServerDeaf)
<1>1. early \in Nat
  BY Sizes DEF Types, NetTypes
<1>2. /\ early' \in Nat /\ early <= early' /\ UNCHANGED serverVars /\ UNCHANGED hurried
      /\ \/ (ClientStep(a) \/ Kill(a)) /\ UNCHANGED waited
         \/ Timeout(a) /\ Waits(a) /\ (early' = 0 => ServerWaits \/ ServerDeaf)
  <2>1. CASE ClientTimeout(a)
    <3>1. \/ UNCHANGED early /\ (ServerWaits \/ ServerDeaf)
          \/ early' = early + 1
      BY <2>1 DEF ClientTimeout
    <3>2. Timeout(a) /\ Waits(a) /\ UNCHANGED serverVars /\ UNCHANGED hurried
      BY <2>1 DEF ClientTimeout, Waits
    <3>3. CASE early' = early + 1
      <4>1. early' \in Nat /\ early <= early' /\ early' # 0
        BY <1>1, <3>3
      <4>2. QED BY <3>2, <4>1
    <3>4. QED BY <1>1, <3>1, <3>2, <3>3
  <2>2. CASE ClientRuns(a) \/ Stop(a)
    BY <1>1, <2>2 DEF ClientRuns, Stop
  <2>3. QED BY <2>1, <2>2
<1>3. ClientStep(a) \/ Timeout(a) \/ Kill(a)
  BY <1>2
<1>4. cst[a] = "wait"
  BY <1>3
  DEF ClientStep, RecvError, SendNext, ReadBlock, Ignore, Ignored, HasAnswer, Timeout, Kill
<1>5. ClientKeeps
  BY <1>3, ClientType
<1>6. QED BY <1>1, <1>2, <1>4, <1>5 DEF ClientKeeps

LEMMA ClientAlone ==
    ASSUME Types, NEW a \in Client, ClientStep(a) \/ Timeout(a) \/ Kill(a),
           NEW c \in Client, c # a
    PROVE  cst'[c] = cst[c] /\ retry'[c] = retry[c] /\ pktN'[c] = pktN[c]
<1>1. /\ cst \in [Client -> {"idle", "wait", "done", "failed", "killed"}]
      /\ retry \in [Client -> Nat] /\ pktN \in [Client -> Nat]
  BY Sizes DEF Types, NetTypes, ClientTypes
<1>2. UNCHANGED cst \/ \E how : cst' = [cst EXCEPT ![a] = how]
  BY DEF ClientStep, RecvError, SendNext, ReadBlock, Ignore, Timeout, Kill, Ends
<1>3. UNCHANGED retry \/ \E n : retry' = [retry EXCEPT ![a] = n]
  BY DEF ClientStep, RecvError, SendNext, ReadBlock, Ignore, Timeout, Kill, clientVars
<1>4. UNCHANGED pktN \/ \E n : pktN' = [pktN EXCEPT ![a] = n]
  BY <1>1 DEF ClientStep, RecvError, SendNext, ReadBlock, Ignore, Timeout, Kill, clientVars
<1>5. QED BY <1>1, <1>2, <1>3, <1>4

(* A step of the client that waits, in a run on time: it stays in step, and  *)
(* fails only on an ERROR for its name or with its last retry.               *)
LEMMA ClientInStep ==
    ASSUME Types, RetriesInv, NEW a \in Client, OnTime(a), early' = 0,
           ClientRuns(a) \/ ClientTimeout(a)
    PROVE  /\ cst'[a] = "wait" => Together(a)'
           /\ cst'[a] = "failed" => Refused(a) \/ (Mode[a] = "send" /\ MaxRetry <= drops)
<1>1. /\ UNCHANGED <<drops, bound>> /\ UNCHANGED serverVars /\ cst[a] = "wait"
      /\ \/ ClientStep(a) /\ UNCHANGED waited
         \/ Timeout(a) /\ Waits(a) /\ (ServerWaits \/ ServerDeaf)
  <2>1. ClientRuns(a) => ClientStep(a) /\ UNCHANGED waited
    BY DEF ClientRuns
  <2>2. ClientTimeout(a) => early # early' \/ ServerWaits \/ ServerDeaf
    BY DEF ClientTimeout
  <2>3. ClientTimeout(a) => Timeout(a) /\ Waits(a)
    BY DEF ClientTimeout, Waits
  <2>4. early = early'
    BY DEF OnTime
  <2>5. QED BY <2>1, <2>2, <2>3, <2>4, ClientActs
<1>2. Together(a)
  BY <1>1 DEF RetriesInv
<1>3. CASE ClientStep(a) /\ UNCHANGED waited /\ Mode[a] = "send"
  BY <1>1, <1>2, <1>3, UploadGoesOn DEF Together
<1>4. CASE ClientStep(a) /\ UNCHANGED waited /\ Mode[a] = "read"
  BY <1>1, <1>2, <1>4, DownloadGoesOn DEF Together
<1>5. CASE Timeout(a) /\ Waits(a) /\ (ServerWaits \/ ServerDeaf)
  <2>1. CASE Mode[a] = "send"
    BY <1>1, <1>2, <1>5, <2>1, UploadRepeats DEF Together
  <2>2. CASE Mode[a] = "read"
    BY <1>1, <1>2, <1>5, <2>2, DownloadComes DEF Together
  <2>3. QED BY <2>1, <2>2, Modes
<1>6. QED BY <1>1, <1>3, <1>4, <1>5, Modes

LEMMA RetriesClient ==
    ASSUME Types, RetriesInv, NEW a \in Client, \A d \in Client : d # a => cst[d] # "wait",
           ClientRuns(a) \/ ClientTimeout(a) \/ Stop(a)
    PROVE  RetriesInv'
<1>1. /\ early \in Nat /\ early' \in Nat /\ early <= early'
      /\ UNCHANGED <<drops, bound, faults, spc, hurried>> /\ cst[a] = "wait"
      /\ ClientStep(a) \/ Kill(a) \/ Timeout(a)
  BY ClientActs DEF serverVars
<1>2. ServerBound'
  BY <1>1 DEF RetriesInv, ServerBound
<1>3. \A c \in Client : OnTime(c)' => OnTime(c) /\ early' = 0
  BY <1>1 DEF OnTime
<1>4. ASSUME NEW c \in Client, c # a PROVE Fresh(c)' /\ cst'[c] # "wait"
  <2>1. cst'[c] = cst[c] /\ retry'[c] = retry[c] /\ pktN'[c] = pktN[c]
    BY <1>1, <1>4, ClientAlone
  <2>2. QED BY <1>4, <2>1 DEF RetriesInv, Fresh
<1>5. Fresh(a)'
  <2>1. cst'[a] # "idle"
    BY <1>1, EndsType
    DEF ClientStep, RecvError, SendNext, ReadBlock, Ignore, Timeout, Kill
  <2>2. QED BY <2>1 DEF Fresh
<1>6. ASSUME OnTime(a)', cst'[a] = "wait" PROVE Together(a)'
  <2>1. ~Stop(a)
    BY <1>6, EndsType DEF Stop, Kill
  <2>2. QED BY <1>3, <1>6, <2>1, ClientInStep
<1>7. QED BY <1>2, <1>4, <1>5, <1>6 DEF RetriesInv

---------------------------------------------------------------------------
(* A run starts, and a datagram is lost.                                     *)

LEMMA RetriesStart ==
    ASSUME Sequential, Types, Inboxes, Runs, RetriesInv, NEW a \in Client, StartRun(a)
    PROVE  RetriesInv'
<1>1. /\ \A d \in Client : cst[d] # "wait"
      /\ cst[a] = "idle" /\ cst' = [cst EXCEPT ![a] = "wait"]
      /\ SendToServer(Req(a)) /\ UNCHANGED <<bound, toClient, drops, pktN, retry>>
      /\ UNCHANGED <<spc, faults, early>>
      /\ ~hurried' => spc = "run" /\ toServer = <<>>
  BY DEF StartRun, Start, serverVars, ServerBack
<1>2. cst'[a] = "wait" /\ \A d \in Client : d # a => cst'[d] = cst[d]
  BY <1>1 DEF Types, NetTypes
<1>3. ServerBound'
  BY <1>1 DEF RetriesInv, ServerBound
<1>4. ASSUME NEW c \in Client, c # a PROVE Fresh(c)' /\ cst'[c] # "wait"
  BY <1>1, <1>2, <1>4 DEF RetriesInv, Fresh
<1>5. Fresh(a)'
  BY <1>2 DEF Fresh
<1>6. ASSUME OnTime(a)' PROVE Together(a)'
  <2>1. /\ spc = "run" /\ Nothing(a) /\ retry[a] = 0 /\ drops \in Nat /\ bound
        /\ First(a, pktN)
    <3>1. spc = "run" /\ toServer = <<>> /\ faults = 0
      BY <1>1, <1>6 DEF OnTime
    <3>2. toClient[a] = <<>> /\ First(a, pktN)
      BY <1>1 DEF Inboxes, Runs
    <3>3. drops \in Nat
      BY Sizes DEF Types, NetTypes
    <3>4. QED BY <1>1, <3>1, <3>2, <3>3 DEF RetriesInv, ServerBound, Nothing, Fresh
  <2>2. PICK p \in Datum : p = Req(a)
    BY Replies
  <2>3. AtServer(a, p)'
    BY <1>1, <2>1, <2>2, ClientRepeats
  <2>4. AtServer(a, Req(a))'
    BY <2>2, <2>3 DEF AtServer, Req
  <2>5. CASE Mode[a] = "send"
    <3>1. pktN[a] = 0 /\ pktN'[a] = 0
      BY <1>1, <2>1, <2>5 DEF First
    <3>2. AtServer(a, Repeat(a))'
      BY <2>4, <2>5, <3>1 DEF AtServer, Repeat, Req
    <3>3. 0 <= drops' /\ retry'[a] = 0
      BY <1>1, <2>1
    <3>4. QED BY <1>1, <2>1, <2>5, <3>1, <3>2, <3>3 DEF Together, SenderInStep
  <2>6. CASE Mode[a] = "read"
    <3>1. pktN'[a] = 1
      BY <1>1, <2>1, <2>6 DEF First
    <3>2. QED BY <1>1, <2>1, <2>4, <2>6, <3>1 DEF Together, ReaderInStep
  <2>7. QED BY <2>5, <2>6, Modes
<1>7. QED BY <1>3, <1>4, <1>5, <1>6 DEF RetriesInv

LEMMA RetriesLose ==
    ASSUME Types, Inboxes, RetriesInv, Lose,
           \A c, d \in Client : cst[c] = "wait" /\ cst[d] = "wait" => c = d
    PROVE  RetriesInv'
<1>1. /\ Drop /\ UNCHANGED <<spc, block, out, faults, pktN, retry, early, waited, hurried>>
      /\ UNCHANGED <<bound, cst>> /\ drops \in Nat /\ drops' = drops + 1 /\ Patience \in Nat
  <2>1. Drop /\ UNCHANGED <<spc, block, out, faults, pktN, retry, early, waited, hurried>>
    BY DEF Lose, serverVars, clientVars
  <2>2. UNCHANGED <<bound, cst>> /\ drops' = drops + 1
    BY <2>1 DEF Drop, DropToServer, DropToClient
  <2>3. drops \in Nat /\ Patience \in Nat
    BY Sizes DEF Types, NetTypes
  <2>4. QED BY <2>1, <2>2, <2>3
<1>2. ServerBound' /\ \A c \in Client : Fresh(c)'
  BY <1>1 DEF RetriesInv, ServerBound, Fresh
<1>3. \A c \in Client : OnTime(c)' => OnTime(c) /\ Mode[c] # "read"
  BY <1>1 DEF OnTime
<1>4. ASSUME NEW a \in Client, OnTime(a)', cst'[a] = "wait" PROVE Together(a)'
  <2>1. Together(a) /\ Mode[a] = "send" /\ SenderInStep(a)
    BY <1>1, <1>3, <1>4, Modes DEF RetriesInv, Together
  <2>2. \A d \in Client : d # a => cst[d] # "wait"
    BY <1>1, <1>4
  <2>3. ~Nothing(a) /\ \A p \in Datum : AtServer(a, p) \/ AtClient(a, p) => Nothing(a)'
    BY <1>1, <2>2, LosesIt
  <2>4. pktN[a] \in Nat /\ retry[a] \in Nat /\ waited[a] \in Nat
    BY Sizes DEF Types, ClientTypes, NetTypes
  <2>5. Repeat(a) \in Datum /\ Err(a) \in Datum /\ Ack(a, pktN[a]) \in Datum
    BY <2>1, <2>4, Repeats, Replies
  <2>6. Nothing(a)' /\ retry[a] <= drops
    BY <2>1, <2>3, <2>5 DEF SenderInStep
  <2>7. retry'[a] < drops'
    BY <1>1, <2>4, <2>6
  <2>8. /\ \/ spc' = "run" /\ pktN'[a] = 0
           \/ spc' = "write" /\ block' \in {pktN'[a], pktN'[a] + 1}
        /\ spc' = "write" => waited'[a] <= retry'[a]
    BY <1>1, <2>1 DEF SenderInStep
  <2>9. pktN'[a] # 0 => ~(Len(Block(a, Size[a], pktN'[a])) < Blk)
    BY <1>1, <2>1 DEF SenderInStep
  <2>10. SenderInStep(a)'
    BY <2>6, <2>7, <2>8, <2>9 DEF SenderInStep
  <2>11. QED BY <1>1, <2>1, <2>10 DEF Together
<1>5. QED BY <1>2, <1>4 DEF RetriesInv

---------------------------------------------------------------------------
(* The invariant holds, and what it says.                                    *)

LEMMA RetriesInit == Init => RetriesInv
<1> SUFFICES ASSUME Init PROVE RetriesInv
  OBVIOUS
<1>1. /\ cst = [c \in Client |-> "idle"] /\ spc = "start"
      /\ retry = [c \in Client |-> 0]
  BY DEF Init, NetInit, ServerInit, ClientInit
<1>2. QED BY <1>1 DEF RetriesInv, ServerBound, Fresh

LEMMA RetriesStep ==
    ASSUME Sequential, TransfersInv, RetriesInv, [Next]_vars PROVE RetriesInv'
<1>1. PICK a \in Client : Calm(a)
  BY DEF TransfersInv, Transfers, Calm
<1>2. /\ Types /\ Inboxes /\ Runs
      /\ \A c, d \in Client : cst[c] = "wait" /\ cst[d] = "wait" => c = d
  BY <1>1, OneWaits DEF Calm
<1>3. CASE ServerRuns \/ LateServer \/ PowerFails
  <2>1. /\ ServerGoesOn
        /\ \/ ServerStep \/ PowerCycle
           \/ ServerTimeout /\ \A c \in Client : cst[c] = "wait" => waited[c] = Patience
    BY <1>3 DEF ServerRuns, LateServer, PowerFails
  <2>2. QED BY <1>2, <2>1, RetriesServer
<1>4. CASE Lose
  BY <1>2, <1>4, RetriesLose
<1>5. ASSUME NEW c \in Client, StartRun(c) PROVE RetriesInv'
  BY <1>2, <1>5, RetriesStart
<1>6. ASSUME NEW c \in Client, ClientRuns(c) \/ ClientTimeout(c) \/ Stop(c)
      PROVE  RetriesInv'
  <2>1. cst[c] = "wait"
    BY <1>2, <1>6, ClientActs
  <2>2. QED BY <1>2, <1>6, <2>1, RetriesClient
<1>7. CASE UNCHANGED vars
  BY <1>7
  DEF vars, netVars, serverVars, clientVars, RetriesInv, ServerBound, Fresh, OnTime,
      Together, SenderInStep, ReaderInStep, Refused, Nothing, AtServer, AtClient, Repeat
<1>8. QED BY <1>3, <1>4, <1>5, <1>6, <1>7 DEF Next

LEMMA RetriesHold == ASSUME Sequential PROVE Spec => []RetriesInv
<1>1. TransfersInv /\ RetriesInv /\ [Next]_vars => RetriesInv'
  BY RetriesStep
<1>2. QED BY <1>1, RetriesInit, TransfersHold, PTL DEF Spec

(* A run of mstd.cfg.py that fails in a step of its own.                     *)
LEMMA FailsItself ==
    ASSUME TransfersInv, NEW c \in Client, Next, Fails(c)
    PROVE  ClientRuns(c) \/ ClientTimeout(c)
<1>1. /\ Types /\ cst[c] = "wait" /\ cst'[c] = "failed"
      /\ cst \in [Client -> {"idle", "wait", "done", "failed", "killed"}]
  BY DEF TransfersInv, Fails, Types, NetTypes
<1>2. ~(ServerRuns \/ LateServer \/ PowerFails)
  BY <1>1, ServerType DEF ServerRuns, LateServer, PowerFails, ServerKeeps
<1>3. ~Lose
  BY <1>1 DEF Lose, Drop, DropToServer, DropToClient
<1>4. ASSUME NEW d \in Client, StartRun(d) PROVE FALSE
  BY <1>1, <1>4 DEF StartRun, Start
<1>5. ASSUME NEW d \in Client, d # c, ClientRuns(d) \/ ClientTimeout(d) \/ Stop(d) PROVE FALSE
  <2>1. ClientStep(d) \/ Timeout(d) \/ Kill(d)
    BY <1>1, <1>5, ClientActs
  <2>2. QED BY <1>1, <1>5, <2>1, ClientAlone
<1>6. ~Stop(c)
  BY <1>1, EndsType DEF Stop, Kill
<1>7. QED BY <1>2, <1>3, <1>4, <1>5, <1>6 DEF Next

(* Without losses, failures and early timeouts a run of mstd.cfg.py whose    *)
(* user waited for the server to be back fails only on a name that           *)
(* test_file_name refuses (tftp_ota_server.cpp:21).                          *)
THEOREM OnlyRefusedFails == ASSUME Sequential PROVE Spec => NoSpuriousFailure
<1>1. ASSUME TransfersInv, RetriesInv, Next, NEW c \in Client, Fails(c), Undisturbed'
      PROVE  Refused(c)
  <2>1. ClientRuns(c) \/ ClientTimeout(c)
    BY <1>1, FailsItself
  <2>2. Types /\ UNCHANGED <<drops, faults>> /\ early \in Nat /\ early <= early'
    BY <1>1, <2>1, ClientActs DEF TransfersInv, serverVars
  <2>3. drops = 0 /\ faults = 0 /\ early = 0 /\ early' = 0
    BY <1>1, <2>2 DEF Undisturbed
  <2>4. 0 < MaxRetry /\ 0 < Patience /\ MaxRetry \in Nat
    BY Sizes
  <2>5. OnTime(c)
    BY <1>1, <2>3, <2>4 DEF OnTime, Fails
  <2>6. Refused(c) \/ MaxRetry <= drops
    BY <1>1, <2>1, <2>2, <2>3, <2>5, ClientInStep DEF Fails
  <2>7. QED BY <2>3, <2>4, <2>6
<1>2. TransfersInv /\ RetriesInv /\ [Next]_vars =>
        [\A c \in Client : Fails(c) /\ Undisturbed' => Refused(c)]_vars
  BY <1>1
<1>3. QED BY <1>2, TransfersHold, RetriesHold, PTL DEF Spec, NoSpuriousFailure

(* Fewer losses than MAX_RETRY_COUNT, and than make the server's 30 s expire *)
(* before a datagram gets through, never end such an upload: the client      *)
(* repeats its request or block (mstd.cfg.py:562), and the server            *)
(* acknowledges it again (process_write, tftp_server.cpp:108).               *)
THEOREM UploadsSurvive == ASSUME Sequential PROVE Spec => UploadSurvivesLoss
<1>1. ASSUME TransfersInv, RetriesInv, Next, NEW c \in Client, Fails(c), Mode[c] = "send",
             faults = 0, early' = 0, drops < MaxRetry, drops < Patience
      PROVE  Refused(c)
  <2>1. ClientRuns(c) \/ ClientTimeout(c)
    BY <1>1, FailsItself
  <2>2. Types /\ early \in Nat /\ early <= early'
    BY <1>1, <2>1, ClientActs DEF TransfersInv
  <2>3. OnTime(c)
    BY <1>1, <2>2 DEF OnTime, Fails
  <2>4. Refused(c) \/ MaxRetry <= drops
    BY <1>1, <2>1, <2>2, <2>3, ClientInStep DEF Fails
  <2>5. drops \in Nat /\ MaxRetry \in Nat
    BY <2>2, Sizes DEF Types, NetTypes
  <2>6. QED BY <1>1, <2>4, <2>5
<1>2. TransfersInv /\ RetriesInv /\ [Next]_vars =>
        [\A c \in Client :
           /\ Fails(c) /\ Mode[c] = "send" /\ faults = 0 /\ early' = 0
           /\ drops < MaxRetry /\ drops < Patience
           => Refused(c)]_vars
  BY <1>1
<1>3. QED BY <1>2, TransfersHold, RetriesHold, PTL DEF Spec, UploadSurvivesLoss

---------------------------------------------------------------------------
(* Second part: the service.                                                 *)

(* Only an ERROR goes to a reader whose file is refused, and to a sender, as *)
(* long as no run was hurried.                                               *)
Allowed(c) == {p \in Datum : p.op # "ERROR" => ~Refused(c)}
Refusals ==
    \A c \in Client :
      Mode[c] = "read" \/ ~hurried => toClient[c] \in Seq(Allowed(c))

(* The server is in no transfer without a job, and unless a run in haste has *)
(* taken the upload over, it is the one its client asked for.                *)
Granted ==
    /\ spc = "ack" => job # "None"
    /\ spc = "write" => job \in Loads /\ (~hurried => job = WriteJob(Name[mclient]))

(* The server has nothing to do with c, or only to take in its last block.   *)
Absent(c) ==
    /\ ~(spc = "write" /\ mclient = c)
    /\ \A i \in 1 .. Len(toServer) : toServer[i].c # c
LastBlock(c) ==
    /\ spc = "write" /\ mclient = c /\ toServer = <<Repeat(c)>>
    /\ pktN[c] # 0 /\ block = pktN[c] /\ Len(Block(c, Size[c], pktN[c])) < Blk

(* Of an upload that ended well, neither disturbed nor hurried, at most the  *)
(* last block is on its way.                                                 *)
Settled ==
    \A c \in Client :
      calmBar /\ ~hurried /\ Mode[c] = "send" /\ cst[c] = "done" => Absent(c) \/ LastBlock(c)

ServiceInv == Refusals /\ Granted /\ Settled

---------------------------------------------------------------------------
(* Who is answered what.                                                     *)

LEMMA AllowedSent ==
    ASSUME Types, Refusals, UNCHANGED hurried, NEW c \in Client, NEW ps \in Seq(Datum),
           Send(c, ps), Mode[c] = "read" \/ ~hurried => ps \in Seq(Allowed(c))
    PROVE  Refusals'
<1>1. toClient' = [toClient EXCEPT ![c] = IF cst[c] = "wait" THEN @ \o ps ELSE @]
      /\ toClient \in [Client -> Seq(Datum)]
  BY DEF Send, Types, NetTypes
<1>2. Mode[c] = "read" \/ ~hurried => toClient[c] \o ps \in Seq(Allowed(c))
  <2> SUFFICES ASSUME Mode[c] = "read" \/ ~hurried PROVE toClient[c] \o ps \in Seq(Allowed(c))
    OBVIOUS
  <2>1. toClient[c] \in Seq(Allowed(c)) /\ ps \in Seq(Allowed(c))
    BY DEF Refusals
  <2>2. QED BY ONLY <2>1, ConcatOf
<1>3. ASSUME NEW d \in Client, Mode[d] = "read" \/ ~hurried'
      PROVE  toClient'[d] \in Seq(Allowed(d))
  <2>0. Mode[d] = "read" \/ ~hurried
    BY <1>3
  <2>1. CASE d = c
    <3>1. toClient'[c] \in {toClient[c], toClient[c] \o ps}
      BY <1>1
    <3>2. QED BY <1>2, <2>0, <2>1, <3>1 DEF Refusals
  <2>2. CASE d # c
    BY <1>1, <2>0, <2>2 DEF Refusals
  <2>3. QED BY <2>1, <2>2
<1>4. QED BY <1>3 DEF Refusals

LEMMA AllowedOnes ==
    ASSUME NEW c \in Client
    PROVE  /\ <<Err(c)>> \in Seq(Allowed(c)) /\ <<>> \in Seq(Allowed(c))
           /\ \A q \in Seq(Datum) : ~Refused(c) => q \in Seq(Allowed(c))
           /\ \A q \in Seq(Datum) :
                (\A i \in 1 .. Len(q) : q[i].op = "ERROR") => q \in Seq(Allowed(c))
<1>1. Err(c) \in Datum /\ Err(c).op = "ERROR"
  BY Replies DEF Err, Pkt
<1>2. Err(c) \in Allowed(c)
  BY <1>1 DEF Allowed
<1>3. ASSUME ~Refused(c) PROVE Allowed(c) = Datum
  BY <1>3 DEF Allowed
<1>4. ASSUME NEW q \in Seq(Datum), \A i \in 1 .. Len(q) : q[i].op = "ERROR"
      PROVE  q \in Seq(Allowed(c))
  <2>1. \A i \in 1 .. Len(q) : q[i] \in Allowed(c)
    BY <1>4 DEF Allowed
  <2>2. Len(q) \in Nat /\ DOMAIN q = 1 .. Len(q) /\ q = [i \in 1 .. Len(q) |-> q[i]]
    OBVIOUS
  <2>3. QED BY <2>1, <2>2
<1>5. QED BY <1>2, <1>3, <1>4

LEMMA RefusalsStay ==
    ASSUME Refusals, UNCHANGED hurried,
           \A c \in Client : \/ toClient'[c] \in {toClient[c], <<>>}
                             \/ toClient[c] # <<>> /\ toClient'[c] = Tail(toClient[c])
    PROVE  Refusals'
<1>1. ASSUME NEW c \in Client, Mode[c] = "read" \/ ~hurried'
      PROVE  toClient'[c] \in Seq(Allowed(c))
  <2>1. toClient[c] \in Seq(Allowed(c)) /\ <<>> \in Seq(Allowed(c))
    BY <1>1 DEF Refusals
  <2>2. toClient[c] # <<>> => Tail(toClient[c]) \in Seq(Allowed(c))
    BY <2>1, TailOf
  <2>3. QED BY <2>1, <2>2
<1>2. QED BY <1>1 DEF Refusals

LEMMA GrantedStays == ASSUME Granted, UNCHANGED <<spc, job, mclient, hurried>> PROVE Granted'
BY DEF Granted

(* The request that parse_rq serves, just received or left in m_buffer.      *)
LEMMA RequestOf ==
    ASSUME NEW a \in Client, Calm(a), RunRequest \/ ParseAgain
    PROVE  \E q \in Datum :
             /\ q.c \in Client /\ StartRequest(q) /\ mclient' = q.c
             /\ (q.op = "WRQ" <=> Mode[q.c] = "send")
             /\ cst[q.c] # "idle" /\ spc \in {"run", "parse"} /\ (Alone(a) => q.c = a)
<1>1. CASE RunRequest
  <2>1. /\ toServer # <<>> /\ Receive /\ StartRequest(Msg) /\ Msg.op \in {"WRQ", "RRQ"}
        /\ spc = "run"
    BY <1>1, InMailType DEF RunRequest
  <2>2. /\ Msg \in Datum /\ Msg.c \in Client /\ mclient' = Msg.c /\ cst[Msg.c] # "idle"
        /\ Msg = Head(toServer)
        /\ Msg.c = a => Msg \in FromClient(a, pktN[a])
        /\ Msg.c # a => Opening(Msg, pktN)
    BY <2>1, Received
  <2>3. toServer \in Seq(Datum) /\ pktN[a] \in Nat
    BY CalmTypes
  <2>4. Msg.op = "WRQ" <=> Mode[Msg.c] = "send"
    <3>1. CASE Msg.c = a
      BY <2>1, <2>2, <2>3, <3>1, FromClientFacts
    <3>2. CASE Msg.c # a
      BY <2>2, <3>2, OpeningFacts
    <3>3. QED BY <3>1, <3>2
  <2>5. Alone(a) => Msg.c = a
    BY <2>1, <2>2, <2>3, TailOf DEF Alone, OnlyFrom
  <2>6. QED BY <2>1, <2>2, <2>4, <2>5
<1>2. CASE ParseAgain
  <2>1. spc = "parse" /\ StartRequest(out) /\ UNCHANGED mclient
    BY <1>2 DEF ParseAgain
  <2>2. mclient = a /\ out = Req(a) /\ cst[a] # "idle"
    BY <2>1 DEF Calm, Focus, Engaged
  <2>3. out \in Datum /\ out.c = a /\ out.op = IF Mode[a] = "send" THEN "WRQ" ELSE "RRQ"
    BY <2>2, ReqFacts
  <2>4. QED BY <2>1, <2>2, <2>3
<1>3. QED BY <1>1, <1>2

LEMMA GrantedRequest ==
    ASSUME NEW a \in Client, Calm(a), Refusals, RunRequest \/ ParseAgain, UNCHANGED hurried
    PROVE  Refusals' /\ Granted'
<1>1. PICK q \in Datum :
        /\ q.c \in Client /\ StartRequest(q) /\ mclient' = q.c
        /\ (q.op = "WRQ" <=> Mode[q.c] = "send")
  BY RequestOf
<1>2. PICK c \in Client : c = q.c
  BY <1>1
<1>3. Err(c) \in Datum /\ Ack(c, 0) \in Datum /\ out' \in Datum
  BY Replies, ServerType DEF Calm, ServerKeeps, ServerTypes, ServerStep
<1>4. /\ <<Err(c)>> \in Seq(Datum) /\ <<Ack(c, 0)>> \in Seq(Datum) /\ <<>> \in Seq(Datum)
      /\ Append(<<>>, out') \in Seq(Datum)
  BY <1>3, AppendOf
<1>5. CASE Mode[c] = "send"
  <2>1. StartWrite(q)
    BY <1>1, <1>2, <1>5 DEF StartRequest
  <2>2. /\ job' = WriteJob(Name[c])
        /\ \/ Send(c, <<Err(c)>>) /\ spc' = "run"
           \/ job' # "None" /\ Send(c, <<Ack(c, 0)>>) /\ spc' = "write"
    BY <1>2, <2>1 DEF StartWrite
  <2>3. job' # "None" => ~Refused(c) /\ job' \in Loads
    BY <1>5, <2>2 DEF Refused, WriteJob, Loads
  <2>4. Refusals'
    BY <1>4, <2>2, <2>3, AllowedOnes, AllowedSent DEF Calm
  <2>5. QED BY <1>1, <1>2, <2>2, <2>3, <2>4 DEF Granted
<1>6. CASE Mode[c] # "send"
  <2>1. StartRead(q)
    BY <1>1, <1>2, <1>6 DEF StartRequest
  <2>2. /\ job' = ReadJob(Name[c])
        /\ \/ Send(c, <<Err(c)>>) /\ spc' = "run"
           \/ job' # "None" /\ SendBlock(c, <<>>)
    BY <1>2, <2>1 DEF StartRead
  <2>3. job' # "None" => ~Refused(c)
    BY <1>6, <2>2 DEF Refused
  <2>4. SendBlock(c, <<>>) =>
          /\ Send(c, Append(<<>>, out')) \/ Send(c, <<>>)
          /\ spc' \in {"run", "ack"}
    BY DEF SendBlock
  <2>5. Refusals'
    BY <1>4, <2>2, <2>3, <2>4, AllowedOnes, AllowedSent DEF Calm
  <2>6. QED BY <2>2, <2>4, <2>5 DEF Granted
<1>7. QED BY <1>5, <1>6

LEMMA GrantedBlock ==
    ASSUME NEW a \in Client, Calm(a), Refusals, Granted, WriteBlock, UNCHANGED hurried
    PROVE  Refusals' /\ Granted'
<1>1. /\ Mode[a] = "send" /\ mclient = a /\ mclient' = a /\ Msg.n \in Nat \ {0}
      /\ Send(a, <<Ack(a, Msg.n)>>)
  BY Uploading
<1>2. /\ spc = "write" /\ job' = job /\ spc' # "ack"
      /\ job \in Loads /\ (~hurried => job = WriteJob(Name[a]))
  <2>1. spc = "write" /\ job' = job
    BY DEF WriteBlock
  <2>2. spc' \in {"write", "reboot", "run"}
    <3>1. spc' = spc \/ \E ok : OnClose("complete", got', "run", ok)
      BY DEF WriteBlock
    <3>2. QED BY <2>1, <3>1, OnCloseType
  <2>3. QED BY <1>1, <2>1, <2>2 DEF Granted
<1>3. ~hurried => ~Refused(a)
  BY <1>1, <1>2 DEF Refused, Loads
<1>4. <<Ack(a, Msg.n)>> \in Seq(Datum)
  BY <1>1, Replies
<1>5. Refusals'
  BY <1>1, <1>3, <1>4, AllowedOnes, AllowedSent DEF Calm
<1>6. QED BY <1>1, <1>2, <1>5 DEF Granted

LEMMA GrantedRepeat ==
    ASSUME NEW a \in Client, Calm(a), hurried \/ Alone(a), Refusals, Granted, WriteRepeat,
           UNCHANGED hurried
    PROVE  /\ Refusals' /\ Granted' /\ UNCHANGED <<spc, job, stored, faults>>
           /\ spc = "write" /\ mclient = a /\ mclient' \in Client /\ Mode[mclient'] = "send"
           /\ mclient' # a => hurried /\ cst[a] # "wait" /\ cst[mclient'] # "idle"
<1>1. /\ toServer # <<>> /\ Receive /\ spc = "write" /\ Msg.op = "WRQ"
      /\ Send(Msg.c, <<Ack(Msg.c, 0)>>) /\ UNCHANGED <<spc, job, stored, faults>>
  BY InMailType DEF WriteRepeat
<1>2. PICK w \in Client : w = Msg.c
  BY <1>1, Received
<1>3. /\ Msg \in Datum /\ mclient' = w /\ cst[w] # "idle" /\ Msg = Head(toServer)
      /\ w # a => Opening(Msg, pktN)
      /\ toServer \in Seq(Datum)
  BY <1>1, <1>2, Received, CalmTypes
<1>4. mclient = a /\ Mode[a] = "send" /\ (cst[a] = "wait" => OnlyFrom(a, toServer))
  BY <1>1, CalmTypes DEF Calm, Focus, Engaged
<1>5. Mode[w] = "send"
  BY <1>1, <1>2, <1>3, <1>4, OpeningFacts
<1>6. w # a => ~OnlyFrom(a, toServer)
  BY <1>1, <1>2, <1>3, TailOf DEF OnlyFrom
<1>7. w # a => hurried /\ cst[a] # "wait"
  BY <1>4, <1>6 DEF Alone
<1>8. <<Ack(w, 0)>> \in Seq(Datum)
  BY Replies
<1>9. ~hurried => ~Refused(w)
  BY <1>1, <1>4, <1>5, <1>7 DEF Granted, Refused, Loads
<1>10. Refusals'
  BY <1>1, <1>2, <1>5, <1>8, <1>9, AllowedOnes, AllowedSent DEF Calm
<1>11. Granted'
  BY <1>1, <1>3, <1>4, <1>7 DEF Granted
<1>12. QED BY <1>1, <1>3, <1>4, <1>5, <1>7, <1>10, <1>11

LEMMA GrantedAgain ==
    ASSUME NEW a \in Client, Calm(a), Refusals, Granted, UNCHANGED hurried,
           ReadNext \/ ReadWrongAck \/ ReadNoAck \/ ReadTimeout
    PROVE  Refusals' /\ Granted'
<1>1. /\ spc = "ack" /\ job # "None" /\ job = Asked(a) /\ ServesBlock /\ Mode[a] = "read"
      /\ Types
  BY CalmTypes
  DEF ReadNext, ReadAcked, ReadWrongAck, ReadNoAck, ReadTimeout, Granted, Calm, Focus, Reading
<1>2. ~Refused(a)
  BY <1>1 DEF Refused, Asked
<1>3. /\ job' = job /\ spc' \in {"run", "ack"}
      /\ \/ UNCHANGED toClient
         \/ \E ps \in Seq(Datum) : Send(a, ps)
         \/ \E c \in Client : \E ps \in Seq(Datum) :
              Send(c, ps) /\ \A i \in 1 .. Len(ps) : ps[i].op = "ERROR"
  <2>1. ASSUME ReadNext \/ ReadWrongAck PROVE Msg.c = a
    <3>1. toServer # <<>> /\ Receive /\ Msg.op = "ACK"
      BY <2>1, InMailType DEF ReadNext, ReadAcked, ReadWrongAck
    <3>2. Msg \in Datum /\ (Msg.c # a => Opening(Msg, pktN))
      BY <3>1, Received
    <3>3. QED BY <3>1, <3>2, OpeningFacts
  <2>2. CASE ReadNext
    <3>1. /\ job' = job /\ spc' \in {"run", "ack"}
          /\ UNCHANGED toClient \/ \E ps \in Seq(OfJob(job)) : Send(a, ps)
      BY <1>1, <2>1, <2>2, NextBlock
    <3>2. QED BY <3>1, OfJobType
  <2>3. CASE ReadWrongAck
    <3>1. Resend(a, <<>>, out) /\ out \in Datum
      BY <2>1, <2>3, CalmTypes DEF ReadWrongAck
    <3>2. /\ job' = job /\ spc' \in {"run", "ack"}
          /\ \E ps \in Seq(OfJob(job)) : Send(a, ps)
      BY <1>1, <3>1, BlockAgain
    <3>3. QED BY <3>2, OfJobType
  <2>4. CASE ReadNoAck \/ ReadTimeout
    <3>1. PICK c \in Client : Resend(c, <<Err(c)>>, Clobbered(c))
      <4>1. CASE ReadNoAck
        <5>1. toServer # <<>> /\ Receive
          BY <4>1 DEF ReadNoAck
        <5>2. Msg.c \in Client
          BY <5>1, Received
        <5>3. QED BY <4>1, <5>2 DEF ReadNoAck
      <4>2. CASE ReadTimeout
        BY <1>1, <4>2 DEF ReadTimeout, Types, ServerTypes
      <4>3. QED BY <2>4, <4>1, <4>2
    <3>2. \E ps \in Seq(Datum) : Send(c, ps) /\ \A i \in 1 .. Len(ps) : ps[i].op = "ERROR"
      BY <1>1, <3>1, ErrorsAgain
    <3>3. job' = job
      BY <3>1 DEF Resend
    <3>4. spc' \in {"run", "ack"}
      <4>1. spc' = "run" \/ SendBlock(c, <<Err(c)>>)
        BY <3>1 DEF Resend
      <4>2. QED BY <4>1 DEF SendBlock
    <3>5. QED BY <3>2, <3>3, <3>4
  <2>5. QED BY <2>2, <2>3, <2>4
<1>4. Refusals'
  <2>1. CASE UNCHANGED toClient
    BY <2>1, RefusalsStay
  <2>2. ASSUME NEW ps \in Seq(Datum), Send(a, ps) PROVE Refusals'
    BY <1>1, <1>2, <2>2, AllowedOnes, AllowedSent
  <2>3. ASSUME NEW c \in Client, NEW ps \in Seq(Datum), Send(c, ps),
               \A i \in 1 .. Len(ps) : ps[i].op = "ERROR"
        PROVE  Refusals'
    BY <1>1, <2>3, AllowedOnes, AllowedSent
  <2>4. QED BY <1>3, <2>1, <2>2, <2>3
<1>5. QED BY <1>1, <1>3, <1>4 DEF Granted

LEMMA GrantedServer ==
    ASSUME NEW a \in Client, Calm(a), hurried \/ Alone(a), Refusals, Granted,
           UNCHANGED hurried, ServerStep \/ ServerTimeout \/ PowerCycle
    PROVE  Refusals' /\ Granted'
<1>1. CASE WriteTimeout \/ WriteBroken
  <2>1. UNCHANGED toClient /\ \E how, then, ok :
          OnClose(how, got, then, ok) /\ then \in {"run", "parse", "hung"}
    BY <1>1 DEF WriteTimeout, WriteBroken, netVars
  <2>2. spc' \in {"reboot", "run", "parse", "hung"}
    BY <2>1, OnCloseType
  <2>3. QED BY <2>1, <2>2, RefusalsStay DEF Granted
<1>2. CASE StartServer \/ RunUnknown \/ Reboot \/ PowerCycle
  <2>1. UNCHANGED toClient /\ spc' \notin {"write", "ack"}
    BY <1>2 DEF StartServer, RunUnknown, Reboot, PowerCycle, Boot
  <2>2. QED BY <2>1, RefusalsStay DEF Granted
<1>3. CASE RunRequest \/ ParseAgain
  BY <1>3, GrantedRequest
<1>4. CASE WriteBlock
  BY <1>4, GrantedBlock
<1>5. CASE WriteRepeat
  BY <1>5, GrantedRepeat
<1>6. QED
  BY <1>1, <1>2, <1>3, <1>4, <1>5, GrantedAgain DEF ServerStep, ServerTimeout

---------------------------------------------------------------------------
(* What is left of a run.                                                    *)

LEMMA OthersAbsent ==
    ASSUME NEW a \in Client, Focus(a)', Alone(a)', NEW c \in Client, c # a
    PROVE  Absent(c)'
BY DEF Focus, Engaged, Alone, OnlyFrom, Absent

(* Nothing comes from a run the server has nothing to do with.               *)
LEMMA AbsentEmpty ==
    ASSUME NEW a \in Client, Calm(a), Alone(a), Absent(a) PROVE toServer = <<>> /\ spc # "write"
<1>1. toServer \in Seq(Datum)
  BY CalmTypes
<1>2. ASSUME toServer # <<>> PROVE FALSE
  BY <1>1, <1>2, TailOf DEF Alone, OnlyFrom, Absent
<1>3. QED BY <1>2 DEF Calm, Focus, Engaged, Absent

LEMMA EmptyAbsent ==
    ASSUME NEW c \in Client, toServer' = <<>>, spc' # "write" PROVE Absent(c)'
BY DEF Absent

LEMMA AbsentStays ==
    ASSUME NEW a \in Client, Calm(a), Alone(a), Absent(a),
           ServerStep \/ ServerTimeout \/ PowerCycle
    PROVE  Absent(a)'
<1>1. toServer = <<>> /\ spc # "write" /\ spc # "parse"
  BY AbsentEmpty DEF Alone
<1>2. StartServer \/ ReadTimeout \/ Reboot \/ PowerCycle
  BY <1>1, InMailType
  DEF ServerStep, ServerTimeout, RunRequest, RunUnknown, ParseAgain, WriteBlock, WriteRepeat,
      WriteBroken, WriteTimeout, ReadNext, ReadAcked, ReadWrongAck, ReadNoAck
<1>3. toServer' = <<>> /\ spc' # "write"
  <2>1. CASE StartServer
    BY <1>1, <2>1 DEF StartServer
  <2>2. CASE ReadTimeout
    BY <1>1, <2>2 DEF ReadTimeout, Resend, SendBlock
  <2>3. CASE Reboot \/ PowerCycle
    BY <2>3 DEF Reboot, PowerCycle, Boot
  <2>4. QED BY <1>2, <2>1, <2>2, <2>3
<1>4. QED BY <1>3, EmptyAbsent

(* The server takes in the last block, and closes.                           *)
LEMMA LastBlockTaken ==
    ASSUME NEW a \in Client, Calm(a), LastBlock(a), Mode[a] = "send", ServerStep
    PROVE  WriteBlock /\ Absent(a)'
<1>1. /\ Repeat(a) \in Datum /\ Repeat(a).op = "DATA"
      /\ Repeat(a).d = Block(a, Size[a], pktN[a])
  BY Repeats DEF Calm, LastBlock
<1>2. toServer = <<Repeat(a)>> /\ Msg = Repeat(a) /\ spc = "write"
  BY <1>1, OneOf DEF LastBlock, Msg
<1>3. WriteBlock
  BY <1>1, <1>2, ServerSteps
<1>4. toServer' = <<>>
  <2>1. toServer' = Tail(toServer)
    BY <1>3 DEF WriteBlock, Receive
  <2>2. QED BY <1>1, <1>2, <2>1, OneOf
<1>5. \E ok, data : OnClose("complete", data, "run", ok)
  BY <1>1, <1>2, <1>3 DEF WriteBlock, LastBlock
<1>6. spc' # "write"
  BY <1>5, OnCloseType
<1>7. QED BY <1>3, <1>4, <1>6, EmptyAbsent

LEMMA SettledServer ==
    ASSUME NEW a \in Client, Calm(a), hurried \/ Alone(a), Settled,
           ServerStep \/ ServerTimeout \/ PowerCycle,
           UNCHANGED clientVars, UNCHANGED <<early, hurried>>
    PROVE  Settled'
<1> SUFFICES ASSUME calmBar', ~hurried PROVE Settled'
  BY DEF Settled
<1>1. UNCHANGED <<cst, drops, pktN>> /\ faults \in Nat
  BY ServerType, Sizes DEF Calm, ServerKeeps, Types, ServerTypes, clientVars
<1>2. Focus(a)' /\ Alone(a)' /\ Alone(a)
  <2>1. PICK b \in Client : StillCalm(b) /\ (Alone(a) => b = a /\ Alone(b)')
    BY <1>1, CalmServer
  <2>2. QED BY <2>1 DEF StillCalm
<1>3. ASSUME NEW c \in Client, c # a PROVE Absent(c)'
  BY <1>2, <1>3, OthersAbsent
<1>4. ASSUME Mode[a] = "send", cst'[a] = "done" PROVE Absent(a)'
  <2>1. calmBar /\ ~PowerCycle
    BY <1>1, FaultsGrow DEF calmBar
  <2>2. Absent(a) \/ LastBlock(a)
    BY <1>1, <1>4, <2>1 DEF Settled
  <2>3. CASE LastBlock(a)
    <3>1. ~ServerTimeout
      BY <2>3, OneOf DEF LastBlock, ServerTimeout, WriteTimeout, ReadTimeout
    <3>2. QED BY <1>4, <2>1, <2>3, <3>1, LastBlockTaken
  <2>4. QED BY <1>2, <2>2, <2>3, AbsentStays
<1>5. QED BY <1>3, <1>4 DEF Settled

(* Undisturbed and not hurried, an ACK comes from the upload that is open.   *)
LEMMA AckInStep ==
    ASSUME NEW a \in Client, Calm(a), RetriesInv, calmBar, ~hurried, Mode[a] = "send",
           HasAnswer(a, "ACK")
    PROVE  /\ AtClient(a, Ack(a, pktN[a])) /\ spc = "write" /\ mclient = a
           /\ block = pktN[a] + 1 /\ bound
<1>1. cst[a] = "wait" /\ toClient[a] # <<>> /\ Answer(a).op = "ACK"
  BY DEF HasAnswer
<1>2. bound /\ SenderInStep(a)
  <2>1. 0 < Patience
    BY Sizes
  <2>2. QED BY <1>1, <2>1 DEF RetriesInv, OnTime, calmBar, Together
<1>3. Err(a) \in Datum /\ Err(a).op = "ERROR"
  BY Replies DEF Err, Pkt
<1>4. ~AtClient(a, Err(a))
  BY <1>1, <1>3, OneOf DEF AtClient, Answer
<1>5. AtClient(a, Ack(a, pktN[a])) /\ spc = "write" /\ block = pktN[a] + 1
  BY <1>1, <1>2, <1>4 DEF SenderInStep, Nothing, AtServer
<1>6. QED BY <1>2, <1>5 DEF Calm, Focus, Engaged

LEMMA LastBlockSent ==
    ASSUME NEW a \in Client, Calm(a), RetriesInv, calmBar, ~hurried, Mode[a] = "send",
           SendNext(a), cst'[a] = "done", UNCHANGED serverVars
    PROVE  LastBlock(a)'
<1>1. /\ AtClient(a, Ack(a, pktN[a])) /\ spc = "write" /\ mclient = a
      /\ block = pktN[a] + 1 /\ bound /\ cst[a] = "wait"
  BY AckInStep DEF SendNext, HasAnswer
<1>2. pktN \in [Client -> Nat] /\ pktN[a] \in Nat
  BY DEF Calm, Types, ClientTypes
<1>3. PICK k \in Nat \ {0} : k = pktN[a] + 1
  BY <1>2
<1>4. /\ pktN'[a] = k /\ Consume(a)
      /\ SendToServer(Pkt("DATA", a, k, Block(a, Size[a], k)))
      /\ IF Len(Block(a, Size[a], k)) < Blk THEN Ends(a, "done") ELSE UNCHANGED cst
  BY <1>2, <1>3 DEF SendNext
<1>5. Len(Block(a, Size[a], k)) < Blk
  BY <1>1, <1>4
<1>6. PICK p \in Datum : p = Pkt("DATA", a, k, Block(a, Size[a], k))
  <2>1. PICK size \in Nat : size = Size[a] /\ a \in Client \union Jobs
    BY Sizes
  <2>2. Block(a, size, k) \in Seq(Item)
    BY ONLY <2>1, BlockType, k \in Nat \ {0}
  <2>3. Pkt("DATA", a, k, Block(a, size, k)) \in Datum
    BY ONLY <2>2, PktType, a \in Client, k \in Nat \ {0} DEF Op
  <2>4. QED BY <2>1, <2>3
<1>7. AtServer(a, p)'
  BY <1>1, <1>2, <1>4, <1>6, Replies, ClientAnswers DEF Calm
<1>8. Repeat(a)' = p
  BY <1>3, <1>4, <1>6 DEF Repeat
<1>9. UNCHANGED <<spc, mclient, block>>
  BY DEF serverVars
<1>10. QED BY <1>1, <1>3, <1>4, <1>5, <1>7, <1>8, <1>9 DEF LastBlock, AtServer

LEMMA ClientCalm ==
    ASSUME NEW a \in Client, Calm(a), hurried \/ Alone(a), NEW c \in Client,
           ClientRuns(c) \/ ClientTimeout(c) \/ Stop(c)
    PROVE  /\ Calmer(a) /\ cst[c] = "wait" /\ UNCHANGED serverVars /\ UNCHANGED hurried
           /\ ClientStep(c) \/ Timeout(c) \/ Kill(c)
           /\ (Alone(a) => c = a) /\ \A d \in Client : d # c => cst[d] # "wait"
<1>1. /\ UNCHANGED serverVars /\ UNCHANGED hurried
      /\ ClientStep(c) \/ Timeout(c) \/ Kill(c)
  BY DEF ClientRuns, ClientTimeout, Stop
<1>2. cst[c] = "wait"
  BY <1>1
  DEF ClientStep, RecvError, SendNext, ReadBlock, Ignore, Ignored, HasAnswer, Timeout, Kill
<1>3. (Alone(a) => c = a) /\ \A d \in Client : d # c => cst[d] # "wait"
  BY <1>2, OneWaits
<1>4. QED
  BY <1>1, <1>2, <1>3, CalmError, CalmSendNext, CalmReadBlock, CalmIgnore, CalmTimeout,
     CalmKill
  DEF ClientStep

(* A run ends well with the last block it sends or takes.                    *)
LEMMA DoneBy ==
    ASSUME NEW a \in Client, Types, cst[a] = "wait", cst'[a] = "done",
           ClientStep(a) \/ Timeout(a) \/ Kill(a)
    PROVE  IF Mode[a] = "send" THEN SendNext(a) ELSE ReadBlock(a)
<1>1. ~RecvError(a) /\ ~Ignore(a) /\ ~Timeout(a) /\ ~Kill(a)
  BY EndsType DEF RecvError, Ignore, Timeout, Kill
<1>2. QED BY <1>1, Modes DEF ClientStep, SendNext, ReadBlock

LEMMA RefusalsClient ==
    ASSUME NEW a \in Client, Types, Refusals, ClientStep(a) \/ Timeout(a) \/ Kill(a),
           UNCHANGED hurried
    PROVE  Refusals'
<1>1. toClient \in [Client -> Seq(Datum)]
  BY DEF Types, NetTypes
<1>2. \/ UNCHANGED toClient \/ toClient' = [toClient EXCEPT ![a] = <<>>]
      \/ toClient[a] # <<>> /\ Consume(a)
  BY DEF ClientStep, RecvError, SendNext, ReadBlock, Ignore, Ignored, HasAnswer, Timeout, Kill
<1>3. QED BY <1>1, <1>2, RefusalsStay DEF Consume

LEMMA ServiceClient ==
    ASSUME NEW a \in Client, Calm(a), hurried \/ Alone(a), RetriesInv, ServiceInv,
           NEW c \in Client, ClientRuns(c) \/ ClientTimeout(c) \/ Stop(c)
    PROVE  ServiceInv'
<1>1. /\ Calmer(a) /\ cst[c] = "wait" /\ UNCHANGED serverVars /\ UNCHANGED hurried
      /\ ClientStep(c) \/ Timeout(c) \/ Kill(c)
      /\ Alone(a) => c = a
  BY ClientCalm
<1>2. /\ early \in Nat /\ early' \in Nat /\ early <= early' /\ UNCHANGED <<drops, faults>>
      /\ UNCHANGED <<spc, job, mclient>>
  BY ClientActs DEF serverVars, Calm
<1>3. Refusals' /\ Granted'
  BY <1>1, <1>2, RefusalsClient, GrantedStays DEF ServiceInv, Calm
<1>4. Settled'
  <2> SUFFICES ASSUME calmBar', ~hurried PROVE Settled'
    BY <1>1 DEF Settled
  <2>1. c = a /\ Focus(a)' /\ Alone(a)' /\ calmBar
    BY <1>1, <1>2 DEF Calmer, calmBar
  <2>2. ASSUME NEW d \in Client, d # a PROVE Absent(d)'
    BY <2>1, <2>2, OthersAbsent
  <2>3. ASSUME Mode[a] = "send", cst'[a] = "done" PROVE LastBlock(a)'
    <3>1. SendNext(a)
      BY <1>1, <2>1, <2>3, DoneBy DEF Calm
    <3>2. QED BY <1>1, <2>1, <2>3, <3>1, LastBlockSent
  <2>4. QED BY <2>2, <2>3 DEF Settled
<1>5. QED BY <1>3, <1>4 DEF ServiceInv

LEMMA ServiceStart ==
    ASSUME Sequential, NEW a \in Client, Calm(a), ServiceInv, NEW c \in Client, StartRun(c)
    PROVE  ServiceInv'
<1>1. /\ UNCHANGED <<spc, job, mclient, toClient>> /\ \A d \in Client : cst[d] # "wait"
      /\ cst[c] = "idle" /\ cst' = [cst EXCEPT ![c] = "wait"]
      /\ ~hurried' => spc = "run" /\ toServer = <<>>
      /\ SendToServer(Req(c))
  BY DEF StartRun, Start, ServerBack, serverVars
<1>2. \A d \in Client : toClient'[d] = <<>>
  BY <1>1 DEF Calm, Inboxes
<1>3. Refusals'
  BY <1>2, AllowedOnes DEF Refusals
<1>4. Granted'
  BY <1>1 DEF ServiceInv, Granted
<1>5. Settled'
  <2> SUFFICES ASSUME ~hurried', NEW d \in Client, cst'[d] = "done" PROVE Absent(d)'
    BY DEF Settled
  <2>1. spc' # "write" /\ toServer = <<>> /\ d # c
    BY <1>1 DEF Calm, Types, NetTypes
  <2>2. toServer' = <<>> \/ toServer' = <<Req(c)>>
    BY <1>1, <2>1 DEF SendToServer, Deliver
  <2>3. <<Req(c)>>[1] = Req(c) /\ Req(c).c = c /\ Len(<<Req(c)>>) = 1
    BY DEF Req, Pkt
  <2>4. QED BY <2>1, <2>2, <2>3 DEF Absent
<1>6. QED BY <1>3, <1>4, <1>5 DEF ServiceInv

LEMMA ServiceLose == ASSUME NEW a \in Client, Calm(a), ServiceInv, Lose PROVE ServiceInv'
<1>1. Drop /\ UNCHANGED <<spc, job, mclient, hurried>>
  BY DEF Lose, serverVars
<1>2. drops' = drops + 1 /\ drops \in Nat
  <2>1. drops' = drops + 1
    BY <1>1 DEF Drop, DropToServer, DropToClient
  <2>2. QED BY <2>1, Sizes DEF Calm, Types, NetTypes
<1>3. ~calmBar'
  BY <1>2 DEF calmBar
<1>4. toClient \in [Client -> Seq(Datum)]
  BY DEF Calm, Types, NetTypes
<1>5. Refusals'
  BY <1>1, <1>4, RefusalsStay DEF Drop, DropToServer, DropToClient, ServiceInv
<1>6. QED BY <1>1, <1>3, <1>5, GrantedStays DEF ServiceInv, Settled

LEMMA ServiceInit == Init => ServiceInv
<1> SUFFICES ASSUME Init PROVE ServiceInv
  OBVIOUS
<1>1. /\ spc = "start" /\ \A c \in Client : toClient[c] = <<>>
      /\ \A c \in Client : cst[c] = "idle"
  BY DEF Init, NetInit, ServerInit
<1>2. Refusals
  BY <1>1, AllowedOnes DEF Refusals
<1>3. QED BY <1>1, <1>2 DEF ServiceInv, Granted, Settled

LEMMA ServiceStep ==
    ASSUME Sequential, TransfersInv, RetriesInv, ServiceInv, [Next]_vars PROVE ServiceInv'
<1>1. PICK a \in Client : Calm(a) /\ (hurried \/ Alone(a))
  BY DEF TransfersInv, Transfers, Calm
<1>2. CASE ServerRuns \/ LateServer \/ PowerFails
  <2>1. /\ UNCHANGED clientVars /\ UNCHANGED <<early, hurried>>
        /\ ServerStep \/ ServerTimeout \/ PowerCycle
    BY <1>2 DEF ServerRuns, LateServer, PowerFails, ServerGoesOn
  <2>2. QED BY <1>1, <2>1, GrantedServer, SettledServer DEF ServiceInv
<1>3. ASSUME NEW c \in Client, ClientRuns(c) \/ ClientTimeout(c) \/ Stop(c)
      PROVE  ServiceInv'
  BY <1>1, <1>3, ServiceClient
<1>4. CASE UNCHANGED vars
  BY <1>4
  DEF vars, netVars, serverVars, clientVars, ServiceInv, Refusals, Granted, Settled, Absent,
      LastBlock, Repeat, calmBar, Refused
<1>5. QED BY <1>1, <1>2, <1>3, <1>4, ServiceLose, ServiceStart DEF Next

LEMMA ServiceHolds == ASSUME Sequential PROVE Spec => []ServiceInv
<1>1. TransfersInv /\ RetriesInv /\ ServiceInv /\ [Next]_vars => ServiceInv'
  BY ServiceStep
<1>2. QED BY <1>1, ServiceInit, TransfersHold, RetriesHold, PTL DEF Spec

---------------------------------------------------------------------------
(* The steps of the service.                                                 *)

Quiet == UNCHANGED <<cst, result, stored, hurried>> /\ (calmBar' => calmBar)

LEMMA Disturbs == ASSUME calmBar' => calmBar PROVE Service!MayDisturb
<1>1. CASE calmBar'
  BY <1>1 DEF Service!MayDisturb
<1>2. CASE ~calmBar'
  <2>1. calmBar' = FALSE
    BY <1>2 DEF calmBar
  <2>2. QED BY <2>1 DEF Service!MayDisturb
<1>3. QED BY <1>1, <1>2

LEMMA QuietMaps ==
    ASSUME Quiet, openBar' = openBar PROVE [Service!Next]_(Service!fvars)
<1>1. CASE calmBar'
  BY <1>1 DEF Quiet, Service!fvars
<1>2. CASE ~calmBar'
  <2>1. Service!Disturb
    BY <1>2 DEF Quiet, Service!Disturb
  <2>2. QED BY <2>1 DEF Service!Next
<1>3. QED BY <1>1, <1>2

LEMMA DisturbMaps ==
    ASSUME Quiet, openBar' = {}, ~calmBar' PROVE Service!Next
<1>1. Service!Disturb
  BY DEF Quiet, Service!Disturb
<1>2. QED BY <1>1 DEF Service!Next

LEMMA BarsOf ==
    ASSUME NEW c \in Client
    PROVE  /\ c \in readersBar <=> Mode[c] = "read"
           /\ placeBar[c] = IF Mode[c] = "send" THEN WriteJob(Name[c]) ELSE ReadJob(Name[c])
           /\ fileBar[c] = IF Mode[c] = "send" THEN Whole(c) ELSE Served(ReadJob(Name[c]))
           /\ Refused(c) <=> placeBar[c] = "None"
           /\ c \in storableBar <=>
                /\ placeBar[c] = "LoadFW" \/ Size[c] <= MaxCfg
                /\ placeBar[c] = "LoadFCfg" \/ Size[c] > 0
                /\ placeBar[c] = "LoadCfg" => HasPartition
BY DEF readersBar, placeBar, fileBar, storableBar, Refused

LEMMA UnitsSub ==
    ASSUME NEW f \in Client \union Jobs, NEW p \in Nat, NEW m \in Nat, NEW k \in Nat, m <= k
    PROVE  SubSeq(Units(f, 1, k), p + 1, m) = Units(f, p + 1, m)
<1>1. PICK w \in Seq(Item) : w = Units(f, 1, k)
  BY UnitsType
<1>2. PICK u \in Seq(Item) : u = Units(f, p + 1, m)
  BY UnitsType
<1>3. Len(w) = k /\ Len(u) = IF m < p + 1 THEN 0 ELSE m - p
  <2>1. Len(Units(f, 1, k)) = IF k < 1 THEN 0 ELSE (k - 1) + 1
    BY ONLY UnitsLength, k \in Nat, 1 \in Nat
  <2>2. Len(Units(f, p + 1, m)) = IF m < p + 1 THEN 0 ELSE (m - (p + 1)) + 1
    BY ONLY UnitsLength, p + 1 \in Nat, m \in Nat
  <2>3. QED BY <1>1, <1>2, <2>1, <2>2
<1>4. /\ SubSeq(w, p + 1, m) \in Seq(Item) /\ Len(SubSeq(w, p + 1, m)) = Len(u)
      /\ \A i \in 1 .. Len(u) : SubSeq(w, p + 1, m)[i] = w[p + i]
  BY ONLY <1>1, <1>2, <1>3, p \in Nat, m \in Nat, k \in Nat, m <= k
<1>5. ASSUME NEW i \in 1 .. Len(u) PROVE w[p + i] = u[i]
  <2>1. PICK x \in 1 .. Len(w) : x = p + i
    BY <1>3
  <2>2. Units(f, 1, k)[x] = <<f, (1 + x) - 1>>
    <3>1. x \in 1 .. Len(Units(f, 1, k))
      BY ONLY <1>1, <2>1
    <3>2. QED BY ONLY <3>1, UnitsAt, k \in Nat, 1 \in Nat
  <2>3. PICK y \in Nat : y = p + 1
    OBVIOUS
  <2>4. Units(f, y, m)[i] = <<f, (y + i) - 1>>
    <3>1. i \in 1 .. Len(Units(f, y, m))
      BY ONLY <1>2, <2>3, i \in 1 .. Len(u)
    <3>2. QED BY ONLY <3>1, UnitsAt, m \in Nat, y \in Nat
  <2>5. (1 + x) - 1 = (y + i) - 1
    BY <1>3, <2>1, <2>3
  <2>6. QED BY ONLY <1>1, <1>2, <2>1, <2>2, <2>3, <2>4, <2>5
<1>6. SubSeq(w, p + 1, m) = u
  BY ONLY <1>2, <1>4, <1>5, SeqEqual
<1>7. QED BY <1>1, <1>2, <1>6

LEMMA WholeLength ==
    ASSUME NEW a \in Client
    PROVE  Len(Whole(a)) = Size[a] /\ Whole(a) = SubSeq(Whole(a), 1, Size[a]) /\ Size[a] \in Nat
<1>1. PICK size \in Nat : size = Size[a]
  BY Sizes
<1>2. Len(Units(a, 1, size)) = IF size < 1 THEN 0 ELSE (size - 1) + 1
  BY ONLY UnitsLength, size \in Nat, 1 \in Nat
<1>3. SubSeq(Units(a, 1, size), 0 + 1, size) = Units(a, 0 + 1, size)
  BY ONLY UnitsSub, a \in Client, size \in Nat, 0 \in Nat
<1>4. QED BY <1>1, <1>2, <1>3 DEF Whole

---------------------------------------------------------------------------
(* The end of an upload.                                                     *)

(* A part of a partition image is one from its start.                        *)
LEMMA ClosedPart ==
    ASSUME TransfersInv, NEW a \in Client, Calm(a), spc = "write", mclient = a,
           WriteBlock \/ UNCHANGED got, WriteBlock => spc' # "write",
           a \in storableBar, placeBar[a] = "LoadFCfg", job = "LoadFCfg",
           NEW data, data = IF WriteBlock THEN got' ELSE got
    PROVE  \E n \in 0 .. Len(Whole(a)) : data = SubSeq(Whole(a), 1, n)
<1>1. Writable /\ Size[a] <= MaxCfg
  BY BarsOf DEF Writable
<1>2. CASE WriteBlock
  <2>1. mclient' = a /\ job' = job
    BY <1>2, Uploading DEF WriteBlock
  <2>2. Writable'
    BY <1>1, <2>1 DEF Writable
  <2>3. data = Whole(a)
    BY <1>2, <2>1, <2>2, ClosedWhole
  <2>4. QED BY <2>3, WholeLength
<1>3. CASE ~WriteBlock
  <2>1. PICK size \in Nat, k \in Nat : size = Size[a] /\ k = block - 1
    BY Sizes, CalmTypes
  <2>2. PICK m \in Nat : m = k * Blk
    BY Times
  <2>3. Sending(a)
    BY CalmTypes DEF Calm, Focus
  <2>4. m <= size /\ got = Units(a, 1, m)
    BY <1>1, <2>1, <2>2, <2>3 DEF Sending
  <2>5. SubSeq(Units(a, 1, size), 0 + 1, m) = Units(a, 0 + 1, m)
    BY ONLY <2>4, UnitsSub, a \in Client, size \in Nat, m \in Nat, 0 \in Nat
  <2>6. m \in 0 .. Len(Whole(a)) /\ Whole(a) = Units(a, 1, size)
    BY <2>1, <2>4, WholeLength DEF Whole
  <2>7. QED BY <1>3, <2>4, <2>5, <2>6
<1>4. QED BY <1>2, <1>3

LEMMA ClosedStored ==
    ASSUME TransfersInv, TransfersInv', StoredInv, Granted, NEW a \in Client, Calm(a),
           WriteBlock \/ WriteBroken \/ WriteTimeout, WriteBlock => spc' # "write",
           NEW how, NEW data, NEW then, NEW ok, OnClose(how, data, then, ok),
           data = IF WriteBlock THEN got' ELSE got
    PROVE  /\ \/ stored' = [stored EXCEPT ![job] = fileBar[a]]
              \/ Service!Unfinished(a, job)
           /\ spc = "write" /\ mclient = a /\ Mode[a] = "send" /\ job \in Loads
           /\ fileBar[a] = Whole(a)
<1>1. spc = "write"
  BY DEF WriteBlock, WriteBroken, WriteTimeout
<1>2. mclient = a /\ Mode[a] = "send" /\ job \in Loads /\ fileBar[a] = Whole(a)
  BY <1>1, CalmTypes, BarsOf DEF Calm, Focus, Engaged, Granted
<1>3. stored' = IF job \in Loads /\ Accepted(job, data) /\ ok
                  THEN [stored EXCEPT ![job] = data] ELSE stored
  BY DEF OnClose
<1>4. CASE stored' = stored
  BY <1>1, <1>2, <1>4 DEF Service!Unfinished
<1>5. CASE stored' = [stored EXCEPT ![job] = data] /\ job = "LoadFCfg"
  <2>1. "LoadFCfg" \in DOMAIN stored
    BY DEF StoredInv, Loads
  <2>2. stored'["LoadFCfg"] = data
    BY <1>5, <2>1
  <2>3. a \in storableBar /\ job = placeBar[a] =>
          \E n \in 0 .. Len(Whole(a)) : data = SubSeq(Whole(a), 1, n)
    <3>1. WriteBlock \/ UNCHANGED got
      BY DEF WriteBroken, WriteTimeout
    <3>2. QED BY <1>1, <1>2, <1>5, <3>1, ClosedPart
  <2>4. QED BY <1>1, <1>2, <1>5, <2>2, <2>3 DEF Service!Unfinished
<1>6. CASE /\ stored' = [stored EXCEPT ![job] = data] /\ Accepted(job, data)
           /\ job # "LoadFCfg"
  <2>1. job \in {"LoadCfg", "LoadFW"}
    BY <1>2, <1>6 DEF Loads
  <2>2. data = Whole(a)
    BY <1>2, <1>6, <2>1, ClosedOne
  <2>3. QED BY <1>1, <1>2, <1>6, <2>2
<1>7. QED BY <1>3, <1>4, <1>5, <1>6

LEMMA CloseMaps ==
    ASSUME NEW a \in Client, Calm(a), hurried \/ Alone(a), spc = "write", spc' # "write",
           mclient = a, job \in Loads,
           UNCHANGED <<cst, result, hurried>>, calmBar' => calmBar,
           \/ stored' = [stored EXCEPT ![job] = fileBar[a]]
           \/ /\ ~(calmBar' /\ ~hurried /\ cst[a] = "done" /\ a \in storableBar)
              /\ Service!Unfinished(a, job)
    PROVE  Service!Next
<1>1. openBar = {<<a, job>>} /\ openBar' = {}
  BY DEF openBar
<1>2. Service!Undelayed(a)
  BY DEF Service!Undelayed, Service!Alone, Alone
<1>3. Service!Close(a, job)
  BY <1>1, <1>2, Disturbs DEF Service!Close
<1>4. QED BY <1>3 DEF Service!Next

(* The last block, or a short one that came early, closes an upload.         *)
LEMMA BlockCloses ==
    ASSUME TransfersInv, TransfersInv', StoredInv, Granted, NEW a \in Client, Calm(a),
           hurried \/ Alone(a), WriteBlock, spc' # "write",
           UNCHANGED <<cst, result, hurried>>, calmBar' => calmBar
    PROVE  Service!Next
<1>1. PICK ok \in BOOLEAN : OnClose("complete", got', "run", ok) /\ Outcome(ok)
  BY DEF WriteBlock
<1>2. PICK data : data = got'
  OBVIOUS
<1>3. /\ \/ stored' = [stored EXCEPT ![job] = fileBar[a]]
         \/ Service!Unfinished(a, job)
      /\ spc = "write" /\ mclient = a /\ Mode[a] = "send" /\ job \in Loads
      /\ fileBar[a] = Whole(a)
  BY <1>1, <1>2, ClosedStored
<1>4. ASSUME a \in storableBar, calmBar', ~hurried
      PROVE  stored' = [stored EXCEPT ![job] = fileBar[a]]
  <2>1. job = placeBar[a] /\ job = WriteJob(Name[a])
    BY <1>3, <1>4, BarsOf DEF Granted
  <2>2. mclient' = a /\ job' = job
    BY Uploading DEF WriteBlock
  <2>3. faults' = 0
    BY <1>4 DEF calmBar
  <2>4. Writable'
    BY <1>4, <2>1, <2>2, <2>3, BarsOf DEF Writable
  <2>5. got' = Whole(a)
    BY <2>2, <2>4, ClosedWhole
  <2>6. ok = TRUE
    <3>1. faults \in Nat
      BY Sizes DEF Calm, Types, ServerTypes
    <3>2. QED BY <1>1, <2>3, <3>1, OkOutcome
  <2>7. Accepted(job, got')
    <3>1. CASE job = "LoadFCfg"
      BY <3>1 DEF Accepted
    <3>2. CASE job # "LoadFCfg"
      <4>1. Size[a] > 0 /\ (job = "LoadCfg" => HasPartition)
        BY <1>4, <2>1, <3>2, BarsOf
      <4>2. PICK size \in Nat : size = Size[a] /\ 1 \in 1 .. size
        BY <4>1, Sizes
      <4>3. Len(Units(a, 1, size)) = size
        BY <4>2, WholeLength DEF Whole
      <4>4. 1 \in 1 .. Len(Units(a, 1, size))
        BY <4>2, <4>3
      <4>5. Units(a, 1, size)[1] = <<a, (1 + 1) - 1>>
        BY ONLY <4>4, UnitsAt, size \in Nat, 1 \in Nat
      <4>6. Whole(a) # <<>> /\ Whole(a)[1] = <<a, 1>>
        BY <4>2, <4>3, <4>5 DEF Whole
      <4>7. QED BY <1>3, <2>1, <2>5, <4>1, <4>6 DEF Accepted, HeaderOf
    <3>3. QED BY <3>1, <3>2
  <2>8. stored' = IF job \in Loads /\ Accepted(job, got') /\ ok
                    THEN [stored EXCEPT ![job] = got'] ELSE stored
    BY <1>1 DEF OnClose
  <2>9. QED BY <1>3, <2>5, <2>6, <2>7, <2>8
<1>5. QED BY <1>3, <1>4, CloseMaps

(* An upload whose client says nothing more, or another's request ends.      *)
LEMMA OtherwiseCloses ==
    ASSUME TransfersInv, TransfersInv', StoredInv, Granted, Settled,
           NEW a \in Client, Calm(a), hurried \/ Alone(a), WriteTimeout \/ WriteBroken,
           UNCHANGED clientVars, UNCHANGED <<cst, result, hurried>>, calmBar' => calmBar
    PROVE  Service!Next
<1>1. PICK how, then, ok : OnClose(how, got, then, ok) /\ then \in {"run", "parse", "hung"}
  BY DEF WriteTimeout, WriteBroken
<1>2. ~WriteBlock
  BY InMailType DEF WriteTimeout, WriteBroken, WriteBlock
<1>3. PICK data : data = got
  OBVIOUS
<1>4. /\ \/ stored' = [stored EXCEPT ![job] = fileBar[a]]
         \/ Service!Unfinished(a, job)
      /\ spc = "write" /\ mclient = a /\ Mode[a] = "send" /\ job \in Loads
      /\ fileBar[a] = Whole(a)
  BY <1>1, <1>2, <1>3, ClosedStored
<1>5. spc' # "write"
  BY <1>1, OnCloseType
<1>6. ~(calmBar' /\ ~hurried /\ cst[a] = "done")
  <2>1. CASE WriteTimeout
    <3>1. ~Absent(a) /\ ~LastBlock(a)
      BY <1>4, <2>1, OneOf DEF WriteTimeout, Absent, LastBlock
    <3>2. QED BY <1>4, <3>1 DEF Settled
  <2>2. CASE WriteBroken
    <3>1. toServer # <<>> /\ Msg.c # a /\ toServer \in Seq(Datum)
      BY <2>2, CalmBroken, CalmTypes, InMailType DEF WriteBroken
    <3>2. ~Alone(a)
      BY <3>1, TailOf DEF Alone, OnlyFrom, Msg
    <3>3. QED BY <3>2
  <2>3. QED BY <2>1, <2>2
<1>7. QED BY <1>4, <1>5, <1>6, CloseMaps

---------------------------------------------------------------------------
(* What the server does.                                                     *)

LEMMA RequestMaps ==
    ASSUME NEW a \in Client, Calm(a), hurried \/ Alone(a), RunRequest \/ ParseAgain,
           UNCHANGED <<cst, result, drops, early, hurried>>, calmBar' => calmBar
    PROVE  [Service!Next]_(Service!fvars)
<1>1. PICK q \in Datum :
        /\ q.c \in Client /\ StartRequest(q) /\ mclient' = q.c
        /\ (q.op = "WRQ" <=> Mode[q.c] = "send")
        /\ cst[q.c] # "idle" /\ spc \in {"run", "parse"} /\ (Alone(a) => q.c = a)
  BY RequestOf
<1>2. openBar = {} /\ UNCHANGED stored
  BY <1>1 DEF openBar, StartRequest, StartWrite, StartRead
<1>3. CASE spc' # "write"
  BY <1>2, <1>3, QuietMaps DEF Quiet, openBar
<1>4. CASE spc' = "write"
  <2>1. PICK c \in Client : c = q.c
    BY <1>1
  <2>2. StartWrite(q) /\ q.op = "WRQ"
    BY <1>1, <1>4 DEF StartRequest, StartRead, SendBlock
  <2>3. job' = WriteJob(Name[c]) /\ job' # "None" /\ Outcome(TRUE)
    BY <1>4, <2>1, <2>2 DEF StartWrite
  <2>4. c \notin readersBar /\ placeBar[c] = job' /\ placeBar[c] # "None"
    BY <1>1, <2>1, <2>2, <2>3, BarsOf
  <2>5. openBar' = {<<c, placeBar[c]>>} /\ calmBar' = calmBar
    BY <1>1, <1>4, <2>1, <2>3, <2>4 DEF openBar, calmBar, Outcome
  <2>6. Service!Undelayed(c)
    BY <1>1, <2>1 DEF Service!Undelayed, Service!Alone, Alone
  <2>7. Service!Open(c)
    BY <1>1, <1>2, <2>1, <2>4, <2>5, <2>6 DEF Service!Open
  <2>8. QED BY <2>7 DEF Service!Next
<1>5. QED BY <1>3, <1>4

(* A repeated request is the open upload's, or it takes that upload over.    *)
LEMMA RepeatMaps ==
    ASSUME NEW a \in Client, Calm(a), hurried \/ Alone(a), Refusals, Granted, WriteRepeat,
           UNCHANGED <<cst, result, drops, early, hurried>>
    PROVE  [Service!Next]_(Service!fvars)
<1>1. /\ UNCHANGED <<spc, job, stored, faults>>
      /\ spc = "write" /\ mclient = a /\ mclient' \in Client /\ Mode[mclient'] = "send"
      /\ mclient' # a => hurried /\ cst[a] # "wait" /\ cst[mclient'] # "idle"
  BY GrantedRepeat
<1>2. calmBar' = calmBar
  BY <1>1 DEF calmBar
<1>3. CASE mclient' = a
  BY <1>1, <1>2, <1>3, QuietMaps DEF Quiet, openBar
<1>4. CASE mclient' # a
  <2>1. PICK c \in Client : c = mclient' /\ c # a
    BY <1>1, <1>4
  <2>2. c \notin readersBar
    BY <1>1, <2>1, BarsOf
  <2>3. openBar = {<<a, job>>} /\ openBar' = {<<c, job>>} /\ job \in Loads
    BY <1>1, <2>1 DEF openBar, Granted
  <2>4. a \in Client \ {c}
    BY <2>1
  <2>5. Service!TakeOver(c)
    BY <1>1, <1>2, <2>1, <2>2, <2>3, <2>4 DEF Service!TakeOver
  <2>6. QED BY <2>5 DEF Service!Next
<1>5. QED BY <1>3, <1>4

LEMMA ServerMaps ==
    ASSUME TransfersInv, TransfersInv', ServiceInv, StoredInv,
           NEW a \in Client, Calm(a), hurried \/ Alone(a),
           ServerStep \/ ServerTimeout \/ PowerCycle,
           UNCHANGED clientVars, UNCHANGED <<early, hurried>>
    PROVE  [Service!Next]_(Service!fvars)
<1>1. UNCHANGED <<cst, result, drops>> /\ faults \in Nat
  BY ServerType, Sizes DEF ServerKeeps, clientVars, Calm, Types, ServerTypes
<1>2. calmBar' => calmBar
  BY <1>1, FaultsGrow DEF calmBar
<1>3. CASE PowerCycle
  <2>1. openBar' = {} /\ UNCHANGED stored
    BY <1>3 DEF PowerCycle, Boot, openBar
  <2>2. ~calmBar'
    BY <1>1, <1>3, FaultsGrow DEF calmBar
  <2>3. QED BY <1>1, <1>2, <2>1, <2>2, DisturbMaps DEF Quiet
<1>4. CASE \/ StartServer \/ RunUnknown \/ ReadNext \/ ReadWrongAck \/ ReadNoAck
           \/ ReadTimeout \/ Reboot
  <2>1. CASE StartServer \/ RunUnknown \/ Reboot
    BY <1>1, <1>2, <2>1, QuietMaps
    DEF StartServer, RunUnknown, Reboot, Boot, Quiet, openBar
  <2>2. CASE ReadNext \/ ReadWrongAck \/ ReadNoAck \/ ReadTimeout
    <3>1. spc = "ack" /\ spc' \in {"run", "ack"} /\ UNCHANGED stored
      BY <2>2
      DEF ReadNext, ReadAcked, ReadWrongAck, ReadNoAck, ReadTimeout, Resend, SendBlock
    <3>2. QED BY <1>1, <1>2, <3>1, QuietMaps DEF Quiet, openBar
  <2>3. QED BY <1>4, <2>1, <2>2
<1>5. CASE WriteRepeat
  BY <1>1, <1>5, RepeatMaps DEF ServiceInv
<1>6. CASE WriteBlock /\ spc' = "write"
  <2>1. mclient = a /\ mclient' = a /\ spc = "write" /\ job' = job
    BY <1>6, Uploading DEF WriteBlock
  <2>2. UNCHANGED stored
    <3>1. PICK ok : IF Len(Msg.d) < Blk THEN OnClose("complete", got', "run", ok)
                    ELSE UNCHANGED <<spc, stored, closed>>
      BY <1>6 DEF WriteBlock
    <3>2. QED BY <1>6, <3>1, OnCloseType
  <2>3. QED BY <1>1, <1>2, <1>6, <2>1, <2>2, QuietMaps DEF Quiet, openBar
<1>7. CASE WriteBlock /\ spc' # "write"
  BY <1>1, <1>2, <1>7, BlockCloses DEF ServiceInv
<1>8. CASE WriteTimeout \/ WriteBroken
  BY <1>1, <1>2, <1>8, OtherwiseCloses DEF ServiceInv
<1>9. CASE RunRequest \/ ParseAgain
  BY <1>1, <1>2, <1>9, RequestMaps
<1>10. QED
  BY <1>3, <1>4, <1>5, <1>6, <1>7, <1>8, <1>9 DEF ServerStep, ServerTimeout

---------------------------------------------------------------------------
(* What a client does.                                                       *)

(* The block a reader takes is the next one of its file.                     *)
LEMMA NextTaken ==
    ASSUME Types, Inboxes, Runs, NEW a \in Client, Mode[a] = "read", HasAnswer(a, "DATA"),
           Expected(a)
    PROVE  Answer(a).d = Service!NextBlock(a)
<1>1. cst[a] = "wait" /\ Answer(a) \in ForReader(a) /\ Answer(a).op = "DATA"
  BY TailOf DEF HasAnswer, Answer, Inboxes
<1>2. PICK j \in Jobs : j = Asked(a) /\ fileBar[a] = Served(j)
  BY JobsType, BarsOf DEF Asked
<1>3. PICK size \in Nat : size = Limit(j) /\ Served(j) = Units(j, 1, size) /\ Len(Served(j)) = size
  BY <1>2, LimitType, Sizes
<1>4. PICK n \in Nat \ {0} : n = pktN[a]
  BY <1>1 DEF Runs, Collected, Types, ClientTypes
<1>5. Answer(a).d = Block(j, size, n)
  BY <1>1, <1>2, <1>3, <1>4 DEF ForReader, OfJob, Expected
<1>6. PICK p \in Nat : p = (n - 1) * Blk /\ n * Blk = p + Blk
  <2>1. PICK k \in Nat : k = n - 1 /\ n = k + 1
    OBVIOUS
  <2>2. k * Blk \in Nat /\ (k + 1) * Blk = k * Blk + Blk
    BY Times
  <2>3. QED BY ONLY <2>1, <2>2
<1>7. p <= size /\ result[a] = Units(j, 1, p)
  BY <1>1, <1>2, <1>3, <1>4, <1>6 DEF Runs, Collected
<1>8. Len(result[a]) = p
  <2>1. Len(Units(j, 1, p)) = IF p < 1 THEN 0 ELSE (p - 1) + 1
    BY ONLY UnitsLength, p \in Nat, 1 \in Nat
  <2>2. QED BY <1>7, <2>1
<1>9. PICK to \in Nat : to = (IF p + Blk < size THEN p + Blk ELSE size) /\ to <= size
  BY Sizes
<1>10. Service!NextBlock(a) = SubSeq(Units(j, 1, size), p + 1, to)
  BY ONLY <1>2, <1>3, <1>8, <1>9 DEF Service!NextBlock
<1>11. SubSeq(Units(j, 1, size), p + 1, to) = Units(j, p + 1, to)
  BY ONLY <1>9, UnitsSub, j \in Jobs, p \in Nat, to \in Nat, size \in Nat
<1>12. Block(j, size, n) = Units(j, p + 1, to)
  BY ONLY <1>6, <1>9 DEF Block
<1>13. QED BY <1>5, <1>10, <1>11, <1>12

LEMMA ReadMaps ==
    ASSUME Types, Inboxes, Runs, Refusals, NEW a \in Client, ReadBlock(a),
           openBar' = openBar, calmBar' = calmBar, UNCHANGED <<stored, hurried>>
    PROVE  [Service!Next]_(Service!fvars)
<1>1. Mode[a] = "read" /\ HasAnswer(a, "DATA")
  BY DEF ReadBlock
<1>2. CASE ~Expected(a)
  BY <1>2, QuietMaps DEF ReadBlock, clientVars, Quiet
<1>3. CASE Expected(a)
  <2>1. /\ result' = [result EXCEPT ![a] = @ \o Answer(a).d]
        /\ IF Len(Answer(a).d) < Blk THEN Ends(a, "done") ELSE UNCHANGED cst
    BY <1>3 DEF ReadBlock
  <2>2. Answer(a).d = Service!NextBlock(a)
    BY <1>1, <1>3, NextTaken
  <2>3. a \in readersBar /\ placeBar[a] # "None"
    <3>1. Answer(a) \in Allowed(a) /\ Answer(a).op = "DATA"
      BY <1>1, TailOf DEF HasAnswer, Answer, Refusals
    <3>2. QED BY <1>1, <3>1, BarsOf DEF Allowed
  <2>4. cst[a] = "wait"
    BY <1>1 DEF HasAnswer
  <2>5. Service!Take(a)
    BY <2>1, <2>2, <2>3, <2>4 DEF Service!Take, Service!Ends, Ends
  <2>6. QED BY <2>5 DEF Service!Next
<1>4. QED BY <1>2, <1>3

LEMMA SendMaps ==
    ASSUME NEW b \in Client, Calm(b), hurried \/ Alone(b), RetriesInv, Refusals, Granted,
           NEW a \in Client, SendNext(a), Alone(b) => a = b,
           openBar' = openBar, calmBar' = calmBar, UNCHANGED <<stored, hurried>>
    PROVE  [Service!Next]_(Service!fvars)
<1>1. Mode[a] = "send" /\ HasAnswer(a, "ACK") /\ UNCHANGED result
      /\ (UNCHANGED cst \/ Ends(a, "done"))
  BY DEF SendNext
<1>2. CASE UNCHANGED cst
  BY <1>1, <1>2, QuietMaps DEF Quiet
<1>3. CASE Ends(a, "done")
  <2>1. cst[a] = "wait"
    BY <1>1 DEF HasAnswer
  <2>2. a \notin readersBar
    BY <1>1, BarsOf
  <2>3. ASSUME ~hurried PROVE placeBar[a] # "None"
    <3>1. Answer(a) \in Allowed(a) /\ Answer(a).op = "ACK"
      BY <1>1, <2>3, TailOf DEF HasAnswer, Answer, Refusals
    <3>2. QED BY <3>1, BarsOf DEF Allowed
  <2>4. ASSUME ~hurried, calmBar PROVE openBar = {<<a, placeBar[a]>>}
    <3>1. spc = "write" /\ mclient = a
      BY <1>1, <2>4, AckInStep
    <3>2. QED BY <1>1, <2>4, <3>1, BarsOf DEF Granted, openBar
  <2>5. Service!Finish(a)
    BY <1>1, <1>3, <2>1, <2>2, <2>3, <2>4 DEF Service!Finish, Service!Ends, Ends
  <2>6. QED BY <2>5 DEF Service!Next
<1>4. QED BY <1>1, <1>2, <1>3

LEMMA FailMaps ==
    ASSUME Types, RetriesInv, NEW a \in Client, ClientRuns(a) \/ ClientTimeout(a),
           cst[a] = "wait", Ends(a, "failed"),
           openBar' = openBar, calmBar' => calmBar, UNCHANGED <<stored, result, hurried>>
    PROVE  Service!Next
<1>1. placeBar[a] = "None" \/ hurried \/ ~calmBar'
  <2>1. SUFFICES ASSUME calmBar', ~hurried PROVE placeBar[a] = "None"
    OBVIOUS
  <2>2. cst'[a] = "failed" /\ early' = 0 /\ drops = 0 /\ faults = 0 /\ early = 0
    BY <2>1, EndsType DEF calmBar
  <2>3. 0 < Patience /\ 0 < MaxRetry /\ MaxRetry \in Nat
    BY Sizes
  <2>4. OnTime(a)
    BY <2>1, <2>2, <2>3 DEF OnTime
  <2>5. Refused(a) \/ MaxRetry <= drops
    BY <2>2, <2>4, ClientInStep
  <2>6. QED BY <2>2, <2>3, <2>5, BarsOf
<1>2. Service!Fail(a)
  BY <1>1, Disturbs DEF Service!Fail, Service!Ends, Ends
<1>3. QED BY <1>2 DEF Service!Next

LEMMA ClientMaps ==
    ASSUME NEW b \in Client, Calm(b), hurried \/ Alone(b), RetriesInv, Refusals, Granted,
           NEW a \in Client, ClientRuns(a) \/ ClientTimeout(a) \/ Stop(a)
    PROVE  [Service!Next]_(Service!fvars)
<1>1. /\ early \in Nat /\ early' \in Nat /\ early <= early' /\ UNCHANGED drops
      /\ UNCHANGED <<stored, spc, mclient, job, faults, hurried>> /\ cst[a] = "wait"
      /\ Types /\ Inboxes /\ Runs /\ (Alone(b) => a = b)
  BY ClientActs, ClientCalm DEF Calm, serverVars
<1>2. openBar' = openBar /\ (calmBar' => calmBar)
  BY <1>1 DEF openBar, calmBar
<1>3. CASE ClientRuns(a)
  <2>1. ClientStep(a) /\ UNCHANGED early
    BY <1>3 DEF ClientRuns
  <2>2. calmBar' = calmBar
    BY <1>1, <2>1 DEF calmBar
  <2>3. CASE RecvError(a)
    BY <1>1, <1>2, <1>3, <2>3, FailMaps DEF RecvError
  <2>4. CASE Ignore(a)
    BY <1>1, <1>2, <2>4, QuietMaps DEF Ignore, clientVars, Quiet
  <2>5. CASE ReadBlock(a)
    BY <1>1, <1>2, <2>2, <2>5, ReadMaps
  <2>6. CASE SendNext(a)
    BY <1>1, <1>2, <2>2, <2>6, SendMaps
  <2>7. QED BY <2>1, <2>3, <2>4, <2>5, <2>6 DEF ClientStep
<1>4. CASE ClientTimeout(a)
  <2>1. Timeout(a) /\ UNCHANGED result /\ (UNCHANGED cst \/ Ends(a, "failed"))
    BY <1>4 DEF ClientTimeout, Timeout
  <2>2. CASE UNCHANGED cst
    BY <1>1, <1>2, <2>1, <2>2, QuietMaps DEF Quiet
  <2>3. CASE Ends(a, "failed")
    BY <1>1, <1>2, <1>4, <2>1, <2>3, FailMaps
  <2>4. QED BY <2>1, <2>2, <2>3
<1>5. CASE Stop(a)
  <2>1. Kill(a) /\ UNCHANGED <<early, result>> /\ Ends(a, "killed")
    BY <1>5 DEF Stop, Kill
  <2>2. calmBar' = calmBar
    BY <1>1, <2>1 DEF calmBar
  <2>3. Service!Stop(a)
    BY <1>1, <1>2, <2>1, <2>2 DEF Service!Stop, Service!Ends, Ends
  <2>4. QED BY <2>3 DEF Service!Next
<1>6. QED BY <1>3, <1>4, <1>5

LEMMA StartMaps ==
    ASSUME Sequential, Types, NEW a \in Client, StartRun(a) PROVE Service!Next
<1>1. /\ \A d \in Client : cst[d] # "wait"
      /\ cst[a] = "idle" /\ cst' = [cst EXCEPT ![a] = "wait"]
      /\ UNCHANGED <<spc, mclient, job, stored, faults, result, drops, early>>
      /\ hurried' \in BOOLEAN /\ (spc = "run" \/ hurried')
  BY DEF StartRun, Start, ServerBack, serverVars
<1>2. openBar' = openBar /\ calmBar' = calmBar /\ (spc = "run" => openBar = {})
  BY <1>1 DEF openBar, calmBar
<1>3. Service!Begin(a)
  BY <1>1, <1>2 DEF Service!Begin, Service!Alone
<1>4. QED BY <1>3 DEF Service!Next

LEMMA LoseMaps == ASSUME Types, Lose PROVE [Service!Next]_(Service!fvars)
<1>1. Drop /\ UNCHANGED serverVars /\ UNCHANGED <<result, hurried>>
  BY DEF Lose, clientVars
<1>2. drops' = drops + 1 /\ UNCHANGED cst
  BY <1>1 DEF Drop, DropToServer, DropToClient
<1>3. drops \in Nat
  BY Sizes DEF Types, NetTypes
<1>4. ~calmBar'
  BY <1>2, <1>3 DEF calmBar
<1>5. openBar' = openBar /\ UNCHANGED stored
  BY <1>1 DEF serverVars, openBar
<1>6. QED BY <1>1, <1>2, <1>4, <1>5, QuietMaps DEF Quiet

LEMMA ServiceMaps ==
    ASSUME Sequential, TransfersInv, TransfersInv', RetriesInv, ServiceInv, StoredInv,
           [Next]_vars
    PROVE  [Service!Next]_(Service!fvars)
<1>1. PICK a \in Client : Calm(a) /\ (hurried \/ Alone(a))
  BY DEF TransfersInv, Transfers, Calm
<1>2. CASE ServerRuns \/ LateServer \/ PowerFails
  <2>1. /\ UNCHANGED clientVars /\ UNCHANGED <<early, hurried>>
        /\ ServerStep \/ ServerTimeout \/ PowerCycle
    BY <1>2 DEF ServerRuns, LateServer, PowerFails, ServerGoesOn
  <2>2. QED BY <1>1, <2>1, ServerMaps
<1>3. ASSUME NEW c \in Client, ClientRuns(c) \/ ClientTimeout(c) \/ Stop(c)
      PROVE  [Service!Next]_(Service!fvars)
  BY <1>1, <1>3, ClientMaps DEF ServiceInv
<1>4. CASE Lose
  BY <1>1, <1>4, LoseMaps DEF Calm
<1>5. CASE UNCHANGED vars
  <2>1. UNCHANGED <<cst, result, stored, spc, mclient, job, drops, faults, early, hurried>>
    BY <1>5 DEF vars, netVars, serverVars, clientVars
  <2>2. QED BY <2>1 DEF Service!fvars, openBar, calmBar
<1>6. QED BY <1>1, <1>2, <1>3, <1>4, <1>5, StartMaps DEF Next, Calm

(* One transfer after another, server, network and tool implement the        *)
(* service of FileService, for every number of clients, files, losses,       *)
(* failures and retries: a run that reads ends well only with the whole      *)
(* file; what is stored is what the upload under way brought, whole or, of a *)
(* partition image that was cut short, a part from its start; and the file   *)
(* of a run that ended well is stored, or still being received, unless       *)
(* something goes wrong or a run was begun before the server was back.  Of   *)
(* such runs it says how far their interference goes: one may fail, or have  *)
(* its file stored in the place of the upload it cut short                   *)
(* (mstd.cfg.py:560-609, tftp_server.cpp:80-180, tftp_ota_server.cpp:194).   *)
THEOREM TransfersAreService == ASSUME Sequential PROVE Spec => ImplementsService
<1>1. Init => Service!Init
  BY DEF Init, NetInit, ServerInit, ClientInit, Service!Init, openBar, calmBar
<1>2. TransfersInv /\ TransfersInv' /\ RetriesInv /\ ServiceInv /\ StoredInv /\ [Next]_vars
        => [Service!Next]_(Service!fvars)
  <2>1. ASSUME TransfersInv, TransfersInv', RetriesInv, ServiceInv, StoredInv, [Next]_vars
        PROVE  [Service!Next]_(Service!fvars)
    BY <2>1, ServiceMaps
  <2>2. QED BY <2>1
<1>3. QED
  BY <1>1, <1>2, TransfersHold, RetriesHold, ServiceHolds, StoredHolds, PTL
  DEF Spec, ImplementsService, Service!Spec
=============================================================================
