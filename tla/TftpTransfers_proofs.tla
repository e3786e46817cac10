----------------------- MODULE TftpTransfers_proofs ------------------------
(* One transfer after another, also of runs that begin before the server is  *)
(* back from the last: what is uploaded and downloaded is the file, for      *)
(* every size of a block, a mailbox and a file, any number of clients, and   *)
(* any losses, failures, resets and early timeouts; and, at the end,         *)
(* downloads of one file by runs that overlap.                               *)
EXTENDS Tftp_proofs

(* What client a may have sent when it is at block n, and what a reader may  *)
(* get.                                                                      *)
FromClient(a, n) ==
    {p \in Datum :
       /\ p.c = a
       /\ IF Mode[a] = "send"
            THEN \/ p.op = "WRQ"
                 \/ p.op = "DATA" /\ p.n \in 1 .. n /\ p.d = Block(a, Size[a], p.n)
            ELSE p.op \in {"RRQ", "ACK"}}

Asked(c) == ReadJob(Name[c])
OfJob(j) == {p \in Datum : p.op = "DATA" => p.n # 0 /\ p.d = Block(j, Limit(j), p.n)}
ForReader(c) == OfJob(Asked(c))

(* The request of a client that is, as ns says, at its first block; one that *)
(* has got nothing but ERRORs.                                               *)
First(c, ns) == ns[c] = IF Mode[c] = "send" THEN 0 ELSE 1
Opening(p, ns) == p = Req(p.c) /\ First(p.c, ns)
AllOpening(q, ns) == \A k \in 1 .. Len(q) : Opening(q[k], ns)
Unserved(c) ==
    First(c, pktN) /\ \A i \in 1 .. Len(toClient[c]) : toClient[c][i].op = "ERROR"

(* Datagrams q, while the runs are in states st and at blocks ns: those of a *)
(* come first, the others are requests of runs begun since, and nothing is   *)
(* behind those of a client that waits.                                      *)
Mail(a, q, st, ns) ==
    /\ \A k \in 1 .. Len(q) :
         /\ st[q[k].c] # "idle"
         /\ IF q[k].c = a THEN q[k] \in FromClient(a, ns[a]) ELSE Opening(q[k], ns)
    /\ \A i, k \in 1 .. Len(q) : i < k =>
         /\ q[i].c # a => Opening(q[k], ns)
         /\ st[q[i].c] = "wait" => q[k].c = q[i].c
OnlyFrom(a, q) == \A k \in 1 .. Len(q) : q[k].c = a

(* a's requests come before its data, and ACKs are of blocks before the m-th. *)
RequestsFirst(a, q) ==
    \A i, k \in 1 .. Len(q) :
      i < k /\ q[i].c = a /\ q[k].c = a /\ q[k].op = "WRQ" => q[i].op = "WRQ"
NoRequest(a, q) == \A i \in 1 .. Len(q) : q[i].c = a => q[i].op # "WRQ"
AcksBelow(q, m) == \A i \in 1 .. Len(q) : q[i].op = "ACK" => q[i].n < m

(* a is the client the server has served last; one that waits has nobody     *)
(* behind it, or has not been served yet.                                    *)
Engaged(a) ==
    /\ Mail(a, toServer, cst, pktN)
    /\ \A c \in Client : cst[c] = "wait" =>
         Unserved(c) \/ (c = a /\ OnlyFrom(a, toServer))
    /\ \A c, d \in Client : cst[c] = "wait" /\ cst[d] = "wait" => c = d
    /\ spc # "hung"
    /\ spc \in {"write", "ack", "parse"} =>
         cst[a] # "idle" /\ (cst[a] = "wait" => OnlyFrom(a, toServer))
    /\ spc \in {"write", "parse", "reboot"} => mclient = a
    /\ spc = "parse" => out = Req(a) /\ First(a, pktN) /\ (cst[a] = "wait" => Unserved(a))

(* While client a sends: it is at most at the block the server expects, and  *)
(* what the server has is the file up to that block.                         *)
Sending(a) ==
    /\ spc # "ack"
    /\ RequestsFirst(a, toServer)
    /\ NoRequest(a, toServer) \/ (pktN[a] <= 1 /\ AcksBelow(toClient[a], 1))
    /\ spc = "write" =>
         /\ pktN[a] <= block /\ block <= pktN[a] + 1
         /\ AcksBelow(toClient[a], block)
         /\ IF block = 1 THEN got = <<>> ELSE NoRequest(a, toServer)
         /\ got # <<>> => got[1][1] = a
         /\ (block - 1) * Blk <= Size[a]
         /\ Writable => got = Units(a, 1, (block - 1) * Blk)

(* In m_buffer is the block whose ACK the server waits for.                  *)
ServesBlock ==
    /\ out.n = block /\ (block - 1) * Blk <= Limit(job)
    /\ out.d = Block(job, Limit(job), block)
    /\ cur = (block - 1) * Blk + Len(out.d)

(* While client a reads: that block is of what it asked for.  Once another   *)
(* client's request has come, an ERROR is in its place.                      *)
Spoiled(a) == out.op # "DATA" /\ AllOpening(toServer, pktN) /\ cst[a] # "wait"
Reading(a) ==
    /\ spc # "write"
    /\ spc = "ack" =>
         job = Asked(a) /\ ServesBlock /\ (mclient # a => Spoiled(a))

Focus(a) ==
    /\ Engaged(a)
    /\ Mode[a] = "send" => Sending(a)
    /\ Mode[a] = "read" => Reading(a)

(* Only a has anything to do with the server: a run that was not hurried.    *)
Alone(a) ==
    /\ OnlyFrom(a, toServer)
    /\ \A c \in Client : c # a => cst[c] # "wait"
    /\ spc # "parse" /\ (spc = "ack" => mclient = a)

(* A reader has the blocks up to the one it waits for.                       *)
Collected(c) ==
    /\ pktN[c] # 0
    /\ IF cst[c] = "done" THEN result[c] = Units(Asked(c), 1, Limit(Asked(c)))
       ELSE /\ (pktN[c] - 1) * Blk <= Limit(Asked(c))
            /\ result[c] = Units(Asked(c), 1, (pktN[c] - 1) * Blk)

Inboxes ==
    \A c \in Client :
      /\ cst[c] # "wait" => toClient[c] = <<>>
      /\ Mode[c] = "read" => toClient[c] \in Seq(ForReader(c))

Runs ==
    \A c \in Client :
      /\ cst[c] = "idle" => First(c, pktN)
      /\ Mode[c] = "read" => Collected(c)

Transfers == Inboxes /\ Runs /\ \E a \in Client : Focus(a) /\ (hurried \/ Alone(a))

---------------------------------------------------------------------------
(* Blocks.                                                                   *)

(* Appending block n to the blocks before it gives the file up to the end of *)
(* block n; a block that is short is the last one.                           *)
LEMMA BlockFacts ==
    ASSUME NEW f \in Client \union Jobs, NEW size \in Nat, NEW n \in Nat \ {0},
           (n - 1) * Blk <= size
    PROVE  /\ Block(f, size, n) \in Seq(Item)
           /\ Len(Block(f, size, n))
                = (IF n * Blk < size THEN n * Blk ELSE size) - (n - 1) * Blk
           /\ Len(Block(f, size, n)) <= Blk
           /\ Units(f, 1, (n - 1) * Blk) \o Block(f, size, n)
                = Units(f, 1, IF n * Blk < size THEN n * Blk ELSE size)
           /\ Len(Block(f, size, n)) < Blk =>
                Units(f, 1, (n - 1) * Blk) \o Block(f, size, n) = Units(f, 1, size)
           /\ ~(Len(Block(f, size, n)) < Blk) =>
                /\ n * Blk <= size
                /\ Units(f, 1, (n - 1) * Blk) \o Block(f, size, n) = Units(f, 1, n * Blk)
<1>1. PICK a \in Nat : a = (n - 1) * Blk
  <2>1. n - 1 \in Nat
    OBVIOUS
  <2>2. QED BY <2>1, Times
<1>2. n * Blk = a + Blk
  <2>1. PICK p \in Nat : n = p + 1 /\ n - 1 = p
    OBVIOUS
  <2>2. (p + 1) * Blk = p * Blk + Blk
    BY Times
  <2>3. QED BY <1>1, <2>1, <2>2
<1>3. PICK b \in Nat : b = IF n * Blk < size THEN n * Blk ELSE size
  BY <1>1, <1>2, Sizes
<1>4. a <= b /\ b <= a + Blk /\ b <= size /\ (b - a < Blk => b = size)
      /\ (~(b - a < Blk) => b = n * Blk /\ n * Blk <= size)
  BY <1>1, <1>2, <1>3, Sizes
<1>5. Block(f, size, n) = Units(f, a + 1, b)
  BY ONLY <1>1, <1>3 DEF Block
<1>6. Units(f, 1, a) \o Units(f, a + 1, b) = Units(f, 1, b)
  BY ONLY <1>4, UnitsJoin, f \in Client \union Jobs, a \in Nat, b \in Nat
<1>7. Len(Block(f, size, n)) = b - a
  <2>1. PICK q \in Nat : q = a + 1
    OBVIOUS
  <2>2. Len(Units(f, q, b)) = IF b < q THEN 0 ELSE (b - q) + 1
    BY ONLY UnitsLength, q \in Nat, b \in Nat
  <2>3. Len(Units(f, q, b)) = b - a
    BY <1>4, <2>1, <2>2
  <2>4. QED BY ONLY <1>5, <2>1, <2>3
<1>8. Block(f, size, n) \in Seq(Item)
  BY BlockType
<1>9. PICK l \in Nat : l = Len(Block(f, size, n)) /\ l = b - a
  BY <1>7, <1>8
<1>10. l <= Blk /\ (l < Blk => b = size) /\ (~(l < Blk) => b = n * Blk /\ n * Blk <= size)
  BY <1>4, <1>9, Sizes
<1>11. Units(f, 1, a) \o Block(f, size, n) = Units(f, 1, b)
  BY ONLY <1>5, <1>6
<1>12. QED BY ONLY <1>1, <1>3, <1>8, <1>9, <1>10, <1>11

LEMMA ServedIsBlock ==
    ASSUME NEW j \in Jobs, NEW n \in Nat \ {0}
    PROVE  ServedBlock(j, (n - 1) * Blk) = Block(j, Limit(j), n)
<1>1. PICK a \in Nat : a = (n - 1) * Blk
  <2>1. n - 1 \in Nat
    OBVIOUS
  <2>2. QED BY <2>1, Times
<1>2. n * Blk = a + Blk
  <2>1. PICK p \in Nat : n = p + 1 /\ n - 1 = p
    OBVIOUS
  <2>2. (p + 1) * Blk = p * Blk + Blk
    BY Times
  <2>3. QED BY <1>1, <2>1, <2>2
<1>3. ServedBlock(j, a)
        = Units(j, a + 1, IF a + Blk < Limit(j) THEN a + Blk ELSE Limit(j))
  BY ONLY ServedType, j \in Jobs, a \in Nat
<1>4. QED BY ONLY <1>1, <1>2, <1>3 DEF Block

LEMMA NoUnits ==
    ASSUME NEW f \in Client \union Jobs PROVE (1 - 1) * Blk = 0 /\ Units(f, 1, 0) = <<>>
<1>1. (1 - 1) * Blk = 0
  <2>1. \A x \in Nat : 0 * x = 0
    OBVIOUS
  <2>2. Blk \in Nat /\ 1 - 1 = 0
    BY Sizes
  <2>3. QED BY <2>1, <2>2
<1>2. PICK z \in Nat, u \in Nat \ {0} : z = 0 /\ u = 1
  OBVIOUS
<1>3. Units(f, u, z) \in Seq(Item)
  BY ONLY UnitsType, f \in Client \union Jobs, z \in Nat, u \in Nat \ {0}
<1>4. Len(Units(f, u, z)) = IF z < u THEN 0 ELSE (z - u) + 1
  BY ONLY UnitsLength, z \in Nat, u \in Nat \ {0}
<1>5. Len(Units(f, u, z)) = 0
  BY <1>2, <1>4
<1>6. Units(f, u, z) = <<>>
  BY ONLY <1>3, <1>5
<1>7. QED BY ONLY <1>1, <1>2, <1>6
---------------------------------------------------------------------------
(* What the server sends of a file, whoever asks.                            *)

LEMMA OfJobType ==
    ASSUME NEW j, NEW ps \in Seq(OfJob(j)) PROVE ps \in Seq(Datum)
<1>1. \A p \in OfJob(j) : p \in Datum
  BY DEF OfJob
<1>2. \A i \in 1 .. Len(ps) : ps[i] \in Datum
  BY <1>1
<1>3. Len(ps) \in Nat /\ DOMAIN ps = 1 .. Len(ps) /\ ps = [i \in 1 .. Len(ps) |-> ps[i]]
  OBVIOUS
<1>4. QED BY <1>2, <1>3

LEMMA SendsBlock ==
    ASSUME NEW j, NEW c, NEW before \in Seq(OfJob(j)), out' \in OfJob(j), SendBlock(c, before)
    PROVE  (\E ps \in Seq(OfJob(j)) : Send(c, ps)) /\ spc' \in {"run", "ack"}
<1>1. Append(before, out') \in Seq(OfJob(j))
  BY AppendOf
<1>2. PICK ok \in BOOLEAN :
        /\ Send(c, IF ok THEN Append(before, out') ELSE before)
        /\ spc' = IF ok THEN "ack" ELSE "run"
  BY DEF SendBlock
<1>3. (IF ok THEN Append(before, out') ELSE before) \in Seq(OfJob(j))
  BY <1>1
<1>4. QED BY <1>2, <1>3

LEMMA FirstBlock ==
    ASSUME Types, NEW q \in Datum, StartRead(q)
    PROVE  /\ job' = Asked(q.c) /\ \E ps \in Seq(OfJob(job')) : Send(q.c, ps)
           /\ spc' \in {"run", "ack"} /\ (spc' = "ack" => ServesBlock')
<1>1. PICK c \in Client : c = q.c
  BY Fields
<1>2. PICK j \in Jobs : j = Asked(c)
  BY JobsType DEF Asked
<1>3. job' = j
  BY <1>1, <1>2 DEF StartRead, Asked
<1>4. CASE j = "None"
  <2>1. Send(c, <<Err(c)>>) /\ spc' = "run"
    BY <1>1, <1>3, <1>4 DEF StartRead
  <2>2. Err(c) \in Datum /\ Err(c).op = "ERROR"
    BY Replies DEF Err, Pkt
  <2>3. Err(c) \in OfJob(j)
    BY <2>2 DEF OfJob
  <2>4. <<Err(c)>> \in Seq(OfJob(j))
    BY <2>3
  <2>5. QED BY ONLY <1>1, <1>2, <1>3, <2>1, <2>4
<1>5. CASE j # "None"
  <2>1. /\ out' = Pkt("DATA", c, 1, ServedBlock(j, 0))
        /\ SendBlock(c, <<>>) /\ block' = 1 /\ cur' = Len(out'.d)
    BY <1>1, <1>3, <1>5 DEF StartRead
  <2>2. PICK n \in Nat \ {0} : n = 1
    OBVIOUS
  <2>3. PICK z \in Nat : z = 0 /\ (n - 1) * Blk = z
    BY <2>2, NoUnits
  <2>4. ServedBlock(j, z) = Block(j, Limit(j), n)
    BY ONLY <2>3, ServedIsBlock, n \in Nat \ {0}, j \in Jobs
  <2>5. ServedBlock(j, z) \in Seq(Item)
    BY ONLY ServedType, z \in Nat, j \in Jobs
  <2>6. out' = Pkt("DATA", c, n, Block(j, Limit(j), n))
    BY ONLY <2>1, <2>2, <2>3, <2>4
  <2>7. /\ out' \in Datum /\ out'.op = "DATA" /\ out'.n = n
        /\ out'.d = Block(j, Limit(j), n)
    BY <2>4, <2>5, <2>6, PktType DEF Op
  <2>8. out' \in OfJob(j)
    BY <2>2, <2>7 DEF OfJob
  <2>9. (block' - 1) * Blk <= Limit(job') /\ cur' = (block' - 1) * Blk + Len(out'.d)
    <3>1. (block' - 1) * Blk = 0
      BY ONLY <2>1, <2>2, <2>3
    <3>2. 0 <= Limit(job')
      BY <1>3, LimitType, Sizes
    <3>3. PICK l \in Nat : l = Len(out'.d)
      BY <2>7, Fields
    <3>4. 0 + l = l
      OBVIOUS
    <3>5. QED BY ONLY <2>1, <3>1, <3>2, <3>3, <3>4
  <2>10. out'.n = block' /\ out'.d = Block(job', Limit(job'), block')
    BY ONLY <1>3, <2>1, <2>2, <2>7
  <2>11. ServesBlock'
    BY <2>9, <2>10 DEF ServesBlock
  <2>12. (\E ps \in Seq(OfJob(j)) : Send(c, ps)) /\ spc' \in {"run", "ack"}
    <3>1. <<>> \in Seq(OfJob(j))
      OBVIOUS
    <3>2. QED BY ONLY <2>1, <2>8, <3>1, SendsBlock
  <2>13. QED BY ONLY <1>1, <1>2, <1>3, <2>11, <2>12
<1>6. QED BY <1>4, <1>5

LEMMA NextBlock ==
    ASSUME Types, ServesBlock, ReadNext
    PROVE  /\ job' = job
           /\ UNCHANGED toClient \/ \E ps \in Seq(OfJob(job)) : Send(Msg.c, ps)
           /\ spc' \in {"run", "ack"} /\ (spc' = "ack" => ServesBlock')
<1>1. toServer # <<>> /\ spc = "ack"
  BY InMailType DEF ReadNext, ReadAcked
<1>2. PICK c \in Client : c = Msg.c
  <2>1. Msg \in Datum
    BY <1>1, TailOf DEF Types, NetTypes, Msg
  <2>2. QED BY <2>1, Fields
<1>3. block \in Nat \ {0} /\ job \in Jobs /\ job' = job
  BY DEF Types, ServerTypes, ReadNext
<1>4. CASE Len(out.d) < Blk
  <2>1. spc' = "run" /\ UNCHANGED toClient
    BY <1>4 DEF ReadNext
  <2>2. QED BY <1>3, <2>1
<1>5. CASE ~(Len(out.d) < Blk)
  <2>1. /\ out' = Pkt("DATA", c, block + 1, ServedBlock(job, cur))
        /\ SendBlock(c, <<>>) /\ block' = block + 1 /\ cur' = cur + Len(out'.d)
    BY <1>1, <1>2, <1>5 DEF ReadNext
  <2>2. PICK n \in Nat \ {0} : n = block
    BY <1>3
  <2>3. PICK k \in Nat \ {0} : k = n + 1 /\ k - 1 = n
    OBVIOUS
  <2>4. PICK size \in Nat : size = Limit(job) /\ job \in Client \union Jobs
    BY <1>3, LimitType, Sizes
  <2>5. /\ (n - 1) * Blk <= size /\ out.d = Block(job, size, n)
        /\ cur = (n - 1) * Blk + Len(out.d) /\ ~(Len(Block(job, size, n)) < Blk)
    BY ONLY ServesBlock, <1>5, <2>2, <2>4 DEF ServesBlock
  <2>6. PICK m \in Nat : m = n * Blk
    BY Times
  <2>7. m <= size /\ Len(Block(job, size, n)) = m - (n - 1) * Blk
    <3>1. /\ n * Blk <= size
          /\ Len(Block(job, size, n))
               = (IF n * Blk < size THEN n * Blk ELSE size) - (n - 1) * Blk
      BY ONLY <2>4, <2>5, BlockFacts, n \in Nat \ {0}, size \in Nat
    <3>2. (IF m < size THEN m ELSE size) = m
      BY ONLY <2>6, <3>1, m \in Nat, size \in Nat
    <3>3. QED BY ONLY <2>6, <3>1, <3>2
  <2>8. cur = m
    <3>1. PICK p \in Nat : p = (n - 1) * Blk
      <4>1. n - 1 \in Nat
        OBVIOUS
      <4>2. QED BY <4>1, Times
    <3>2. cur = p + (m - p)
      BY ONLY <2>5, <2>7, <3>1
    <3>3. QED BY ONLY <3>2, m \in Nat, p \in Nat
  <2>9. (k - 1) * Blk = m
    BY ONLY <2>3, <2>6
  <2>10. ServedBlock(job, m) = Block(job, size, k)
    <3>1. ServedBlock(job, (k - 1) * Blk) = Block(job, Limit(job), k)
      BY ONLY <1>3, ServedIsBlock, k \in Nat \ {0}
    <3>2. QED BY ONLY <2>4, <2>9, <3>1
  <2>11. ServedBlock(job, m) \in Seq(Item)
    BY ONLY <1>3, ServedType, m \in Nat
  <2>12. out' = Pkt("DATA", c, k, Block(job, size, k)) /\ Block(job, size, k) \in Seq(Item)
    BY ONLY <2>1, <2>2, <2>3, <2>8, <2>10, <2>11
  <2>13. /\ out' \in Datum /\ out'.op = "DATA" /\ out'.n = k
         /\ out'.d = Block(job, size, k)
    BY <2>12, PktType DEF Op
  <2>14. out' \in OfJob(job)
    BY <2>3, <2>4, <2>13 DEF OfJob
  <2>15. /\ (block' - 1) * Blk <= Limit(job') /\ out'.n = block'
         /\ out'.d = Block(job', Limit(job'), block')
         /\ cur' = (block' - 1) * Blk + Len(out'.d)
    BY ONLY <1>3, <2>1, <2>2, <2>3, <2>4, <2>7, <2>8, <2>9, <2>13
  <2>16. ServesBlock'
    BY <2>15 DEF ServesBlock
  <2>17. (\E ps \in Seq(OfJob(job)) : Send(c, ps)) /\ spc' \in {"run", "ack"}
    <3>1. <<>> \in Seq(OfJob(job))
      OBVIOUS
    <3>2. QED BY ONLY <2>1, <2>14, <3>1, SendsBlock
  <2>18. QED BY ONLY <1>2, <1>3, <2>16, <2>17
<1>6. QED BY <1>4, <1>5

(* What is sent again is the same block, or an ERROR.                        *)
LEMMA BlockAgain ==
    ASSUME Types, ServesBlock, spc = "ack", NEW c \in Client, NEW before,
           NEW buffer \in Datum, Resend(c, before, buffer),
           before = <<>> \/ before = <<Err(c)>>,
           buffer.n = out.n /\ buffer.d = out.d
    PROVE  /\ job' = job /\ \E ps \in Seq(OfJob(job)) : Send(c, ps)
           /\ spc' \in {"run", "ack"} /\ (spc' = "ack" => ServesBlock')
<1>1. block \in Nat \ {0}
  BY DEF Types, ServerTypes
<1>2. out' = [buffer EXCEPT !.c = c] /\ UNCHANGED <<job, block, cur>>
  BY DEF Resend
<1>3. out' \in Datum /\ out'.n = out.n /\ out'.d = out.d
  BY <1>2 DEF Datum
<1>5. Err(c) \in Datum /\ Err(c).op = "ERROR"
  BY Replies DEF Err, Pkt
<1>6. out' \in OfJob(job) /\ Err(c) \in OfJob(job)
  BY <1>1, <1>3, <1>5 DEF OfJob, ServesBlock
<1>7. before \in Seq(OfJob(job))
  <2>1. <<>> \in Seq(OfJob(job))
    OBVIOUS
  <2>2. <<Err(c)>> \in Seq(OfJob(job))
    BY <1>6
  <2>3. QED BY <2>1, <2>2
<1>8. (\E ps \in Seq(OfJob(job)) : Send(c, ps)) /\ spc' \in {"run", "ack"}
  <2>1. SendBlock(c, before) \/ (Send(c, before) /\ spc' = "run")
    BY DEF Resend
  <2>2. QED BY ONLY <1>6, <1>7, <2>1, SendsBlock
<1>9. ServesBlock'
  BY <1>2, <1>3 DEF ServesBlock
<1>10. QED BY <1>2, <1>8, <1>9

(* To a client that was not served before nothing but ERRORs is sent again.  *)
LEMMA ErrorsAgain ==
    ASSUME Types, NEW c \in Client, Resend(c, <<Err(c)>>, Clobbered(c))
    PROVE  /\ out' \in Datum /\ out'.op = "ERROR"
           /\ \E ps \in Seq(Datum) : Send(c, ps) /\ \A i \in 1 .. Len(ps) : ps[i].op = "ERROR"
<1>1. out' \in Datum /\ out'.op = "ERROR"
  <2>1. Clobbered(c) \in Datum /\ out' = [Clobbered(c) EXCEPT !.c = c] /\ out \in Datum
    BY ClobberedType DEF Resend, Types, ServerTypes
  <2>2. Clobbered(c).op = "ERROR"
    BY <2>1 DEF Clobbered, Datum
  <2>3. QED BY <2>1, <2>2 DEF Datum
<1>2. Err(c) \in Datum /\ Err(c).op = "ERROR"
  BY Replies DEF Err, Pkt
<1>3. Send(c, <<Err(c)>>) \/ Send(c, Append(<<Err(c)>>, out'))
  <2>1. SendBlock(c, <<Err(c)>>) \/ Send(c, <<Err(c)>>)
    BY DEF Resend
  <2>2. QED BY <2>1 DEF SendBlock
<1>4. /\ <<Err(c)>> \in Seq(Datum) /\ Append(<<Err(c)>>, out') \in Seq(Datum)
      /\ \A i \in 1 .. Len(<<Err(c)>>) : <<Err(c)>>[i].op = "ERROR"
      /\ \A i \in 1 .. Len(Append(<<Err(c)>>, out')) :
           Append(<<Err(c)>>, out')[i].op = "ERROR"
  BY <1>1, <1>2
<1>5. QED BY <1>1, <1>3, <1>4

---------------------------------------------------------------------------
(* Datagrams on their way.                                                   *)

LEMMA FromClientFacts ==
    ASSUME NEW a \in Client, NEW n \in Nat, NEW p \in FromClient(a, n)
    PROVE  /\ p \in Datum /\ p.c = a
           /\ Mode[a] = "send" =>
                \/ p.op = "WRQ"
                \/ p.op = "DATA" /\ p.n \in 1 .. n /\ p.d = Block(a, Size[a], p.n)
           /\ Mode[a] # "send" => p.op \in {"RRQ", "ACK"}
           /\ p \in FromClient(a, n + 1)
<1>1. \A k \in 1 .. n : k \in 1 .. n + 1
  OBVIOUS
<1>2. QED BY <1>1 DEF FromClient

LEMMA Modes == ASSUME NEW a \in Client PROVE Mode[a] = "send" \/ Mode[a] = "read"
BY Sizes

LEMMA ReqFacts ==
    ASSUME NEW c \in Client, NEW n
    PROVE  /\ Req(c) \in Datum /\ Req(c).c = c /\ Req(c) \in FromClient(c, n)
           /\ Req(c).op = IF Mode[c] = "send" THEN "WRQ" ELSE "RRQ"
<1>1. Req(c) \in Datum
  BY Replies
<1>2. Req(c).c = c /\ Req(c).op = IF Mode[c] = "send" THEN "WRQ" ELSE "RRQ"
  BY DEF Req, Pkt
<1>3. QED BY <1>1, <1>2 DEF FromClient

LEMMA OpeningFacts ==
    ASSUME NEW p \in Datum, NEW ns, Opening(p, ns)
    PROVE  /\ p = Req(p.c) /\ First(p.c, ns) /\ p.op \in {"WRQ", "RRQ"}
           /\ Mode[p.c] = "send" <=> p.op = "WRQ"
           /\ \A n : p \in FromClient(p.c, n)
<1>1. p.c \in Client /\ p = Req(p.c) /\ First(p.c, ns)
  BY Fields DEF Opening
<1>2. QED BY <1>1, ReqFacts

(* Some of the datagrams of q, in their order.                               *)
Part(r, q) ==
    \E f \in [1 .. Len(r) -> 1 .. Len(q)] :
      /\ \A i \in 1 .. Len(r) : r[i] = q[f[i]]
      /\ \A i, k \in 1 .. Len(r) : i < k => f[i] < f[k]

LEMMA Parts ==
    ASSUME NEW q \in Seq(Datum)
    PROVE  /\ Part(q, q) /\ Part(<<>>, q)
           /\ q # <<>> => Part(Tail(q), q)
           /\ \A i \in 1 .. Len(q) : Part(Without(q, i), q)
<1>1. Part(q, q)
  <2> DEFINE f == [i \in 1 .. Len(q) |-> i]
  <2>1. f \in [1 .. Len(q) -> 1 .. Len(q)]
    OBVIOUS
  <2>2. /\ \A i \in 1 .. Len(q) : q[i] = q[f[i]]
        /\ \A i, k \in 1 .. Len(q) : i < k => f[i] < f[k]
    OBVIOUS
  <2> HIDE DEF f
  <2>3. QED BY <2>1, <2>2 DEF Part
<1>2. Part(<<>>, q)
  <2> DEFINE f == [i \in 1 .. Len(<<>>) |-> 1]
  <2>1. f \in [1 .. Len(<<>>) -> 1 .. Len(q)]
    OBVIOUS
  <2>2. /\ \A i \in 1 .. Len(<<>>) : <<>>[i] = q[f[i]]
        /\ \A i, k \in 1 .. Len(<<>>) : i < k => f[i] < f[k]
    OBVIOUS
  <2> HIDE DEF f
  <2>3. QED BY <2>1, <2>2 DEF Part
<1>3. ASSUME q # <<>> PROVE Part(Tail(q), q)
  <2> DEFINE f == [i \in 1 .. Len(Tail(q)) |-> i + 1]
  <2>1. \A i \in 1 .. Len(Tail(q)) : i + 1 \in 1 .. Len(q) /\ Tail(q)[i] = q[i + 1]
    BY <1>3, TailOf
  <2>2. f \in [1 .. Len(Tail(q)) -> 1 .. Len(q)]
    BY <2>1
  <2>3. /\ \A i \in 1 .. Len(Tail(q)) : Tail(q)[i] = q[f[i]]
        /\ \A i, k \in 1 .. Len(Tail(q)) : i < k => f[i] < f[k]
    BY <2>1
  <2> HIDE DEF f
  <2>4. QED BY <2>2, <2>3 DEF Part
<1>4. ASSUME NEW j \in 1 .. Len(q) PROVE Part(Without(q, j), q)
  <2> DEFINE f == [i \in 1 .. Len(q) - 1 |-> IF i < j THEN i ELSE i + 1]
  <2>1. /\ Len(Without(q, j)) = Len(q) - 1
        /\ \A i \in 1 .. Len(q) - 1 : Without(q, j)[i] = q[IF i < j THEN i ELSE i + 1]
    BY WithoutOf
  <2>2. f \in [1 .. Len(q) - 1 -> 1 .. Len(q)]
    OBVIOUS
  <2>3. /\ \A i \in 1 .. Len(q) - 1 : Without(q, j)[i] = q[f[i]]
        /\ \A i, k \in 1 .. Len(q) - 1 : i < k => f[i] < f[k]
    BY <2>1
  <2> HIDE DEF f
  <2>4. QED BY <2>1, <2>2, <2>3 DEF Part
<1>5. QED BY <1>1, <1>2, <1>3, <1>4

LEMMA PartKeeps ==
    ASSUME NEW q, NEW r, Part(r, q), NEW a
    PROVE  /\ \A st, ns : Mail(a, q, st, ns) => Mail(a, r, st, ns)
           /\ OnlyFrom(a, q) => OnlyFrom(a, r)
           /\ RequestsFirst(a, q) => RequestsFirst(a, r)
           /\ NoRequest(a, q) => NoRequest(a, r)
           /\ \A ns : AllOpening(q, ns) => AllOpening(r, ns)
           /\ \A m : AcksBelow(q, m) => AcksBelow(r, m)
<1>1. PICK f \in [1 .. Len(r) -> 1 .. Len(q)] :
        /\ \A i \in 1 .. Len(r) : r[i] = q[f[i]]
        /\ \A i, k \in 1 .. Len(r) : i < k => f[i] < f[k]
  BY DEF Part
<1>2. \A i \in 1 .. Len(r) : f[i] \in 1 .. Len(q) /\ r[i] = q[f[i]]
  BY <1>1
<1>3. \A i, k \in 1 .. Len(r) : i < k => f[i] < f[k]
  BY <1>1
<1>4. ASSUME NEW st, NEW ns, Mail(a, q, st, ns) PROVE Mail(a, r, st, ns)
  <2>1. /\ \A k \in 1 .. Len(q) :
             /\ st[q[k].c] # "idle"
             /\ IF q[k].c = a THEN q[k] \in FromClient(a, ns[a]) ELSE Opening(q[k], ns)
        /\ \A i, k \in 1 .. Len(q) : i < k =>
             /\ q[i].c # a => Opening(q[k], ns)
             /\ st[q[i].c] = "wait" => q[k].c = q[i].c
    BY <1>4 DEF Mail
  <2>2. ASSUME NEW k \in 1 .. Len(r)
        PROVE  /\ st[r[k].c] # "idle"
               /\ IF r[k].c = a THEN r[k] \in FromClient(a, ns[a]) ELSE Opening(r[k], ns)
    BY <1>2, <2>1
  <2>3. ASSUME NEW i \in 1 .. Len(r), NEW k \in 1 .. Len(r), i < k
        PROVE  /\ r[i].c # a => Opening(r[k], ns)
               /\ st[r[i].c] = "wait" => r[k].c = r[i].c
    <3>1. f[i] < f[k] /\ f[i] \in 1 .. Len(q) /\ f[k] \in 1 .. Len(q)
      BY <1>2, <1>3, <2>3
    <3>2. r[i] = q[f[i]] /\ r[k] = q[f[k]]
      BY <1>2
    <3>3. QED BY <2>1, <3>1, <3>2
  <2>4. QED BY <2>2, <2>3 DEF Mail
<1>5. ASSUME RequestsFirst(a, q) PROVE RequestsFirst(a, r)
  <2> SUFFICES ASSUME NEW i \in 1 .. Len(r), NEW k \in 1 .. Len(r),
                      i < k, r[i].c = a, r[k].c = a, r[k].op = "WRQ"
               PROVE  r[i].op = "WRQ"
    BY DEF RequestsFirst
  <2>1. f[i] < f[k] /\ f[i] \in 1 .. Len(q) /\ f[k] \in 1 .. Len(q)
    BY <1>2, <1>3
  <2>2. r[i] = q[f[i]] /\ r[k] = q[f[k]]
    BY <1>2
  <2>3. QED BY <1>5, <2>1, <2>2 DEF RequestsFirst
<1>6. /\ OnlyFrom(a, q) => OnlyFrom(a, r)
      /\ NoRequest(a, q) => NoRequest(a, r)
      /\ \A ns : AllOpening(q, ns) => AllOpening(r, ns)
      /\ \A m : AcksBelow(q, m) => AcksBelow(r, m)
  BY <1>2 DEF OnlyFrom, NoRequest, AllOpening, AcksBelow
<1>7. QED BY <1>4, <1>5, <1>6

LEMMA EmptyKeeps ==
    ASSUME NEW a, NEW m
    PROVE  /\ RequestsFirst(a, <<>>) /\ NoRequest(a, <<>>) /\ AcksBelow(<<>>, m)
           /\ OnlyFrom(a, <<>>) /\ \A st, ns : Mail(a, <<>>, st, ns)
BY DEF RequestsFirst, NoRequest, AcksBelow, OnlyFrom, Mail

(* One more datagram behind those of q.                                      *)
LEMMA AppendIs ==
    ASSUME NEW q \in Seq(Datum), NEW p \in Datum, NEW i \in 1 .. Len(Append(q, p))
    PROVE  \/ i \in 1 .. Len(q) /\ Append(q, p)[i] = q[i]
           \/ i = Len(q) + 1 /\ Append(q, p)[i] = p
BY AppendOf

LEMMA MailAppend ==
    ASSUME NEW a, NEW q \in Seq(Datum), NEW p \in Datum, NEW st, NEW ns,
           Mail(a, q, st, ns), st[p.c] # "idle",
           p.c = a => p \in FromClient(a, ns[a]),
           p.c # a => Opening(p, ns),
           Opening(p, ns) \/ OnlyFrom(a, q),
           \A k \in 1 .. Len(q) : st[q[k].c] = "wait" => q[k].c = p.c
    PROVE  Mail(a, Append(q, p), st, ns)
<1> DEFINE r == Append(q, p)
<1>1. \A i \in 1 .. Len(r) : \/ i \in 1 .. Len(q) /\ r[i] = q[i]
                             \/ i = Len(q) + 1 /\ r[i] = p
  BY AppendIs
<1> HIDE DEF r
<1>2. ASSUME NEW k \in 1 .. Len(r)
      PROVE  /\ st[r[k].c] # "idle"
             /\ IF r[k].c = a THEN r[k] \in FromClient(a, ns[a]) ELSE Opening(r[k], ns)
  BY <1>1 DEF Mail
<1>3. ASSUME NEW i \in 1 .. Len(r), NEW k \in 1 .. Len(r), i < k
      PROVE  /\ r[i].c # a => Opening(r[k], ns)
             /\ st[r[i].c] = "wait" => r[k].c = r[i].c
  <2>1. i \in 1 .. Len(q) /\ r[i] = q[i]
    <3>1. ~(i = Len(q) + 1)
      <4>1. k \in 1 .. Len(q) \/ k = Len(q) + 1
        BY <1>1
      <4>2. Len(q) \in Nat
        OBVIOUS
      <4>3. QED BY <1>3, <4>1, <4>2
    <3>2. QED BY <1>1, <3>1
  <2>2. CASE k \in 1 .. Len(q) /\ r[k] = q[k]
    BY <1>3, <2>1, <2>2 DEF Mail
  <2>3. CASE r[k] = p
    BY <2>1, <2>3 DEF OnlyFrom
  <2>4. QED BY <1>1, <2>2, <2>3
<1>4. Mail(a, r, st, ns)
  BY <1>2, <1>3 DEF Mail
<1>5. QED BY <1>4 DEF r

(* The states of runs that end, or that begin without a datagram in q.       *)
LEMMA MailStates ==
    ASSUME NEW a, NEW q \in Seq(Datum), NEW st, NEW su, NEW ns, Mail(a, q, st, ns),
           \A k \in 1 .. Len(q) :
             /\ su[q[k].c] # "idle"
             /\ su[q[k].c] = "wait" => st[q[k].c] = "wait"
    PROVE  Mail(a, q, su, ns)
BY DEF Mail

LEMMA MailNumber ==
    ASSUME NEW a \in Client, NEW q \in Seq(Datum), NEW st, NEW ns, NEW nt,
           Mail(a, q, st, ns), OnlyFrom(a, q), ns[a] \in Nat,
           nt[a] \in {ns[a], ns[a] + 1}
    PROVE  Mail(a, q, st, nt)
<1>1. \A k \in 1 .. Len(q) :
        q[k].c = a /\ st[q[k].c] # "idle" /\ q[k] \in FromClient(a, ns[a])
  BY DEF Mail, OnlyFrom
<1>2. \A k \in 1 .. Len(q) : q[k] \in FromClient(a, nt[a])
  BY <1>1, FromClientFacts
<1>3. QED BY <1>1, <1>2 DEF Mail

(* What stands first in the mailbox.                                         *)
LEMMA HeadFrom ==
    ASSUME NEW a \in Client, NEW q \in Seq(Datum), q # <<>>, NEW st, NEW ns,
           Mail(a, q, st, ns)
    PROVE  /\ Head(q) \in Datum /\ Head(q).c \in Client /\ st[Head(q).c] # "idle"
           /\ Head(q).c = a => Head(q) \in FromClient(a, ns[a])
           /\ Head(q).c # a => AllOpening(q, ns) /\ Opening(Head(q), ns)
           /\ st[Head(q).c] = "wait" => OnlyFrom(Head(q).c, q)
<1>1. Head(q) = q[1] /\ 1 \in 1 .. Len(q) /\ Head(q) \in Datum
  BY TailOf
<1>2. \A k \in 1 .. Len(q) : k = 1 \/ 1 < k
  OBVIOUS
<1>3. /\ st[q[1].c] # "idle"
      /\ IF q[1].c = a THEN q[1] \in FromClient(a, ns[a]) ELSE Opening(q[1], ns)
      /\ \A k \in 1 .. Len(q) : 1 < k =>
           /\ q[1].c # a => Opening(q[k], ns)
           /\ st[q[1].c] = "wait" => q[k].c = q[1].c
  BY <1>1 DEF Mail
<1>4. q[1].c # a => AllOpening(q, ns)
  BY <1>2, <1>3 DEF AllOpening
<1>5. st[q[1].c] = "wait" => OnlyFrom(q[1].c, q)
  BY <1>2, <1>3 DEF OnlyFrom
<1>6. QED BY <1>1, <1>3, <1>4, <1>5, Fields

(* Requests of runs not served yet may be anyone's.                          *)
LEMMA MailMoves ==
    ASSUME NEW a \in Client, NEW q \in Seq(Datum), NEW st, NEW ns, Mail(a, q, st, ns),
           AllOpening(q, ns), NEW b \in Client
    PROVE  Mail(b, q, st, ns) /\ (Mode[b] = "send" => RequestsFirst(b, q))
<1>1. \A k \in 1 .. Len(q) : q[k] \in Datum /\ Opening(q[k], ns)
  BY DEF AllOpening
<1>2. \A k \in 1 .. Len(q) : q[k].c = b =>
        q[k] \in FromClient(b, ns[b]) /\ (Mode[b] = "send" => q[k].op = "WRQ")
  BY <1>1, OpeningFacts
<1>3. QED BY <1>1, <1>2 DEF Mail, RequestsFirst

LEMMA TailKeeps ==
    ASSUME NEW a, NEW q \in Seq(Datum), q # <<>>, Head(q).c = a
    PROVE  /\ RequestsFirst(a, q) /\ Head(q).op # "WRQ" => NoRequest(a, Tail(q))
           /\ NoRequest(a, q) => Head(q).op # "WRQ"
<1>1. /\ Head(q) = q[1] /\ 1 \in 1 .. Len(q)
      /\ \A i \in 1 .. Len(Tail(q)) : i + 1 \in 1 .. Len(q) /\ Tail(q)[i] = q[i + 1]
  BY TailOf
<1>2. ASSUME RequestsFirst(a, q), Head(q).op # "WRQ" PROVE NoRequest(a, Tail(q))
  <2> SUFFICES ASSUME NEW i \in 1 .. Len(Tail(q)), Tail(q)[i].c = a, Tail(q)[i].op = "WRQ"
               PROVE  FALSE
    BY DEF NoRequest
  <2>1. 1 < i + 1
    OBVIOUS
  <2>2. QED BY <1>1, <1>2, <2>1 DEF RequestsFirst
<1>3. QED BY <1>1, <1>2 DEF NoRequest

LEMMA AppendKeeps ==
    ASSUME NEW a, NEW q \in Seq(Datum), NEW p \in Datum
    PROVE  /\ OnlyFrom(a, q) /\ p.c = a => OnlyFrom(a, Append(q, p))
           /\ RequestsFirst(a, q) /\ (p.c = a => p.op # "WRQ")
                => RequestsFirst(a, Append(q, p))
           /\ NoRequest(a, q) /\ (p.c = a => p.op # "WRQ") => NoRequest(a, Append(q, p))
           /\ (\A i \in 1 .. Len(q) : q[i].c = a => q[i].op = "WRQ")
                => RequestsFirst(a, Append(q, p))
           /\ \A ns : AllOpening(q, ns) /\ Opening(p, ns) => AllOpening(Append(q, p), ns)
<1> DEFINE r == Append(q, p)
<1>1. \A i \in 1 .. Len(r) : \/ i \in 1 .. Len(q) /\ r[i] = q[i]
                             \/ i = Len(q) + 1 /\ r[i] = p
  BY AppendIs
<1> HIDE DEF r
<1>2. /\ OnlyFrom(a, q) /\ p.c = a => OnlyFrom(a, r)
      /\ NoRequest(a, q) /\ (p.c = a => p.op # "WRQ") => NoRequest(a, r)
      /\ \A ns : AllOpening(q, ns) /\ Opening(p, ns) => AllOpening(r, ns)
  BY <1>1 DEF OnlyFrom, NoRequest, AllOpening
<1>3. ASSUME \/ RequestsFirst(a, q) /\ (p.c = a => p.op # "WRQ")
             \/ \A i \in 1 .. Len(q) : q[i].c = a => q[i].op = "WRQ"
      PROVE  RequestsFirst(a, r)
  <2> SUFFICES ASSUME NEW i \in 1 .. Len(r), NEW k \in 1 .. Len(r),
                      i < k, r[i].c = a, r[k].c = a, r[k].op = "WRQ"
               PROVE  r[i].op = "WRQ"
    BY DEF RequestsFirst
  <2>1. i \in 1 .. Len(q) /\ r[i] = q[i]
    <3>1. k \in 1 .. Len(q) \/ k = Len(q) + 1
      BY <1>1
    <3>2. Len(q) \in Nat
      OBVIOUS
    <3>3. QED BY <1>1, <3>1, <3>2
  <2>2. CASE k \in 1 .. Len(q) /\ r[k] = q[k]
    BY <1>3, <2>1, <2>2 DEF RequestsFirst
  <2>3. CASE r[k] = p
    BY <1>3, <2>1, <2>3
  <2>4. QED BY <1>1, <2>2, <2>3
<1>4. QED BY <1>2, <1>3 DEF r

LEMMA AcksKept ==
    ASSUME NEW q \in Seq(Datum), NEW m \in Nat, AcksBelow(q, m)
    PROVE  /\ q # <<>> => AcksBelow(Tail(q), m)
           /\ q # <<>> /\ Head(q).op = "ACK" => Head(q).n < m
           /\ \A p \in Datum : (p.op = "ACK" => p.n < m) => AcksBelow(Append(q, p), m)
<1>1. ASSUME q # <<>>
      PROVE  AcksBelow(Tail(q), m) /\ (Head(q).op = "ACK" => Head(q).n < m)
  <2>1. /\ Head(q) = q[1] /\ 1 \in 1 .. Len(q)
        /\ \A i \in 1 .. Len(Tail(q)) : i + 1 \in 1 .. Len(q) /\ Tail(q)[i] = q[i + 1]
    BY <1>1, TailOf
  <2>2. QED BY <2>1 DEF AcksBelow
<1>2. ASSUME NEW p \in Datum, p.op = "ACK" => p.n < m PROVE AcksBelow(Append(q, p), m)
  <2>1. \A i \in 1 .. Len(Append(q, p)) :
          \/ i \in 1 .. Len(q) /\ Append(q, p)[i] = q[i]
          \/ i = Len(q) + 1 /\ Append(q, p)[i] = p
    BY AppendIs
  <2>2. QED BY <1>2, <2>1 DEF AcksBelow
<1>3. QED BY <1>1, <1>2

LEMMA AcksMore ==
    ASSUME NEW q \in Seq(Datum), NEW m \in Nat, NEW k \in Nat, m <= k, AcksBelow(q, m)
    PROVE  AcksBelow(q, k)
<1>1. \A i \in 1 .. Len(q) : q[i].n \in Nat
  BY Fields
<1>2. QED BY <1>1 DEF AcksBelow

(* A client that has got nothing but ERRORs has no ACK.                      *)
LEMMA ErrorsOnly ==
    ASSUME NEW q \in Seq(Datum), \A i \in 1 .. Len(q) : q[i].op = "ERROR"
    PROVE  /\ AcksBelow(q, 1)
           /\ q # <<>> => Head(q).op = "ERROR" /\ \A i \in 1 .. Len(Tail(q)) : Tail(q)[i].op = "ERROR"
           /\ \A ps \in Seq(Datum) : (\A i \in 1 .. Len(ps) : ps[i].op = "ERROR") =>
                \A i \in 1 .. Len(q \o ps) : (q \o ps)[i].op = "ERROR"
<1>1. AcksBelow(q, 1)
  BY DEF AcksBelow
<1>2. ASSUME q # <<>>
      PROVE  Head(q).op = "ERROR" /\ \A i \in 1 .. Len(Tail(q)) : Tail(q)[i].op = "ERROR"
  BY <1>2, TailOf
<1>3. ASSUME NEW ps \in Seq(Datum), \A i \in 1 .. Len(ps) : ps[i].op = "ERROR",
             NEW i \in 1 .. Len(q \o ps)
      PROVE  (q \o ps)[i].op = "ERROR"
  BY <1>3, JoinedAt, ConcatOf
<1>4. QED BY <1>1, <1>2, <1>3
---------------------------------------------------------------------------
(* The steps of the server.                                                  *)

Calm(a) == Types /\ Inboxes /\ Runs /\ Focus(a)
StillCalm(a) == Inboxes' /\ Focus(a)'

LEMMA CalmTypes ==
    ASSUME NEW a \in Client, Calm(a)
    PROVE  /\ toServer \in Seq(Datum) /\ \A c \in Client : toClient[c] \in Seq(Datum)
           /\ Mail(a, toServer, cst, pktN) /\ pktN[a] \in Nat /\ block \in Nat \ {0}
           /\ out \in Datum /\ spc # "hung" /\ (spc = "write" => Mode[a] = "send")
           /\ (spc = "ack" => Mode[a] = "read")
BY Modes DEF Calm, Focus, Engaged, Sending, Reading, Types, NetTypes, ClientTypes, ServerTypes

LEMMA ServerSends ==
    ASSUME Types, Inboxes, NEW c \in Client, NEW ps \in Seq(Datum), Send(c, ps),
           UNCHANGED cst, Mode[c] = "read" => ps \in Seq(ForReader(c))
    PROVE  /\ Inboxes' /\ (toClient'[c] = toClient[c] \/ toClient'[c] = toClient[c] \o ps)
           /\ cst[c] # "wait" => toClient'[c] = toClient[c]
           /\ \A d \in Client : d # c => toClient'[d] = toClient[d]
<1>1. /\ toClient' = [toClient EXCEPT ![c] = IF cst[c] = "wait" THEN @ \o ps ELSE @]
      /\ toClient \in [Client -> Seq(Datum)]
  BY DEF Send, Types, NetTypes
<1>2. \A d \in Client : d # c => toClient'[d] = toClient[d]
  BY <1>1
<1>3. \/ cst[c] # "wait" /\ toClient'[c] = toClient[c]
      \/ cst[c] = "wait" /\ toClient'[c] = toClient[c] \o ps
  BY <1>1
<1>4. Mode[c] = "read" => toClient'[c] \in Seq(ForReader(c))
  <2> SUFFICES ASSUME Mode[c] = "read" PROVE toClient'[c] \in Seq(ForReader(c))
    OBVIOUS
  <2>1. toClient[c] \in Seq(ForReader(c)) /\ ps \in Seq(ForReader(c))
    BY DEF Inboxes
  <2>2. toClient[c] \o ps \in Seq(ForReader(c))
    BY ONLY <2>1, ConcatOf
  <2>3. QED BY <1>3, <2>1, <2>2
<1>5. Inboxes'
  <2> SUFFICES ASSUME NEW d \in Client
               PROVE  /\ cst'[d] # "wait" => toClient'[d] = <<>>
                      /\ Mode[d] = "read" => toClient'[d] \in Seq(ForReader(d))
    BY DEF Inboxes
  <2>1. CASE d = c
    BY <1>3, <1>4, <2>1 DEF Inboxes
  <2>2. CASE d # c
    BY <1>2, <2>2 DEF Inboxes
  <2>3. QED BY <2>1, <2>2
<1>6. QED BY <1>2, <1>3, <1>5

LEMMA InboxesStay == ASSUME Inboxes, UNCHANGED <<cst, toClient>> PROVE Inboxes'
BY DEF Inboxes

LEMMA RunsStay == ASSUME Runs, UNCHANGED <<cst, pktN, result>> PROVE Runs'
BY DEF Runs, Collected, First

(* recvfrom leaves the rest of the mailbox.                                  *)
LEMMA Received ==
    ASSUME NEW a \in Client, Calm(a), toServer # <<>>, Receive
    PROVE  /\ Msg \in Datum /\ mclient' = Msg.c /\ Msg = Head(toServer) /\ Msg.c \in Client
           /\ toServer' = Tail(toServer) /\ Part(toServer', toServer) /\ UNCHANGED cst
           /\ cst[Msg.c] # "idle" /\ (cst[Msg.c] = "wait" => OnlyFrom(Msg.c, toServer))
           /\ Msg.c = a => Msg \in FromClient(a, pktN[a])
           /\ Msg.c # a => AllOpening(toServer, pktN) /\ Opening(Msg, pktN)
<1>1. toServer' = Tail(toServer) /\ mclient' = Msg.c /\ UNCHANGED cst /\ Msg = Head(toServer)
  BY DEF Receive, Msg
<1>2. toServer \in Seq(Datum) /\ Mail(a, toServer, cst, pktN)
  BY CalmTypes
<1>3. QED BY <1>1, <1>2, Parts, HeadFrom

(* The client the server goes on with is still the same one.                 *)
LEMMA StillEngaged ==
    ASSUME NEW a \in Client, Calm(a), Part(toServer', toServer), UNCHANGED <<cst, pktN>>,
           \A c \in Client : cst[c] = "wait" /\ Unserved(c) =>
             Unserved(c)' \/ (c = a /\ OnlyFrom(a, toServer)),
           spc' \notin {"hung", "parse"},
           spc' \in {"write", "ack"} =>
             cst[a] # "idle" /\ (cst[a] = "wait" => OnlyFrom(a, toServer)),
           spc' \in {"write", "reboot"} => mclient' = a
    PROVE  Engaged(a)'
<1>1. Mail(a, toServer', cst, pktN) /\ (OnlyFrom(a, toServer) => OnlyFrom(a, toServer'))
  BY CalmTypes, PartKeeps
<1>2. QED BY <1>1 DEF Calm, Focus, Engaged

LEMMA UnservedStays ==
    ASSUME NEW c, Unserved(c), UNCHANGED pktN, toClient'[c] = toClient[c] PROVE Unserved(c)'
BY DEF Unserved, First

LEMMA CalmStart ==
    ASSUME NEW a \in Client, Calm(a), StartServer, UNCHANGED clientVars PROVE StillCalm(a)
<1>1. /\ spc' \in {"run", "stopped"}
      /\ UNCHANGED <<toServer, toClient, cst, mclient, pktN>>
  BY DEF StartServer, clientVars
<1>2. Inboxes'
  BY <1>1, InboxesStay DEF Calm
<1>3. Engaged(a)'
  BY <1>1, CalmTypes, Parts, UnservedStays, StillEngaged
<1>4. Mode[a] = "send" => Sending(a)'
  BY <1>1 DEF Calm, Focus, Sending
<1>5. Mode[a] = "read" => Reading(a)'
  BY <1>1 DEF Reading
<1>6. QED BY <1>2, <1>3, <1>4, <1>5 DEF StillCalm, Focus

LEMMA CalmUnknown ==
    ASSUME NEW a \in Client, Calm(a), RunUnknown, UNCHANGED clientVars PROVE StillCalm(a)
<1>1. toServer # <<>> /\ Receive /\ spc = "run" /\ UNCHANGED <<spc, toClient, pktN>>
  BY InMailType DEF RunUnknown, clientVars
<1>2. Part(toServer', toServer) /\ UNCHANGED cst
  BY <1>1, Received
<1>3. Inboxes' /\ Engaged(a)'
  BY <1>1, <1>2, InboxesStay, UnservedStays, StillEngaged DEF Calm
<1>4. Mode[a] = "send" => Sending(a)'
  BY <1>1, <1>2, PartKeeps DEF Calm, Focus, Sending
<1>5. Mode[a] = "read" => Reading(a)'
  BY <1>1 DEF Reading
<1>6. QED BY <1>3, <1>4, <1>5 DEF StillCalm, Focus

(* A reset empties the mailbox.                                              *)
LEMMA CalmBoot ==
    ASSUME NEW a \in Client, Calm(a), Boot, UNCHANGED clientVars PROVE StillCalm(a)
<1>1. /\ spc' = "start" /\ toServer' = <<>>
      /\ UNCHANGED <<toClient, cst, pktN>>
  BY DEF Boot, clientVars
<1>2. Part(toServer', toServer)
  BY <1>1, CalmTypes, Parts
<1>3. Inboxes' /\ Engaged(a)'
  BY <1>1, <1>2, InboxesStay, UnservedStays, StillEngaged DEF Calm
<1>4. Sending(a)' /\ Reading(a)'
  BY <1>1, EmptyKeeps DEF Sending, Reading
<1>5. QED BY <1>3, <1>4 DEF StillCalm, Focus

(* What is sent to the client the server goes on with.                       *)
LEMMA ServesOne ==
    ASSUME NEW a \in Client, Calm(a), UNCHANGED <<cst, pktN>>, Part(toServer', toServer),
           \A c \in Client : c # a => toClient'[c] = toClient[c],
           cst[a] # "wait" => toClient'[a] = toClient[a],
           cst[a] # "idle", cst[a] = "wait" => OnlyFrom(a, toServer),
           spc' \notin {"hung", "parse"}, spc' \in {"write", "reboot"} => mclient' = a
    PROVE  Engaged(a)'
<1>1. ASSUME NEW c \in Client, cst[c] = "wait", Unserved(c)
      PROVE  Unserved(c)' \/ (c = a /\ OnlyFrom(a, toServer))
  BY <1>1, UnservedStays
<1>2. QED BY <1>1, StillEngaged

(* A request of a sender: the upload starts with nothing received.           *)
LEMMA CalmWrite ==
    ASSUME NEW a \in Client, Calm(a), NEW q \in Datum, q.c = a, StartWrite(q),
           Mode[a] = "send", UNCHANGED <<cst, pktN>>, Part(toServer', toServer), mclient' = a,
           cst[a] # "idle", cst[a] = "wait" => OnlyFrom(a, toServer),
           pktN[a] <= 1, AcksBelow(toClient[a], 1), RequestsFirst(a, toServer)
    PROVE  StillCalm(a)
<1>1. toClient[a] \in Seq(Datum) /\ pktN[a] \in Nat
  BY CalmTypes
<1>2. \/ spc' = "run" /\ Send(a, <<Err(a)>>)
      \/ spc' = "write" /\ Send(a, <<Ack(a, 0)>>) /\ block' = 1
  BY Zenon DEF StartWrite
<1>3. /\ Err(a) \in Datum /\ Ack(a, 0) \in Datum /\ Err(a).op = "ERROR" /\ Ack(a, 0).n = 0
  BY Replies DEF Err, Ack, Pkt
<1>4. PICK p \in Datum : (p.op = "ACK" => p.n < 1) /\ Send(a, <<p>>)
  BY <1>2, <1>3
<1>5. <<p>> \in Seq(Datum) /\ toClient[a] \o <<p>> = Append(toClient[a], p)
  BY <1>1
<1>6. /\ Inboxes' /\ (toClient'[a] = toClient[a] \/ toClient'[a] = Append(toClient[a], p))
      /\ cst[a] # "wait" => toClient'[a] = toClient[a]
      /\ \A d \in Client : d # a => toClient'[d] = toClient[d]
  BY <1>4, <1>5, ServerSends DEF Calm
<1>7. AcksBelow(toClient'[a], 1)
  BY <1>1, <1>4, <1>6, AcksKept
<1>8. Engaged(a)'
  BY <1>2, <1>6, ServesOne
<1>9. RequestsFirst(a, toServer')
  BY PartKeeps
<1>10. Sending(a)'
  <2>1. spc' # "ack"
    BY <1>2
  <2>2. ASSUME spc' = "write"
        PROVE  /\ pktN[a] <= block' /\ block' <= pktN[a] + 1 /\ block' = 1
               /\ AcksBelow(toClient'[a], block') /\ got' = <<>>
               /\ (block' - 1) * Blk <= Size[a]
               /\ got' = Units(a, 1, (block' - 1) * Blk)
    <3>1. block' = 1 /\ got' = <<>>
      BY <1>2, <2>2 DEF StartWrite
    <3>2. (1 - 1) * Blk = 0 /\ Units(a, 1, 0) = <<>>
      BY NoUnits
    <3>3. 0 <= Size[a] /\ pktN[a] <= 1 /\ 1 <= pktN[a] + 1
      BY <1>1, Sizes
    <3>4. QED BY ONLY <1>7, <3>1, <3>2, <3>3
  <2>3. QED BY <1>7, <1>9, <2>1, <2>2 DEF Sending
<1>11. QED BY <1>6, <1>8, <1>10 DEF StillCalm, Focus

(* A request of a reader: the first block is what it asked for.              *)
LEMMA CalmRead ==
    ASSUME NEW a \in Client, Calm(a), NEW q \in Datum, q.c = a, StartRead(q),
           Mode[a] = "read", UNCHANGED <<cst, pktN>>, Part(toServer', toServer), mclient' = a,
           cst[a] # "idle", cst[a] = "wait" => OnlyFrom(a, toServer)
    PROVE  StillCalm(a)
<1>1. Types /\ job' = Asked(a) /\ spc' \in {"run", "ack"} /\ (spc' = "ack" => ServesBlock')
      /\ \E ps \in Seq(OfJob(job')) : Send(a, ps)
  BY FirstBlock DEF Calm
<1>2. PICK ps \in Seq(ForReader(a)) : Send(a, ps)
  BY <1>1 DEF ForReader
<1>3. ps \in Seq(Datum)
  BY OfJobType DEF ForReader
<1>4. /\ Inboxes' /\ (cst[a] # "wait" => toClient'[a] = toClient[a])
      /\ \A d \in Client : d # a => toClient'[d] = toClient[d]
  BY <1>2, <1>3, ServerSends DEF Calm
<1>5. Engaged(a)'
  BY <1>1, <1>4, ServesOne
<1>6. Reading(a)'
  BY <1>1 DEF Reading, Asked
<1>7. QED BY <1>4, <1>5, <1>6 DEF StillCalm, Focus

(* While the server waits for a request, it may as well be the next sender's. *)
LEMMA FocusMoves ==
    ASSUME NEW a \in Client, Calm(a), NEW w \in Client, w # a, toServer # <<>>,
           Msg.c = w, AllOpening(toServer, pktN)
    PROVE  /\ Mail(w, toServer, cst, pktN) /\ First(w, pktN)
           /\ \A c \in Client : cst[c] = "wait" => Unserved(c)
           /\ Mode[w] = "send" =>
                /\ RequestsFirst(w, toServer) /\ pktN[w] = 0 /\ AcksBelow(toClient[w], 1)
           /\ spc = "run" => Calm(w)
<1>1. toServer \in Seq(Datum) /\ toClient[w] \in Seq(Datum) /\ Mail(a, toServer, cst, pktN)
  BY CalmTypes
<1>2. Mail(w, toServer, cst, pktN) /\ (Mode[w] = "send" => RequestsFirst(w, toServer))
  BY <1>1, MailMoves
<1>3. 1 \in 1 .. Len(toServer) /\ toServer[1] = Msg
  BY <1>1, TailOf DEF Msg
<1>4. First(w, pktN) /\ (Mode[w] = "send" => pktN[w] = 0)
  BY <1>3 DEF AllOpening, Opening, First
<1>5. \A c \in Client : cst[c] = "wait" => Unserved(c)
  BY <1>3 DEF Calm, Focus, Engaged, OnlyFrom
<1>6. AcksBelow(toClient[w], 1)
  <2>1. CASE cst[w] = "wait"
    BY <1>1, <1>5, <2>1, ErrorsOnly DEF Unserved
  <2>2. CASE cst[w] # "wait"
    BY <2>2, EmptyKeeps DEF Calm, Inboxes
  <2>3. QED BY <2>1, <2>2
<1>7. ASSUME spc = "run" PROVE Calm(w)
  <2>1. Engaged(w)
    BY <1>2, <1>5, <1>7 DEF Calm, Focus, Engaged
  <2>2. Mode[w] = "send" => Sending(w)
    BY <1>2, <1>4, <1>6, <1>7 DEF Sending
  <2>3. Reading(w)
    BY <1>7 DEF Reading
  <2>4. QED BY <2>1, <2>2, <2>3 DEF Calm, Focus
<1>8. QED BY <1>2, <1>4, <1>5, <1>6, <1>7

LEMMA CalmRequest ==
    ASSUME NEW a \in Client, Calm(a), RunRequest, UNCHANGED clientVars, Msg.c = a
    PROVE  StillCalm(a)
<1>1. toServer # <<>> /\ Receive /\ StartRequest(Msg) /\ Msg.op \in {"WRQ", "RRQ"}
  BY InMailType DEF RunRequest
<1>2. /\ Msg \in FromClient(a, pktN[a]) /\ Msg \in Datum /\ mclient' = a
      /\ UNCHANGED cst /\ Part(toServer', toServer) /\ Msg = Head(toServer)
      /\ cst[a] # "idle" /\ (cst[a] = "wait" => OnlyFrom(a, toServer))
  BY <1>1, Received
<1>3. UNCHANGED <<cst, pktN>> /\ toServer \in Seq(Datum) /\ pktN[a] \in Nat
  BY <1>2, CalmTypes DEF clientVars
<1>4. CASE Mode[a] = "send"
  <2>1. Msg.op = "WRQ"
    BY <1>1, <1>2, <1>3, <1>4, FromClientFacts
  <2>2. StartWrite(Msg)
    BY <1>1, <2>1 DEF StartRequest
  <2>3. Sending(a) /\ ~NoRequest(a, toServer)
    BY <1>1, <1>2, <1>3, <1>4, <2>1, TailKeeps DEF Calm, Focus
  <2>4. pktN[a] <= 1 /\ AcksBelow(toClient[a], 1) /\ RequestsFirst(a, toServer)
    BY <2>3 DEF Sending
  <2>5. QED BY <1>2, <1>3, <1>4, <2>2, <2>4, CalmWrite
<1>5. CASE Mode[a] # "send"
  <2>1. Msg.op = "RRQ" /\ Mode[a] = "read"
    BY <1>1, <1>2, <1>3, <1>5, FromClientFacts, Modes
  <2>2. StartRead(Msg)
    BY <1>1, <2>1 DEF StartRequest
  <2>3. QED BY <1>2, <1>3, <2>1, <2>2, CalmRead
<1>6. QED BY <1>4, <1>5

(* The request left in m_buffer is served like one just received.            *)
LEMMA CalmParse ==
    ASSUME NEW a \in Client, Calm(a), ParseAgain, UNCHANGED clientVars PROVE StillCalm(a)
<1>1. spc = "parse" /\ StartRequest(out) /\ UNCHANGED <<toServer, cst, mclient, pktN>>
  BY DEF ParseAgain, clientVars
<1>2. /\ mclient = a /\ out = Req(a) /\ First(a, pktN) /\ (cst[a] = "wait" => Unserved(a))
      /\ cst[a] # "idle" /\ (cst[a] = "wait" => OnlyFrom(a, toServer))
  BY <1>1 DEF Calm, Focus, Engaged
<1>3. out \in Datum /\ out.c = a /\ out.op = IF Mode[a] = "send" THEN "WRQ" ELSE "RRQ"
  BY <1>2, ReqFacts
<1>4. Part(toServer', toServer) /\ toClient[a] \in Seq(Datum)
  BY <1>1, CalmTypes, Parts
<1>5. CASE Mode[a] = "send"
  <2>1. StartWrite(out) /\ pktN[a] <= 1 /\ RequestsFirst(a, toServer)
    BY <1>1, <1>2, <1>3, <1>5 DEF StartRequest, First, Calm, Focus, Sending
  <2>2. AcksBelow(toClient[a], 1)
    <3>1. CASE cst[a] = "wait"
      BY <1>2, <1>4, <3>1, ErrorsOnly DEF Unserved
    <3>2. CASE cst[a] # "wait"
      BY <3>2, EmptyKeeps DEF Calm, Inboxes
    <3>3. QED BY <3>1, <3>2
  <2>3. QED BY <1>1, <1>2, <1>3, <1>4, <1>5, <2>1, <2>2, CalmWrite
<1>6. CASE Mode[a] # "send"
  <2>1. StartRead(out) /\ Mode[a] = "read"
    BY <1>1, <1>3, <1>6, Modes DEF StartRequest
  <2>2. QED BY <1>1, <1>2, <1>3, <1>4, <2>1, CalmRead
<1>7. QED BY <1>5, <1>6

(* A block that arrives during an upload is the one expected, or an earlier  *)
(* one; no request of its sender is behind it.                               *)
LEMMA Uploading ==
    ASSUME NEW a \in Client, Calm(a), WriteBlock
    PROVE  /\ Mode[a] = "send" /\ mclient = a /\ mclient' = a /\ Msg.c = a /\ UNCHANGED cst
           /\ Part(toServer', toServer)
           /\ cst[a] # "idle" /\ (cst[a] = "wait" => OnlyFrom(a, toServer))
           /\ RequestsFirst(a, toServer') /\ NoRequest(a, toServer')
           /\ pktN[a] \in Nat /\ block \in Nat \ {0}
           /\ Msg.n \in Nat \ {0} /\ Msg.n <= pktN[a] /\ Msg.n <= block
           /\ pktN[a] <= block /\ block <= pktN[a] + 1
           /\ Msg.d = Block(a, Size[a], Msg.n) /\ Msg.d \in Seq(Item)
           /\ (block - 1) * Blk <= Size[a] /\ AcksBelow(toClient[a], block)
           /\ (block = 1 => got = <<>>) /\ (got # <<>> => got[1][1] = a)
           /\ Writable => got = Units(a, 1, (block - 1) * Blk)
           /\ Send(a, <<Ack(a, Msg.n)>>)
<1>1. toServer # <<>> /\ Receive /\ spc = "write" /\ Msg.op = "DATA" /\ Head(toServer) = Msg
  BY InMailType DEF WriteBlock, Msg
<1>2. Msg \in Datum /\ mclient' = Msg.c
  BY <1>1, Received
<1>3. Msg.c = a
  <2>1. Msg.c # a => Opening(Msg, pktN)
    BY <1>1, Received
  <2>2. ~Opening(Msg, pktN)
    BY <1>1, <1>2, OpeningFacts
  <2>3. QED BY <2>1, <2>2
<1>4. /\ Msg \in FromClient(a, pktN[a]) /\ mclient' = a /\ UNCHANGED cst
      /\ toServer' = Tail(toServer) /\ Part(toServer', toServer)
      /\ cst[a] # "idle" /\ (cst[a] = "wait" => OnlyFrom(a, toServer))
  BY <1>1, <1>3, Received
<1>5. Mode[a] = "send" /\ mclient = a
  BY <1>1, CalmTypes DEF Calm, Focus, Engaged
<1>6. pktN[a] \in Nat /\ block \in Nat \ {0} /\ toServer \in Seq(Datum)
  BY CalmTypes
<1>7. /\ Msg.n \in 1 .. pktN[a] /\ Msg.d = Block(a, Size[a], Msg.n) /\ Msg.d \in Seq(Item)
  BY <1>1, <1>4, <1>5, <1>6, FromClientFacts, Fields
<1>8. Sending(a)
  BY <1>5 DEF Calm, Focus
<1>9. RequestsFirst(a, toServer') /\ NoRequest(a, toServer')
  BY <1>1, <1>3, <1>4, <1>6, <1>8, TailKeeps, PartKeeps DEF Sending
<1>10. Send(a, <<Ack(a, Msg.n)>>)
  BY <1>3 DEF WriteBlock
<1>11. /\ pktN[a] <= block /\ block <= pktN[a] + 1 /\ AcksBelow(toClient[a], block)
       /\ (block - 1) * Blk <= Size[a]
       /\ (block = 1 => got = <<>>) /\ (got # <<>> => got[1][1] = a)
       /\ Writable => got = Units(a, 1, (block - 1) * Blk)
  BY <1>1, <1>8 DEF Sending
<1>12. Msg.n \in Nat \ {0} /\ Msg.n <= pktN[a] /\ Msg.n <= block
  BY <1>6, <1>7, <1>11
<1>13. QED BY ONLY <1>3, <1>4, <1>5, <1>6, <1>7, <1>9, <1>10, <1>11, <1>12

(* What is stored begins with a unit of the client's file.                   *)
LEMMA StoredFrom ==
    ASSUME NEW a \in Client, Calm(a), WriteBlock
    PROVE  got' # <<>> => got'[1][1] = a
<1>1. /\ Msg.d = Block(a, Size[a], Msg.n) /\ Msg.d \in Seq(Item) /\ Msg.n \in Nat \ {0}
      /\ got # <<>> => got[1][1] = a
  BY Uploading
<1>2. got' \in {got, got \o Msg.d} /\ got \in Seq(Item)
  BY DEF WriteBlock, WriteData, Calm, Types, ServerTypes
<1>3. Msg.d # <<>> => Msg.d[1][1] = a
  <2> SUFFICES ASSUME Msg.d # <<>> PROVE Msg.d[1][1] = a
    OBVIOUS
  <2>1. PICK x \in Nat : x = (Msg.n - 1) * Blk + 1
    <3>1. Msg.n - 1 \in Nat
      BY <1>1
    <3>2. (Msg.n - 1) * Blk \in Nat
      BY <3>1, Times
    <3>3. QED BY <3>2
  <2>2. PICK y \in Nat : y = IF Msg.n * Blk < Size[a] THEN Msg.n * Blk ELSE Size[a]
    BY <1>1, Times, Sizes
  <2>3. Msg.d = Units(a, x, y)
    BY ONLY <1>1, <2>1, <2>2 DEF Block
  <2>4. 1 \in 1 .. Len(Msg.d)
    BY <1>1
  <2>5. Units(a, x, y)[1] = <<a, (x + 1) - 1>>
    BY ONLY <2>3, <2>4, UnitsAt, x \in Nat, y \in Nat
  <2>6. QED BY <2>3, <2>5
<1>4. ASSUME got' # <<>>, got' = got \o Msg.d PROVE got'[1][1] = a
  <2>1. CASE got = <<>>
    <3>1. got' = Msg.d
      BY <1>1, <1>4, <2>1
    <3>2. QED BY <1>3, <1>4, <3>1
  <2>2. CASE got # <<>>
    <3>1. (got \o Msg.d)[1] = got[1]
      BY <1>1, <1>2, <2>2
    <3>2. QED BY <1>1, <1>4, <2>2, <3>1
  <2>3. QED BY <2>1, <2>2
<1>5. QED BY <1>1, <1>2, <1>4

(* Unless the flash fails or the file does not fit, the expected block is    *)
(* appended and an earlier one ignored.                                      *)
LEMMA BlockStored ==
    ASSUME NEW a \in Client, Calm(a), WriteBlock, Writable'
    PROVE  /\ got = Units(a, 1, (block - 1) * Blk)
           /\ Msg.n < block => got' = got
           /\ Msg.n = block => got' = got \o Msg.d
<1>1. PICK ok \in BOOLEAN :
        /\ Outcome(ok)
        /\ got' = WriteData(Msg.n, Msg.d) \/ (~ok /\ job = "LoadFW" /\ got' = got)
  BY DEF WriteBlock
<1>2. /\ mclient = a /\ mclient' = a /\ job' = job /\ Msg.n \in Nat \ {0} /\ Msg.n <= block
      /\ block \in Nat \ {0} /\ Msg.d = Block(a, Size[a], Msg.n)
      /\ (block - 1) * Blk <= Size[a]
      /\ Writable => got = Units(a, 1, (block - 1) * Blk)
  BY Uploading DEF WriteBlock
<1>3. job = "LoadFW" => ok /\ faults = 0
  <2> SUFFICES ASSUME job = "LoadFW" PROVE ok /\ faults = 0
    OBVIOUS
  <2>1. faults' = 0 /\ faults \in Nat
    BY <1>2 DEF Writable, Calm, Types, ServerTypes
  <2>2. faults' = IF ok THEN faults ELSE faults + 1
    BY <1>1 DEF Outcome
  <2>3. QED BY <2>1, <2>2
<1>4. Writable /\ (job # "LoadFW" => Size[a] <= MaxCfg)
  BY <1>2, <1>3 DEF Writable
<1>5. got' = WriteData(Msg.n, Msg.d) /\ got = Units(a, 1, (block - 1) * Blk)
  BY <1>1, <1>2, <1>3, <1>4
<1>6. ASSUME Msg.n < block PROVE got' = got
  BY <1>5, <1>6 DEF WriteData, IsDup
<1>7. ASSUME Msg.n = block PROVE got' = got \o Msg.d
  <2>1. Stores(Msg.d)
    <3>1. CASE job = "LoadFW"
      BY <3>1 DEF Stores
    <3>2. CASE job # "LoadFW"
      <4>1. PICK n \in Nat \ {0} : n = block
        BY <1>2
      <4>2. PICK size \in Nat : size = Size[a] /\ a \in Client \union Jobs
        BY Sizes
      <4>3. PICK m \in Nat : m = (n - 1) * Blk /\ m <= size
        <5>1. n - 1 \in Nat
          OBVIOUS
        <5>2. QED BY <1>2, <4>1, <4>2, <5>1, Times
      <4>4. n * Blk \in Nat
        BY Times
      <4>5. Len(Block(a, size, n)) = (IF n * Blk < size THEN n * Blk ELSE size) - m
        BY ONLY <4>2, <4>3, BlockFacts, n \in Nat \ {0}
      <4>6. Len(Units(a, 1, m)) = m
        <5>1. PICK u \in Nat : u = 1
          OBVIOUS
        <5>2. Len(Units(a, u, m)) = IF m < u THEN 0 ELSE (m - u) + 1
          BY ONLY UnitsLength, u \in Nat, m \in Nat
        <5>3. QED BY <5>1, <5>2
      <4>7. Len(got) = m /\ Len(Msg.d) = Len(Block(a, size, n))
        BY ONLY <1>2, <1>5, <1>7, <4>1, <4>2, <4>3, <4>6
      <4>8. size <= MaxCfg
        BY <1>4, <3>2, <4>2
      <4>9. Len(got) + Len(Msg.d) <= MaxCfg
        <5>1. PICK e \in Nat : e = IF n * Blk < size THEN n * Blk ELSE size
          BY <4>4
        <5>2. e <= size
          BY <4>4, <5>1
        <5>3. m + (e - m) <= MaxCfg
          BY <4>8, <5>2, Sizes
        <5>4. QED BY ONLY <4>5, <4>7, <5>1, <5>3
      <4>10. QED BY <4>9 DEF Stores
    <3>3. QED BY <3>1, <3>2
  <2>2. ~IsDup(Msg.n)
    BY <1>2, <1>7 DEF IsDup
  <2>3. QED BY <1>5, <2>1, <2>2 DEF WriteData
<1>8. QED BY <1>5, <1>6, <1>7

LEMMA CalmBlock ==
    ASSUME NEW a \in Client, Calm(a), WriteBlock, UNCHANGED clientVars PROVE StillCalm(a)
<1>1. /\ Mode[a] = "send" /\ mclient' = a /\ UNCHANGED <<cst, pktN>>
      /\ Part(toServer', toServer)
      /\ cst[a] # "idle" /\ (cst[a] = "wait" => OnlyFrom(a, toServer))
      /\ RequestsFirst(a, toServer') /\ NoRequest(a, toServer')
  BY Uploading DEF clientVars
<1>2. /\ pktN[a] \in Nat /\ block \in Nat \ {0}
      /\ Msg.n \in Nat \ {0} /\ Msg.n <= pktN[a] /\ Msg.n <= block
      /\ pktN[a] <= block /\ block <= pktN[a] + 1
  BY Uploading
<1>3. /\ Msg.d = Block(a, Size[a], Msg.n)
      /\ (block - 1) * Blk <= Size[a] /\ AcksBelow(toClient[a], block)
      /\ Send(a, <<Ack(a, Msg.n)>>)
  BY Uploading
<1>4. /\ Ack(a, Msg.n) \in Datum /\ Ack(a, Msg.n).n = Msg.n /\ toClient[a] \in Seq(Datum)
  BY <1>2, Replies DEF Ack, Pkt, Calm, Types, NetTypes
<1>5. /\ Inboxes' /\ (cst[a] # "wait" => toClient'[a] = toClient[a])
      /\ \A d \in Client : d # a => toClient'[d] = toClient[d]
      /\ toClient'[a] = toClient[a] \/ toClient'[a] = Append(toClient[a], Ack(a, Msg.n))
  <2>1. <<Ack(a, Msg.n)>> \in Seq(Datum)
        /\ toClient[a] \o <<Ack(a, Msg.n)>> = Append(toClient[a], Ack(a, Msg.n))
    BY <1>4
  <2>2. Mode[a] # "read"
    BY <1>1
  <2>3. QED BY <1>1, <1>3, <2>1, <2>2, ServerSends DEF Calm
<1>6. /\ spc' \in {"reboot", "run", "write"}
      /\ spc' = "write" => ~(Len(Msg.d) < Blk)
  <2>1. CASE Len(Msg.d) < Blk
    <3>1. PICK ok \in BOOLEAN : OnClose("complete", got', "run", ok)
      BY <2>1 DEF WriteBlock
    <3>2. QED BY ONLY <3>1, OnCloseType
  <2>2. CASE ~(Len(Msg.d) < Blk)
    <3>1. spc' = "write"
      BY <2>2 DEF WriteBlock
    <3>2. QED BY <2>2, <3>1
  <2>3. QED BY <2>1, <2>2
<1>7. Engaged(a)'
  BY <1>1, <1>5, <1>6, ServesOne
<1>8. ASSUME spc' = "write"
      PROVE  /\ pktN[a] <= block' /\ block' <= pktN[a] + 1
             /\ AcksBelow(toClient'[a], block')
             /\ block' = 1 => got' = <<>>
             /\ (block' - 1) * Blk <= Size[a]
             /\ Writable' => got' = Units(a, 1, (block' - 1) * Blk)
  <2>1. CASE Msg.n < block
    <3>1. block' = block /\ block # 1
      BY <1>2, <2>1 DEF WriteBlock, IsDup
    <3>2. AcksBelow(toClient'[a], block)
      <4>1. PICK m \in Nat : m = block
        BY <1>2
      <4>2. Ack(a, Msg.n).n < m /\ AcksBelow(toClient[a], m)
        BY ONLY <1>3, <1>4, <2>1, <4>1
      <4>3. AcksBelow(Append(toClient[a], Ack(a, Msg.n)), m)
        BY ONLY <1>4, <4>2, AcksKept, m \in Nat
      <4>4. QED BY ONLY <1>3, <1>5, <4>1, <4>3
    <3>3. Writable' => got' = Units(a, 1, (block - 1) * Blk)
      BY <2>1, BlockStored
    <3>4. QED BY ONLY <1>2, <1>3, <3>1, <3>2, <3>3
  <2>2. CASE Msg.n = block
    <3>1. PICK n \in Nat \ {0} : n = block /\ n = Msg.n
      BY <1>2, <2>2
    <3>2. PICK size \in Nat : size = Size[a] /\ a \in Client \union Jobs
      BY Sizes
    <3>3. PICK k \in Nat : k = n + 1 /\ k - 1 = n /\ k # 1
      OBVIOUS
    <3>4. block' = k
      BY <2>2, <3>1, <3>3 DEF WriteBlock, IsDup
    <3>5. AcksBelow(toClient'[a], k)
      <4>1. AcksBelow(toClient[a], k)
        BY <1>3, <1>4, <3>1, <3>3, AcksMore
      <4>2. Ack(a, Msg.n).n < k
        BY <1>4, <3>1, <3>3
      <4>3. AcksBelow(Append(toClient[a], Ack(a, Msg.n)), k)
        BY ONLY <1>4, <4>1, <4>2, AcksKept, k \in Nat
      <4>4. QED BY ONLY <1>5, <4>1, <4>3
    <3>6. (n - 1) * Blk <= size /\ Msg.d = Block(a, size, n)
      BY ONLY <1>3, <3>1, <3>2
    <3>7. /\ n * Blk <= size
          /\ Units(a, 1, (n - 1) * Blk) \o Block(a, size, n) = Units(a, 1, n * Blk)
      <4>1. ~(Len(Block(a, size, n)) < Blk)
        BY ONLY <1>6, <1>8, <3>6
      <4>2. QED BY ONLY <3>2, <3>6, <4>1, BlockFacts, n \in Nat \ {0}, size \in Nat
    <3>8. Writable' => got' = Units(a, 1, n * Blk)
      <4>1. Writable' => got' = Units(a, 1, (block - 1) * Blk) \o Msg.d
        BY <2>2, BlockStored
      <4>2. QED BY ONLY <3>1, <3>6, <3>7, <4>1
    <3>9. pktN[a] <= k /\ k <= pktN[a] + 1
      BY <1>2, <3>1, <3>3
    <3>10. QED BY ONLY <3>2, <3>3, <3>4, <3>5, <3>7, <3>8, <3>9
  <2>3. QED BY <1>2, <2>1, <2>2
<1>9. Sending(a)'
  <2>1. got' # <<>> => got'[1][1] = a
    BY StoredFrom
  <2>2. QED BY <1>1, <1>6, <1>8, <2>1 DEF Sending
<1>10. QED BY <1>1, <1>5, <1>7, <1>9 DEF StillCalm, Focus

(* A second request before the first block, of the same client or, when the  *)
(* run of that one is over, of the next.                                     *)
LEMMA CalmRepeat ==
    ASSUME NEW a \in Client, Calm(a), WriteRepeat, UNCHANGED clientVars, NEW w \in Client,
           Msg.c = w
    PROVE  StillCalm(w)
<1>1. toServer # <<>> /\ Receive /\ spc = "write" /\ Msg.op = "WRQ" /\ Head(toServer) = Msg
      /\ block = 1 /\ UNCHANGED <<spc, job, got, block, faults, pktN>>
  BY InMailType DEF WriteRepeat, Msg, clientVars
<1>2. /\ mclient' = w /\ UNCHANGED cst /\ toServer' = Tail(toServer) /\ Msg \in Datum
      /\ Part(toServer', toServer)
      /\ cst[w] # "idle" /\ (cst[w] = "wait" => OnlyFrom(w, toServer))
  BY <1>1, Received
<1>3. toServer \in Seq(Datum) /\ toClient[w] \in Seq(Datum) /\ pktN[w] \in Nat
  BY CalmTypes DEF Calm, Types, ClientTypes
<1>4. /\ Mail(w, toServer, cst, pktN) /\ Mode[w] = "send" /\ got = <<>>
      /\ RequestsFirst(w, toServer) /\ pktN[w] <= 1 /\ AcksBelow(toClient[w], 1)
      /\ \A c \in Client : cst[c] = "wait" => Unserved(c) \/ c = w
  <2>1. Sending(a) /\ got = <<>>
    BY <1>1, CalmTypes DEF Calm, Focus, Sending
  <2>2. CASE w = a
    <3>1. ~NoRequest(a, toServer)
      BY <1>1, <1>3, <2>2, TailKeeps
    <3>2. QED BY <1>1, <2>1, <2>2, <3>1, CalmTypes DEF Sending, Calm, Focus, Engaged
  <2>3. CASE w # a
    <3>1. AllOpening(toServer, pktN) /\ Opening(Msg, pktN)
      BY <1>1, <2>3, Received
    <3>2. Mode[w] = "send"
      BY <1>1, <1>2, <3>1, OpeningFacts
    <3>3. QED BY <1>1, <2>1, <2>3, <3>1, <3>2, FocusMoves
  <2>4. QED BY <2>2, <2>3
<1>5. Ack(w, 0) \in Datum /\ Ack(w, 0).n = 0 /\ Send(w, <<Ack(w, 0)>>)
  BY Replies DEF Ack, Pkt, WriteRepeat
<1>6. /\ Inboxes' /\ AcksBelow(toClient'[w], 1)
      /\ \A d \in Client : d # w => toClient'[d] = toClient[d]
  <2>1. <<Ack(w, 0)>> \in Seq(Datum)
        /\ toClient[w] \o <<Ack(w, 0)>> = Append(toClient[w], Ack(w, 0))
    BY <1>3, <1>5
  <2>2. Mode[w] # "read"
    BY <1>4
  <2>3. /\ Inboxes' /\ \A d \in Client : d # w => toClient'[d] = toClient[d]
        /\ toClient'[w] = toClient[w] \/ toClient'[w] = Append(toClient[w], Ack(w, 0))
    BY <1>2, <1>5, <2>1, <2>2, ServerSends DEF Calm
  <2>4. AcksBelow(Append(toClient[w], Ack(w, 0)), 1)
    BY <1>3, <1>4, <1>5, AcksKept
  <2>5. QED BY <1>4, <2>3, <2>4
<1>7. /\ Mail(w, toServer', cst, pktN) /\ RequestsFirst(w, toServer')
      /\ OnlyFrom(w, toServer) => OnlyFrom(w, toServer')
  BY <1>2, <1>4, PartKeeps
<1>8. Engaged(w)'
  <2>1. ASSUME NEW c \in Client, cst[c] = "wait"
        PROVE  Unserved(c)' \/ (c = w /\ OnlyFrom(w, toServer'))
    BY <1>1, <1>2, <1>4, <1>6, <1>7, <2>1, UnservedStays
  <2>2. QED BY <1>1, <1>2, <1>7, <2>1 DEF Calm, Focus, Engaged
<1>9. Sending(w)'
  <2>1. (1 - 1) * Blk = 0 /\ Units(w, 1, 0) = <<>> /\ 0 <= Size[w] /\ 1 <= pktN[w] + 1
    BY <1>3, NoUnits, Sizes
  <2>2. (block' - 1) * Blk <= Size[w] /\ got' = Units(w, 1, (block' - 1) * Blk)
    BY ONLY <1>1, <1>4, <2>1
  <2>3. /\ block' = 1 /\ got' = <<>> /\ pktN'[w] <= 1 /\ 1 <= pktN'[w] + 1
        /\ AcksBelow(toClient'[w], 1) /\ RequestsFirst(w, toServer') /\ spc' = "write"
    BY <1>1, <1>4, <1>6, <1>7, <2>1
  <2>4. QED BY <2>2, <2>3 DEF Sending
<1>10. QED BY <1>4, <1>6, <1>8, <1>9 DEF StillCalm, Focus

(* Nothing else interrupts an upload but a request of the next run.          *)
LEMMA CalmBroken ==
    ASSUME NEW a \in Client, Calm(a), WriteBroken, UNCHANGED clientVars
    PROVE  Msg.c \in Client /\ Msg.c # a /\ StillCalm(Msg.c)
<1>1. toServer # <<>> /\ Receive /\ spc = "write" /\ Head(toServer) = Msg
      /\ (Msg.op \in {"RRQ", "ACK"} \/ (Msg.op = "WRQ" /\ block # 1))
      /\ UNCHANGED <<toClient, pktN>> /\ out' = Msg
  BY InMailType DEF WriteBroken, Msg, clientVars
<1>2. PICK w \in Client : w = Msg.c
  BY <1>1, Received
<1>3. /\ mclient' = w /\ UNCHANGED cst /\ Part(toServer', toServer) /\ Msg \in Datum
      /\ cst[w] # "idle" /\ (cst[w] = "wait" => OnlyFrom(w, toServer))
  BY <1>1, <1>2, Received
<1>4. w # a
  <2> SUFFICES ASSUME w = a PROVE FALSE
    OBVIOUS
  <2>1. Msg \in FromClient(a, pktN[a]) /\ Mode[a] = "send" /\ Sending(a) /\ pktN[a] \in Nat
    BY <1>1, <1>2, Received, CalmTypes DEF Calm, Focus
  <2>2. Msg.op = "WRQ" /\ block # 1
    BY <1>1, <2>1, FromClientFacts
  <2>3. NoRequest(a, toServer) /\ toServer \in Seq(Datum)
    BY <1>1, <2>1, <2>2, CalmTypes DEF Sending
  <2>4. QED BY <1>1, <1>2, <2>2, <2>3, TailKeeps
<1>5. AllOpening(toServer, pktN) /\ Opening(Msg, pktN)
  BY <1>1, <1>2, <1>4, Received
<1>6. Msg = Req(w) /\ Msg.op # "ACK"
  BY <1>2, <1>3, <1>5, OpeningFacts
<1>7. /\ Mail(w, toServer, cst, pktN) /\ First(w, pktN)
      /\ \A c \in Client : cst[c] = "wait" => Unserved(c)
      /\ Mode[w] = "send" =>
           /\ RequestsFirst(w, toServer) /\ pktN[w] = 0 /\ AcksBelow(toClient[w], 1)
  BY <1>1, <1>2, <1>4, <1>5, FocusMoves
<1>8. spc' \in {"parse", "reboot"}
  <2>1. ~InMail("ACK")
    BY <1>6 DEF InMail, Msg
  <2>2. PICK ok \in BOOLEAN : OnClose("broken", got, "parse", ok)
    BY <2>1 DEF WriteBroken
  <2>3. QED BY ONLY <2>2, OnCloseType
<1>9. /\ Mail(w, toServer', cst, pktN)
      /\ OnlyFrom(w, toServer) => OnlyFrom(w, toServer')
      /\ RequestsFirst(w, toServer) => RequestsFirst(w, toServer')
  BY <1>3, <1>7, PartKeeps
<1>10. Inboxes'
  BY <1>1, <1>3, InboxesStay DEF Calm
<1>11. Engaged(w)'
  <2>1. \A c \in Client : cst[c] = "wait" => Unserved(c)'
    BY <1>1, <1>7, UnservedStays
  <2>2. out' = Req(w) /\ First(w, pktN')
    BY <1>1, <1>6, <1>7
  <2>3. QED BY <1>1, <1>3, <1>8, <1>9, <2>1, <2>2 DEF Calm, Focus, Engaged
<1>12. Mode[w] = "send" => Sending(w)'
  BY <1>1, <1>7, <1>8, <1>9 DEF Sending
<1>13. Reading(w)'
  BY <1>8 DEF Reading
<1>14. StillCalm(w)
  BY <1>10, <1>11, <1>12, <1>13 DEF StillCalm, Focus
<1>15. QED BY <1>2, <1>4, <1>14

LEMMA CalmWriteTimeout ==
    ASSUME NEW a \in Client, Calm(a), WriteTimeout, UNCHANGED clientVars PROVE StillCalm(a)
<1>1. UNCHANGED <<toServer, toClient, cst, mclient, pktN>> /\ spc = "write"
  BY DEF WriteTimeout, netVars, clientVars
<1>2. spc' \in {"reboot", "run"}
  <2>1. PICK ok \in BOOLEAN : OnClose("timeout", got, "run", ok)
    BY DEF WriteTimeout
  <2>2. QED BY ONLY <2>1, OnCloseType
<1>3. Mode[a] = "send" /\ Sending(a) /\ mclient' = a
  BY <1>1, CalmTypes DEF Calm, Focus, Engaged
<1>4. Inboxes' /\ Engaged(a)'
  BY <1>1, <1>2, <1>3, InboxesStay, CalmTypes, Parts, UnservedStays, StillEngaged DEF Calm
<1>5. Sending(a)'
  BY <1>1, <1>2, <1>3 DEF Sending
<1>6. QED BY <1>3, <1>4, <1>5 DEF StillCalm, Focus

(* The next block of a download is the one its reader asked for.             *)
LEMMA CalmNext ==
    ASSUME NEW a \in Client, Calm(a), ReadNext, UNCHANGED clientVars PROVE StillCalm(a)
<1>1. toServer # <<>> /\ Receive /\ spc = "ack" /\ Msg.op = "ACK" /\ UNCHANGED pktN
  BY InMailType DEF ReadNext, ReadAcked, clientVars
<1>2. Msg.c = a
  <2>1. Msg.c # a => Opening(Msg, pktN)
    BY <1>1, Received
  <2>2. Msg \in Datum
    BY <1>1, Received
  <2>3. QED BY <1>1, <2>1, <2>2, OpeningFacts
<1>3. /\ mclient' = a /\ UNCHANGED cst /\ Part(toServer', toServer)
      /\ cst[a] # "idle" /\ (cst[a] = "wait" => OnlyFrom(a, toServer))
  BY <1>1, <1>2, Received
<1>4. Types /\ Mode[a] = "read" /\ job = Asked(a) /\ ServesBlock
  BY <1>1, CalmTypes DEF Calm, Focus, Reading
<1>5. /\ job' = job /\ spc' \in {"run", "ack"} /\ (spc' = "ack" => ServesBlock')
      /\ UNCHANGED toClient \/ \E ps \in Seq(OfJob(job)) : Send(a, ps)
  BY <1>2, <1>4, NextBlock
<1>6. /\ Inboxes' /\ (cst[a] # "wait" => toClient'[a] = toClient[a])
      /\ \A d \in Client : d # a => toClient'[d] = toClient[d]
  <2>1. CASE UNCHANGED toClient
    BY <1>3, <2>1, InboxesStay DEF Calm
  <2>2. ASSUME NEW ps \in Seq(OfJob(job)), Send(a, ps)
        PROVE  /\ Inboxes' /\ (cst[a] # "wait" => toClient'[a] = toClient[a])
               /\ \A d \in Client : d # a => toClient'[d] = toClient[d]
    <3>1. ps \in Seq(ForReader(a)) /\ ps \in Seq(Datum)
      BY <1>4, OfJobType DEF ForReader
    <3>2. QED BY <1>3, <2>2, <3>1, ServerSends DEF Calm
  <2>3. QED BY <1>5, <2>1, <2>2
<1>7. Engaged(a)'
  BY <1>1, <1>3, <1>5, <1>6, ServesOne
<1>8. Reading(a)'
  BY <1>3, <1>4, <1>5 DEF Reading, Asked
<1>9. QED BY <1>4, <1>6, <1>7, <1>8 DEF StillCalm, Focus

(* Sent again to the reader ...                                              *)
LEMMA CalmResend ==
    ASSUME NEW a \in Client, Calm(a), spc = "ack", NEW before, NEW buffer \in Datum,
           Resend(a, before, buffer),
           before = <<>> \/ before = <<Err(a)>>,
           buffer.n = out.n /\ buffer.d = out.d,
           mclient' = a, UNCHANGED <<cst, pktN>>, Part(toServer', toServer)
    PROVE  StillCalm(a)
<1>1. /\ Mode[a] = "read" /\ job = Asked(a) /\ ServesBlock /\ Types
      /\ cst[a] # "idle" /\ (cst[a] = "wait" => OnlyFrom(a, toServer))
  BY CalmTypes DEF Calm, Focus, Reading, Engaged
<1>2. /\ job' = job /\ \E ps \in Seq(OfJob(job)) : Send(a, ps)
      /\ spc' \in {"run", "ack"} /\ (spc' = "ack" => ServesBlock')
  BY <1>1, BlockAgain
<1>3. /\ Inboxes' /\ (cst[a] # "wait" => toClient'[a] = toClient[a])
      /\ \A d \in Client : d # a => toClient'[d] = toClient[d]
  <2>1. PICK ps \in Seq(ForReader(a)) : Send(a, ps)
    BY <1>1, <1>2 DEF ForReader
  <2>2. ps \in Seq(Datum)
    BY OfJobType DEF ForReader
  <2>3. QED BY <2>1, <2>2, ServerSends DEF Calm
<1>4. Engaged(a)'
  BY <1>1, <1>2, <1>3, ServesOne
<1>5. Reading(a)'
  BY <1>1, <1>2 DEF Reading, Asked
<1>6. QED BY <1>1, <1>3, <1>4, <1>5 DEF StillCalm, Focus

(* ... or, with an ERROR over the block, to the client of the next run.      *)
LEMMA CalmOther ==
    ASSUME NEW a \in Client, Calm(a), spc = "ack", NEW w \in Client, w # a,
           Resend(w, <<Err(w)>>, Clobbered(w)),
           mclient' = w, UNCHANGED <<cst, pktN>>, Part(toServer', toServer),
           cst[a] # "wait", AllOpening(toServer, pktN)
    PROVE  StillCalm(a)
<1>1. Mode[a] = "read" /\ job = Asked(a) /\ ServesBlock /\ Types /\ cst[a] # "idle"
  BY CalmTypes DEF Calm, Focus, Reading, Engaged
<1>2. Clobbered(w) \in Datum /\ out \in Datum
  BY <1>1, ClobberedType DEF Types, ServerTypes
<1>3. Clobbered(w).n = out.n /\ Clobbered(w).d = out.d
  BY <1>2 DEF Clobbered, Datum
<1>4. job' = job /\ spc' \in {"run", "ack"} /\ (spc' = "ack" => ServesBlock')
  BY <1>1, <1>2, <1>3, BlockAgain
<1>5. PICK ps \in Seq(Datum) : Send(w, ps) /\ \A i \in 1 .. Len(ps) : ps[i].op = "ERROR"
  BY <1>1, ErrorsAgain
<1>6. out'.op = "ERROR"
  BY <1>1, ErrorsAgain
<1>7. ps \in Seq(ForReader(w))
  <2>1. \A i \in 1 .. Len(ps) : ps[i] \in ForReader(w)
    BY <1>5 DEF ForReader, OfJob
  <2>2. Len(ps) \in Nat /\ DOMAIN ps = 1 .. Len(ps) /\ ps = [i \in 1 .. Len(ps) |-> ps[i]]
    OBVIOUS
  <2>3. QED BY <2>1, <2>2
<1>8. /\ Inboxes' /\ (toClient'[w] = toClient[w] \/ toClient'[w] = toClient[w] \o ps)
      /\ \A d \in Client : d # w => toClient'[d] = toClient[d]
  BY <1>5, <1>7, ServerSends DEF Calm
<1>9. ASSUME NEW c \in Client, Unserved(c) PROVE Unserved(c)'
  <2>1. CASE toClient'[c] = toClient[c]
    BY <1>9, <2>1, UnservedStays
  <2>2. CASE toClient'[c] = toClient[c] \o ps
    <3>1. toClient[c] \in Seq(Datum)
      BY CalmTypes
    <3>2. \A i \in 1 .. Len(toClient'[c]) : toClient'[c][i].op = "ERROR"
      BY <1>5, <1>9, <2>2, <3>1, ErrorsOnly DEF Unserved
    <3>3. QED BY <1>9, <3>2 DEF Unserved, First
  <2>3. QED BY <1>8, <2>1, <2>2
<1>10. Engaged(a)'
  BY <1>1, <1>4, <1>9, StillEngaged
<1>11. Spoiled(a)'
  <2>1. AllOpening(toServer', pktN)
    BY PartKeeps
  <2>2. QED BY <1>6, <2>1 DEF Spoiled
<1>12. Reading(a)'
  BY <1>1, <1>4, <1>11 DEF Reading, Asked
<1>13. QED BY <1>1, <1>8, <1>10, <1>12 DEF StillCalm, Focus

LEMMA CalmWrongAck ==
    ASSUME NEW a \in Client, Calm(a), ReadWrongAck, UNCHANGED clientVars PROVE StillCalm(a)
<1>1. /\ toServer # <<>> /\ Receive /\ spc = "ack" /\ Msg.op = "ACK" /\ UNCHANGED pktN
      /\ Resend(Msg.c, <<>>, out)
  BY InMailType DEF ReadWrongAck, clientVars
<1>2. Msg.c = a
  <2>1. Msg.c # a => Opening(Msg, pktN)
    BY <1>1, Received
  <2>2. Msg \in Datum
    BY <1>1, Received
  <2>3. QED BY <1>1, <2>1, <2>2, OpeningFacts
<1>3. mclient' = a /\ UNCHANGED cst /\ Part(toServer', toServer)
  BY <1>1, <1>2, Received
<1>4. out \in Datum
  BY CalmTypes
<1>5. QED BY <1>1, <1>2, <1>3, <1>4, CalmResend

LEMMA CalmNoAck ==
    ASSUME NEW a \in Client, Calm(a), ReadNoAck, UNCHANGED clientVars PROVE StillCalm(a)
<1>1. /\ toServer # <<>> /\ Receive /\ spc = "ack" /\ UNCHANGED pktN
      /\ Resend(Msg.c, <<Err(Msg.c)>>, Clobbered(Msg.c))
  BY DEF ReadNoAck, clientVars
<1>2. PICK w \in Client : w = Msg.c
  BY <1>1, Received
<1>3. mclient' = w /\ UNCHANGED cst /\ Part(toServer', toServer)
  BY <1>1, <1>2, Received
<1>4. CASE w = a
  <2>1. out \in Datum /\ Clobbered(a) \in Datum
    BY ClobberedType DEF Calm, Types, ServerTypes
  <2>2. Clobbered(a).n = out.n /\ Clobbered(a).d = out.d
    BY <2>1 DEF Clobbered, Datum
  <2>3. QED BY <1>1, <1>2, <1>3, <1>4, <2>1, <2>2, CalmResend
<1>5. CASE w # a
  <2>1. AllOpening(toServer, pktN)
    BY <1>1, <1>2, <1>5, Received
  <2>2. toServer \in Seq(Datum)
    BY CalmTypes
  <2>3. 1 \in 1 .. Len(toServer) /\ toServer[1] = Msg
    BY <1>1, <2>2, TailOf DEF Msg
  <2>4. cst[a] # "wait"
    BY <1>1, <1>2, <1>5, <2>3 DEF Calm, Focus, Engaged, OnlyFrom
  <2>5. QED BY <1>1, <1>2, <1>3, <1>5, <2>1, <2>4, CalmOther
<1>6. QED BY <1>4, <1>5

LEMMA CalmReadTimeout ==
    ASSUME NEW a \in Client, Calm(a), ReadTimeout, UNCHANGED clientVars PROVE StillCalm(a)
<1>1. /\ spc = "ack" /\ UNCHANGED <<toServer, cst, mclient, pktN>>
      /\ Resend(mclient, <<Err(mclient)>>, Clobbered(mclient))
  BY DEF ReadTimeout, clientVars
<1>2. Part(toServer', toServer) /\ Mode[a] = "read"
  BY <1>1, CalmTypes, Parts
<1>3. CASE mclient = a
  <2>1. out \in Datum /\ Clobbered(a) \in Datum
    BY ClobberedType DEF Calm, Types, ServerTypes
  <2>2. Clobbered(a).n = out.n /\ Clobbered(a).d = out.d
    BY <2>1 DEF Clobbered, Datum
  <2>3. QED BY <1>1, <1>2, <1>3, <2>1, <2>2, CalmResend
<1>4. CASE mclient # a
  <2>1. Spoiled(a)
    BY <1>1, <1>2, <1>4 DEF Calm, Focus, Reading
  <2>2. mclient \in Client
    BY DEF Calm, Types, ServerTypes
  <2>3. QED BY <1>1, <1>2, <1>4, <2>1, <2>2, CalmOther DEF Spoiled
<1>5. QED BY <1>3, <1>4

(* While only one client has anything to do with the server, that one stays  *)
(* the one it serves.                                                        *)
LEMMA AloneStays ==
    ASSUME NEW a \in Client, Calm(a), Alone(a), UNCHANGED clientVars, UNCHANGED cst,
           ServerStep \/ ServerTimeout \/ PowerCycle, ~WriteBroken
    PROVE  Alone(a)'
<1>1. ASSUME toServer # <<>>, Receive
      PROVE  /\ Msg.c = a /\ mclient' = a /\ Part(toServer', toServer)
  <2>1. mclient' = Msg.c /\ Part(toServer', toServer) /\ toServer \in Seq(Datum)
    BY <1>1, Received, CalmTypes
  <2>2. 1 \in 1 .. Len(toServer) /\ toServer[1] = Msg
    BY <1>1, <2>1, TailOf DEF Msg
  <2>3. QED BY <2>1, <2>2 DEF Alone, OnlyFrom
<1>2. /\ Part(toServer', toServer) /\ spc' # "parse" /\ (spc' = "ack" => mclient' = a)
  <2>1. CASE StartServer
    <3>1. UNCHANGED toServer /\ spc' \in {"run", "stopped"}
      BY <2>1 DEF StartServer
    <3>2. QED BY <3>1, CalmTypes, Parts
  <2>2. CASE Reboot \/ PowerCycle
    <3>1. toServer' = <<>> /\ spc' = "start"
      BY <2>2 DEF Reboot, PowerCycle, Boot
    <3>2. QED BY <3>1, CalmTypes, Parts
  <2>3. CASE RunRequest
    <3>1. toServer # <<>> /\ Receive /\ StartRequest(Msg)
      BY <2>3, InMailType DEF RunRequest
    <3>2. spc' # "parse"
      <4>1. CASE StartWrite(Msg)
        BY <4>1, Zenon DEF StartWrite
      <4>2. CASE StartRead(Msg)
        BY <4>2 DEF StartRead, SendBlock
      <4>3. QED BY <3>1, <4>1, <4>2 DEF StartRequest
    <3>3. QED BY <1>1, <3>1, <3>2
  <2>4. CASE RunUnknown \/ WriteRepeat
    <3>1. toServer # <<>> /\ Receive /\ spc' \in {"run", "write"}
      BY <2>4, InMailType DEF RunUnknown, WriteRepeat
    <3>2. QED BY <1>1, <3>1
  <2>5. CASE WriteBlock
    <3>1. toServer # <<>> /\ Receive /\ spc = "write"
      BY <2>5, InMailType DEF WriteBlock
    <3>2. spc' \in {"write", "reboot", "run"}
      <4>1. CASE Len(Msg.d) < Blk
        <5>1. PICK ok \in BOOLEAN : OnClose("complete", got', "run", ok)
          BY <2>5, <4>1 DEF WriteBlock
        <5>2. QED BY ONLY <5>1, OnCloseType
      <4>2. CASE ~(Len(Msg.d) < Blk)
        BY <2>5, <3>1, <4>2 DEF WriteBlock
      <4>3. QED BY <4>1, <4>2
    <3>3. QED BY <1>1, <3>1, <3>2
  <2>6. CASE ReadNext
    <3>1. toServer # <<>> /\ Receive
      BY <2>6, InMailType DEF ReadNext, ReadAcked
    <3>2. spc' # "parse"
      BY <2>6 DEF ReadNext, SendBlock
    <3>3. QED BY <1>1, <3>1, <3>2
  <2>7. CASE ReadWrongAck \/ ReadNoAck
    <3>1. toServer # <<>> /\ Receive
      BY <2>7, InMailType DEF ReadWrongAck, ReadNoAck
    <3>2. spc' # "parse"
      BY <2>7 DEF ReadWrongAck, ReadNoAck, Resend, SendBlock
    <3>3. QED BY <1>1, <3>1, <3>2
  <2>8. CASE ServerTimeout
    <3>1. CASE WriteTimeout
      <4>1. PICK ok \in BOOLEAN : OnClose("timeout", got, "run", ok)
        BY <3>1 DEF WriteTimeout
      <4>2. spc' \in {"reboot", "run"}
        BY ONLY <4>1, OnCloseType
      <4>3. UNCHANGED toServer
        BY <3>1 DEF WriteTimeout, netVars
      <4>4. QED BY <4>2, <4>3, CalmTypes, Parts
    <3>2. CASE ReadTimeout
      <4>1. spc = "ack" /\ UNCHANGED <<toServer, mclient>>
        BY <3>2 DEF ReadTimeout
      <4>2. spc' # "parse"
        BY <3>2 DEF ReadTimeout, Resend, SendBlock
      <4>3. QED BY <4>1, <4>2, CalmTypes, Parts DEF Alone
    <3>3. QED BY <2>8, <3>1, <3>2 DEF ServerTimeout
  <2>9. ~ParseAgain
    BY DEF ParseAgain, Alone
  <2>10. QED
    BY <2>1, <2>2, <2>3, <2>4, <2>5, <2>6, <2>7, <2>8, <2>9 DEF ServerStep
<1>3. OnlyFrom(a, toServer')
  BY <1>2, PartKeeps DEF Alone
<1>4. QED BY <1>2, <1>3 DEF Alone

LEMMA CalmServer ==
    ASSUME NEW a \in Client, Calm(a), ServerStep \/ ServerTimeout \/ PowerCycle,
           UNCHANGED clientVars, UNCHANGED cst
    PROVE  \E b \in Client : StillCalm(b) /\ (Alone(a) => b = a /\ Alone(b)')
<1>1. ASSUME toServer # <<>>, Receive
      PROVE  Msg.c \in Client /\ (Alone(a) => Msg.c = a)
  <2>1. Msg.c \in Client /\ toServer \in Seq(Datum)
    BY <1>1, Received, CalmTypes
  <2>2. 1 \in 1 .. Len(toServer) /\ toServer[1] = Msg
    BY <1>1, <2>1, TailOf DEF Msg
  <2>3. QED BY <2>1, <2>2 DEF Alone, OnlyFrom
<1>2. CASE WriteBroken
  <2>1. Msg.c \in Client /\ Msg.c # a /\ StillCalm(Msg.c) /\ toServer # <<>> /\ Receive
    BY <1>2, CalmBroken, InMailType DEF WriteBroken
  <2>2. QED BY <1>1, <2>1
<1>3. ASSUME ~WriteBroken, NEW b \in Client, StillCalm(b), Alone(a) => b = a
      PROVE  \E d \in Client : StillCalm(d) /\ (Alone(a) => d = a /\ Alone(d)')
  BY <1>3, AloneStays
<1>4. CASE RunRequest /\ ~WriteBroken
  <2>1. toServer # <<>> /\ Receive /\ spc = "run"
    BY <1>4, InMailType DEF RunRequest
  <2>2. PICK w \in Client : w = Msg.c /\ (Alone(a) => w = a)
    BY <1>1, <2>1
  <2>3. Calm(w)
    <3>1. CASE w # a
      BY <2>1, <2>2, <3>1, Received, FocusMoves
    <3>2. QED BY <3>1
  <2>4. StillCalm(w)
    BY <1>4, <2>2, <2>3, CalmRequest
  <2>5. QED BY <1>3, <1>4, <2>2, <2>4
<1>5. CASE WriteRepeat /\ ~WriteBroken
  <2>1. toServer # <<>> /\ Receive
    BY <1>5, InMailType DEF WriteRepeat
  <2>2. PICK w \in Client : w = Msg.c /\ (Alone(a) => w = a)
    BY <1>1, <2>1
  <2>3. QED BY <1>3, <1>5, <2>2, CalmRepeat
<1>6. CASE ~WriteBroken /\ ~RunRequest /\ ~WriteRepeat
  <2>1. StillCalm(a)
    BY <1>6, CalmBoot, CalmStart, CalmUnknown, CalmParse, CalmBlock, CalmWriteTimeout,
       CalmNext, CalmWrongAck, CalmNoAck, CalmReadTimeout
    DEF ServerStep, ServerTimeout, Reboot, PowerCycle
  <2>2. QED BY <1>3, <1>6, <2>1
<1>7. QED BY <1>2, <1>4, <1>5, <1>6
---------------------------------------------------------------------------
(* The steps of a client.                                                    *)

Calmer(a) == Inboxes' /\ Runs' /\ Focus(a)' /\ (Alone(a) => Alone(a)')

LEMMA ConsumeCalm ==
    ASSUME Types, Inboxes, NEW c \in Client, Consume(c), toClient[c] # <<>>,
           \A d \in Client : d # c => cst'[d] = cst[d]
    PROVE  /\ Inboxes' /\ toClient'[c] \in {<<>>, Tail(toClient[c])}
           /\ \A d \in Client : d # c => toClient'[d] = toClient[d]
<1>1. /\ toClient' = [toClient EXCEPT ![c] = IF cst'[c] = "wait" THEN Tail(@) ELSE <<>>]
      /\ toClient \in [Client -> Seq(Datum)]
  BY DEF Consume, Types, NetTypes
<1>2. /\ \A d \in Client : d # c => toClient'[d] = toClient[d]
      /\ toClient'[c] = IF cst'[c] = "wait" THEN Tail(toClient[c]) ELSE <<>>
  BY <1>1
<1>3. Mode[c] = "read" => toClient'[c] \in Seq(ForReader(c))
  <2> SUFFICES ASSUME Mode[c] = "read" PROVE toClient'[c] \in Seq(ForReader(c))
    OBVIOUS
  <2>1. Tail(toClient[c]) \in Seq(ForReader(c)) /\ <<>> \in Seq(ForReader(c))
    BY TailOf DEF Inboxes
  <2>2. QED BY <1>2, <2>1
<1>4. Inboxes'
  <2> SUFFICES ASSUME NEW d \in Client
               PROVE  /\ cst'[d] # "wait" => toClient'[d] = <<>>
                      /\ Mode[d] = "read" => toClient'[d] \in Seq(ForReader(d))
    BY DEF Inboxes
  <2>1. CASE d = c
    BY <1>2, <1>3, <2>1
  <2>2. CASE d # c
    BY <1>2, <2>2 DEF Inboxes
  <2>3. QED BY <2>1, <2>2
<1>5. QED BY <1>2, <1>4

(* The end of a run, and a timeout of one, leave what was collected.         *)
LEMMA RunsEnd ==
    ASSUME Types, Runs, NEW c \in Client, UNCHANGED <<pktN, result>>, cst[c] = "wait",
           \A d \in Client : d # c => cst'[d] = cst[d],
           cst'[c] \in {"wait", "failed", "killed"}
    PROVE  Runs'
<1> SUFFICES ASSUME NEW d \in Client
             PROVE  /\ cst'[d] = "idle" => First(d, pktN')
                    /\ Mode[d] = "read" => Collected(d)'
  BY DEF Runs
<1>1. CASE d = c
  <2>1. cst'[c] # "idle" /\ cst'[c] # "done" /\ cst[c] # "done"
    OBVIOUS
  <2>2. Mode[c] = "read" => Collected(c)
    BY DEF Runs
  <2>3. QED BY <1>1, <2>1, <2>2 DEF Collected
<1>2. CASE d # c
  BY <1>2 DEF Runs, Collected, First
<1>3. QED BY <1>1, <1>2

LEMMA OneWaits ==
    ASSUME NEW a \in Client, Calm(a), NEW c \in Client, cst[c] = "wait"
    PROVE  /\ Unserved(c) \/ (c = a /\ OnlyFrom(a, toServer))
           /\ \A d \in Client : cst[d] = "wait" => d = c
           /\ Alone(a) => c = a
BY DEF Calm, Focus, Engaged, Alone

(* Nothing of the server changes, and its mailbox only by a datagram that    *)
(* fits in.                                                                  *)
LEMMA FocusKept ==
    ASSUME NEW a \in Client, Types, Focus(a), UNCHANGED serverVars, UNCHANGED pktN,
           NEW c \in Client, cst[c] = "wait", \A d \in Client : d # c => cst'[d] = cst[d],
           cst'[c] # "idle", \A d \in Client : d # c => toClient'[d] = toClient[d],
           Unserved(c) => Unserved(c)',
           Mail(a, toServer', cst', pktN), OnlyFrom(a, toServer) /\ c = a => OnlyFrom(a, toServer'),
           Mode[a] = "send" =>
             /\ RequestsFirst(a, toServer')
             /\ \/ NoRequest(a, toServer) => NoRequest(a, toServer')
                \/ a = c /\ pktN[a] = 0 /\ toClient'[a] = <<>>
             /\ \A m \in Nat : AcksBelow(toClient[a], m) => AcksBelow(toClient'[a], m),
           Spoiled(a) => AllOpening(toServer', pktN)
    PROVE  Focus(a)' /\ (Alone(a) => Alone(a)')
<1>1. UNCHANGED <<spc, mclient, job, got, block, cur, out, faults>>
  BY DEF serverVars
<1>2. \A d \in Client : cst'[d] = "wait" => cst[d] = "wait" /\ d = c
  BY DEF Focus, Engaged
<1>3. \A d \in Client : Unserved(d) => Unserved(d)'
  <2> SUFFICES ASSUME NEW d \in Client, Unserved(d) PROVE Unserved(d)'
    OBVIOUS
  <2>1. CASE d # c
    BY <2>1, UnservedStays
  <2>2. QED BY <2>1
<1>4. Engaged(a)'
  <2>1. ASSUME NEW d \in Client, cst'[d] = "wait"
        PROVE  Unserved(d)' \/ (d = a /\ OnlyFrom(a, toServer'))
    BY <1>2, <1>3, <2>1 DEF Focus, Engaged
  <2>2. cst[a] # "idle" => cst'[a] # "idle"
    OBVIOUS
  <2>3. cst'[a] = "wait" /\ OnlyFrom(a, toServer) => OnlyFrom(a, toServer')
    BY <1>2
  <2>4. spc = "parse" => (cst'[a] = "wait" => Unserved(a)')
    BY <1>2, <1>3 DEF Focus, Engaged
  <2>5. QED BY <1>1, <1>2, <2>1, <2>2, <2>3, <2>4 DEF Focus, Engaged
<1>5. ASSUME Mode[a] = "send" PROVE Sending(a)'
  <2>1. Writable' = Writable
    BY <1>1 DEF Writable
  <2>2. Sending(a) /\ 1 \in Nat /\ block \in Nat /\ block \in Nat \ {0} /\ pktN[a] \in Nat
    BY <1>5 DEF Focus, Types, ServerTypes, ClientTypes
  <2>3. NoRequest(a, toServer') \/ (pktN[a] <= 1 /\ AcksBelow(toClient'[a], 1))
    BY <1>5, <2>2, EmptyKeeps DEF Sending
  <2>4. spc = "write" => (block = 1 => got = <<>>) /\ (block # 1 => NoRequest(a, toServer'))
    BY <1>5, <2>2 DEF Sending
  <2>5. spc = "write" => AcksBelow(toClient'[a], block)
    BY <1>5, <2>2 DEF Sending
  <2>6. QED BY <1>1, <1>5, <2>1, <2>2, <2>3, <2>4, <2>5 DEF Sending
<1>6. Mode[a] = "read" => Reading(a)'
  <2>1. Spoiled(a) => Spoiled(a)'
    BY <1>1, <1>2 DEF Spoiled
  <2>2. QED BY <1>1, <2>1 DEF Focus, Reading, ServesBlock, Asked
<1>7. Alone(a) => Alone(a)'
  <2> SUFFICES ASSUME Alone(a) PROVE Alone(a)'
    OBVIOUS
  <2>1. c = a
    BY DEF Alone
  <2>2. QED BY <1>1, <1>2, <2>1 DEF Alone
<1>8. QED BY <1>4, <1>5, <1>6, <1>7 DEF Focus

LEMMA AcksConsumed ==
    ASSUME NEW q \in Seq(Datum), q # <<>>, NEW r \in {<<>>, Tail(q)}, NEW m \in Nat,
           AcksBelow(q, m)
    PROVE  AcksBelow(r, m)
BY AcksKept, EmptyKeeps

(* Steps that send nothing.                                                  *)
LEMMA QuietStep ==
    ASSUME NEW a \in Client, Calm(a), UNCHANGED serverVars, UNCHANGED <<toServer, pktN>>,
           NEW c \in Client, cst[c] = "wait", \A d \in Client : d # c => cst'[d] = cst[d],
           cst'[c] # "idle", \A d \in Client : d # c => toClient'[d] = toClient[d],
           \/ toClient'[c] \in {<<>>, toClient[c]}
           \/ toClient[c] # <<>> /\ toClient'[c] = Tail(toClient[c])
    PROVE  Focus(a)' /\ (Alone(a) => Alone(a)')
<1>1. /\ toServer \in Seq(Datum) /\ \A d \in Client : toClient[d] \in Seq(Datum)
      /\ Mail(a, toServer, cst, pktN)
  BY CalmTypes
<1>2. Unserved(c) => Unserved(c)'
  <2> SUFFICES ASSUME Unserved(c) PROVE Unserved(c)'
    OBVIOUS
  <2>1. \A i \in 1 .. Len(toClient'[c]) : toClient'[c][i].op = "ERROR"
    <3>1. /\ toClient[c] \in Seq(Datum) /\ Len(<<>>) = 0
          /\ \A i \in 1 .. Len(toClient[c]) : toClient[c][i].op = "ERROR"
      BY <1>1 DEF Unserved
    <3>2. CASE toClient[c] # <<>> /\ toClient'[c] = Tail(toClient[c])
      BY <3>1, <3>2, ErrorsOnly
    <3>3. CASE toClient'[c] \in {<<>>, toClient[c]}
      BY <3>1, <3>3
    <3>4. QED BY <3>2, <3>3
  <2>2. QED BY <2>1 DEF Unserved, First
<1>3. ASSUME NEW m \in Nat, AcksBelow(toClient[a], m) PROVE AcksBelow(toClient'[a], m)
  <2>1. CASE a # c
    BY <1>3, <2>1
  <2>2. CASE a = c
    BY <1>1, <1>3, <2>2, AcksKept, EmptyKeeps
  <2>3. QED BY <2>1, <2>2
<1>4. Mail(a, toServer', cst', pktN)
  <2>1. \A k \in 1 .. Len(toServer) : toServer[k].c \in Client
    BY <1>1, Fields
  <2>2. \A k \in 1 .. Len(toServer) :
          /\ cst'[toServer[k].c] # "idle"
          /\ cst'[toServer[k].c] = "wait" => cst[toServer[k].c] = "wait"
    BY <1>1, <2>1 DEF Mail
  <2>3. Mail(a, toServer, cst', pktN)
    BY <1>1, <2>2, MailStates
  <2>4. QED BY <2>3
<1>5. Mode[a] = "send" => RequestsFirst(a, toServer')
  BY DEF Calm, Focus, Sending
<1>6. Spoiled(a) => AllOpening(toServer', pktN)
  BY DEF Spoiled
<1>7. QED BY <1>2, <1>3, <1>4, <1>5, <1>6, FocusKept DEF Calm

LEMMA CalmError ==
    ASSUME NEW a \in Client, Calm(a), NEW c \in Client, RecvError(c), UNCHANGED serverVars
    PROVE  Calmer(a)
<1>1. /\ Ends(c, "failed") /\ Consume(c) /\ UNCHANGED <<toServer, pktN, result>>
      /\ cst[c] = "wait" /\ toClient[c] # <<>>
  BY DEF RecvError, HasAnswer
<1>2. cst'[c] = "failed" /\ \A d \in Client : d # c => cst'[d] = cst[d]
  BY <1>1, EndsType DEF Calm
<1>3. /\ Inboxes' /\ toClient'[c] \in {<<>>, Tail(toClient[c])}
      /\ \A d \in Client : d # c => toClient'[d] = toClient[d]
  BY <1>1, <1>2, ConsumeCalm DEF Calm
<1>4. Runs'
  BY <1>1, <1>2, RunsEnd DEF Calm
<1>5. Focus(a)' /\ (Alone(a) => Alone(a)')
  BY <1>1, <1>2, <1>3, QuietStep
<1>6. QED BY <1>3, <1>4, <1>5 DEF Calmer

LEMMA CalmKill ==
    ASSUME NEW a \in Client, Calm(a), NEW c \in Client, Kill(c), UNCHANGED serverVars
    PROVE  Calmer(a)
<1>1. /\ Ends(c, "killed") /\ toClient' = [toClient EXCEPT ![c] = <<>>]
      /\ UNCHANGED <<toServer, pktN, result>> /\ cst[c] = "wait"
  BY DEF Kill
<1>2. cst'[c] = "killed" /\ \A d \in Client : d # c => cst'[d] = cst[d]
  BY <1>1, EndsType DEF Calm
<1>3. toClient'[c] = <<>> /\ \A d \in Client : d # c => toClient'[d] = toClient[d]
  BY <1>1 DEF Calm, Types, NetTypes
<1>4. Inboxes'
  <2>1. <<>> \in Seq(ForReader(c))
    OBVIOUS
  <2>2. QED BY <1>2, <1>3, <2>1 DEF Calm, Inboxes
<1>5. Runs'
  BY <1>1, <1>2, RunsEnd DEF Calm
<1>6. Focus(a)' /\ (Alone(a) => Alone(a)')
  BY <1>1, <1>2, <1>3, QuietStep
<1>7. QED BY <1>4, <1>5, <1>6 DEF Calmer

LEMMA CalmIgnore ==
    ASSUME NEW a \in Client, Calm(a), NEW c \in Client, Ignore(c), UNCHANGED serverVars
    PROVE  Calmer(a)
<1>1. /\ Consume(c) /\ UNCHANGED <<cst, toServer, pktN, result>>
      /\ cst[c] = "wait" /\ toClient[c] # <<>>
  BY DEF Ignore, Ignored, HasAnswer, clientVars
<1>2. /\ Inboxes' /\ toClient'[c] \in {<<>>, Tail(toClient[c])}
      /\ \A d \in Client : d # c => toClient'[d] = toClient[d]
  BY <1>1, ConsumeCalm DEF Calm
<1>3. Runs'
  BY <1>1, RunsStay DEF Calm
<1>4. Focus(a)' /\ (Alone(a) => Alone(a)')
  BY <1>1, <1>2, QuietStep
<1>5. QED BY <1>2, <1>3, <1>4 DEF Calmer

(* An answer that is not an ERROR means that its client is the one served.   *)
LEMMA Answered ==
    ASSUME NEW a \in Client, Calm(a), NEW c \in Client, cst[c] = "wait",
           toClient[c] # <<>>, Head(toClient[c]).op # "ERROR"
    PROVE  c = a /\ OnlyFrom(a, toServer)
<1>1. toClient[c] \in Seq(Datum)
  BY CalmTypes
<1>2. ~Unserved(c)
  BY <1>1, ErrorsOnly DEF Unserved
<1>3. QED BY <1>2, OneWaits

(* A sender's block touches nothing a reader has.                            *)
LEMMA SenderRuns ==
    ASSUME Types, Runs, NEW a \in Client, SendNext(a) PROVE Runs'
<1>1. /\ Mode[a] = "send" /\ cst[a] = "wait" /\ UNCHANGED result
      /\ pktN' = [pktN EXCEPT ![a] = @ + 1] /\ pktN \in [Client -> Nat]
  BY DEF SendNext, HasAnswer, Types, ClientTypes
<1>2. \A d \in Client : d # a => pktN'[d] = pktN[d]
  BY <1>1
<1>3. cst'[a] # "idle" /\ \A d \in Client : d # a => cst'[d] = cst[d]
  <2>1. Ends(a, "done") \/ UNCHANGED cst
    BY DEF SendNext
  <2>2. QED BY <1>1, <2>1, EndsType
<1>4. SUFFICES ASSUME NEW d \in Client
               PROVE  /\ cst'[d] = "idle" => First(d, pktN')
                      /\ Mode[d] = "read" => Collected(d)'
  BY DEF Runs
<1>5. CASE d = a
  BY <1>1, <1>3, <1>5
<1>6. CASE d # a
  BY <1>1, <1>2, <1>3, <1>6 DEF Runs, Collected, First
<1>7. QED BY <1>5, <1>6

(* A client with nobody behind it goes on to its next block.                 *)
LEMMA EngagedOn ==
    ASSUME NEW a \in Client, Calm(a), cst[a] = "wait", OnlyFrom(a, toServer),
           UNCHANGED serverVars, NEW p \in Datum, p.c = a, p \in FromClient(a, pktN'[a]),
           toServer' \in {toServer, Append(toServer, p)},
           pktN'[a] \in {pktN[a], pktN[a] + 1}, cst'[a] # "idle",
           \A d \in Client : d # a => cst'[d] = cst[d] /\ pktN'[d] = pktN[d],
           spc # "parse"
    PROVE  Engaged(a)' /\ OnlyFrom(a, toServer')
<1>1. UNCHANGED <<spc, mclient>>
  BY DEF serverVars
<1>2. /\ toServer \in Seq(Datum) /\ Mail(a, toServer, cst, pktN) /\ pktN[a] \in Nat
      /\ \A d \in Client : cst[d] = "wait" => d = a
  BY CalmTypes, OneWaits
<1>3. Mail(a, toServer, cst, pktN')
  BY <1>2, MailNumber
<1>4. Mail(a, toServer, cst', pktN')
  <2>1. \A k \in 1 .. Len(toServer) :
          /\ cst'[toServer[k].c] # "idle"
          /\ cst'[toServer[k].c] = "wait" => cst[toServer[k].c] = "wait"
    BY DEF OnlyFrom
  <2>2. QED BY <1>2, <1>3, <2>1, MailStates
<1>5. Mail(a, Append(toServer, p), cst', pktN') /\ OnlyFrom(a, Append(toServer, p))
  <2>1. OnlyFrom(a, Append(toServer, p))
    BY <1>2, AppendKeeps
  <2>2. \A k \in 1 .. Len(toServer) : toServer[k].c = p.c
    BY DEF OnlyFrom
  <2>3. QED BY <1>2, <1>4, <2>1, <2>2, MailAppend
<1>6. Mail(a, toServer', cst', pktN') /\ OnlyFrom(a, toServer')
  BY <1>4, <1>5
<1>7. \A d \in Client : cst'[d] = "wait" => d = a
  BY <1>2
<1>8. Engaged(a)'
  BY <1>1, <1>6, <1>7 DEF Calm, Focus, Engaged
<1>9. QED BY <1>6, <1>8

LEMMA AloneOn ==
    ASSUME NEW a \in Client, Alone(a), UNCHANGED serverVars, OnlyFrom(a, toServer'),
           \A d \in Client : d # a => cst'[d] = cst[d]
    PROVE  Alone(a)'
BY DEF Alone, serverVars

(* The ACK of block n releases block n + 1, and the server is there already. *)
LEMMA CalmSendNext ==
    ASSUME NEW a \in Client, Calm(a), NEW c \in Client, SendNext(c), UNCHANGED serverVars
    PROVE  Calmer(a)
<1>1. /\ Mode[c] = "send" /\ cst[c] = "wait" /\ toClient[c] # <<>>
      /\ Head(toClient[c]).op = "ACK"
  BY DEF SendNext, HasAnswer, Answer
<1>2. c = a /\ OnlyFrom(a, toServer) /\ ~Unserved(a)
  <2>1. c = a /\ OnlyFrom(a, toServer)
    BY <1>1, Answered
  <2>2. toClient[a] \in Seq(Datum)
    BY CalmTypes
  <2>3. QED BY <1>1, <2>1, <2>2, ErrorsOnly DEF Unserved
<1>3. /\ Mode[a] = "send" /\ Head(toClient[a]).n = pktN[a] /\ SendNext(a)
      /\ pktN' = [pktN EXCEPT ![a] = @ + 1] /\ Consume(a) /\ UNCHANGED result
  BY <1>1, <1>2 DEF SendNext, Expected, Answer
<1>4. /\ pktN \in [Client -> Nat] /\ toServer \in Seq(Datum) /\ toClient[a] \in Seq(Datum)
  BY CalmTypes DEF Calm, Types, ClientTypes
<1>5. PICK n \in Nat : n = pktN[a]
  BY <1>4
<1>6. PICK k \in Nat \ {0} : k = n + 1
  OBVIOUS
<1>7. pktN'[a] = k /\ \A d \in Client : d # a => pktN'[d] = pktN[d]
  BY <1>3, <1>4, <1>5, <1>6
<1>8. /\ cst'[a] \in {"wait", "done"}
      /\ \A d \in Client : d # a => cst'[d] = cst[d]
  <2>1. Ends(a, "done") \/ UNCHANGED cst
    BY <1>3 DEF SendNext
  <2>2. QED BY <1>1, <1>2, <2>1, EndsType DEF Calm
<1>9. Inboxes' /\ toClient'[a] \in {<<>>, Tail(toClient[a])}
  BY <1>1, <1>2, <1>3, <1>8, ConsumeCalm DEF Calm
<1>10. Runs'
  BY <1>3, SenderRuns DEF Calm
<1>11. PICK p \in FromClient(a, k) :
        p \in Datum /\ p.c = a /\ p.op = "DATA" /\ toServer' = Deliver(toServer, p)
  <2> DEFINE p == Pkt("DATA", a, k, Block(a, Size[a], k))
  <2>1. Block(a, Size[a], k) \in Seq(Item)
    <3>1. PICK size \in Nat : size = Size[a] /\ a \in Client \union Jobs
      BY Sizes
    <3>2. Block(a, size, k) \in Seq(Item)
      BY ONLY <3>1, BlockType, size \in Nat, k \in Nat \ {0}
    <3>3. QED BY ONLY <3>1, <3>2
  <2>2. p \in Datum /\ p.op = "DATA" /\ p.c = a /\ p.n = k /\ p.d = Block(a, Size[a], k)
    BY <2>1, PktType DEF Op
  <2>3. p \in FromClient(a, k)
    BY <1>3, <2>2 DEF FromClient
  <2>4. SendToServer(Pkt("DATA", a, pktN[a] + 1, Block(a, Size[a], pktN[a] + 1)))
    BY <1>3 DEF SendNext
  <2>5. SendToServer(p)
    BY ONLY <1>5, <1>6, <2>4
  <2>6. QED BY <2>2, <2>3, <2>5 DEF SendToServer
<1>12. toServer' \in {toServer, Append(toServer, p)}
  BY <1>11 DEF Deliver
<1>13. Sending(a) /\ spc # "parse"
  BY <1>1, <1>2, <1>3 DEF Calm, Focus, Engaged
<1>14. Engaged(a)' /\ OnlyFrom(a, toServer')
  <2>1. pktN'[a] \in {pktN[a], pktN[a] + 1} /\ p \in FromClient(a, pktN'[a])
    BY <1>5, <1>6, <1>7, <1>11
  <2>2. QED BY <1>1, <1>2, <1>7, <1>8, <1>11, <1>12, <1>13, <2>1, EngagedOn
<1>15. /\ RequestsFirst(a, toServer')
       /\ NoRequest(a, toServer) => NoRequest(a, toServer')
  BY <1>4, <1>11, <1>12, <1>13, AppendKeeps DEF Sending
<1>16. UNCHANGED <<spc, mclient, job, got, block, faults>>
  BY DEF serverVars
<1>17. \A m \in Nat : AcksBelow(toClient[a], m) => AcksBelow(toClient'[a], m) /\ n < m
  <2> SUFFICES ASSUME NEW m \in Nat, AcksBelow(toClient[a], m)
               PROVE  AcksBelow(toClient'[a], m) /\ n < m
    OBVIOUS
  <2>1. AcksBelow(toClient'[a], m)
    BY <1>1, <1>2, <1>4, <1>9, AcksConsumed
  <2>2. Head(toClient[a]).n < m
    BY <1>1, <1>2, <1>4, AcksKept
  <2>3. QED BY ONLY <1>3, <1>5, <2>1, <2>2
<1>18. Sending(a)'
  <2>1. NoRequest(a, toServer') \/ (k <= 1 /\ AcksBelow(toClient'[a], 1))
    <3>1. CASE NoRequest(a, toServer)
      BY <1>15, <3>1
    <3>2. CASE AcksBelow(toClient[a], 1)
      <4>1. AcksBelow(toClient'[a], 1) /\ n < 1
        BY <1>17, <3>2
      <4>2. QED BY <1>6, <4>1
    <3>3. QED BY <1>13, <3>1, <3>2 DEF Sending
  <2>2. ASSUME spc = "write"
        PROVE  /\ k <= block /\ block <= k + 1 /\ AcksBelow(toClient'[a], block)
               /\ block = 1 \/ NoRequest(a, toServer')
    <3>1. /\ n <= block /\ block <= n + 1 /\ AcksBelow(toClient[a], block)
          /\ block = 1 \/ NoRequest(a, toServer)
      BY <1>5, <1>13, <2>2 DEF Sending
    <3>2. block \in Nat \ {0}
      BY CalmTypes
    <3>3. AcksBelow(toClient'[a], block) /\ n < block
      BY <1>17, <3>1, <3>2
    <3>4. QED BY <1>6, <1>15, <3>1, <3>2, <3>3
  <2>3. Writable' = Writable
    BY <1>16 DEF Writable
  <2>4. QED BY <1>7, <1>13, <1>15, <1>16, <2>1, <2>2, <2>3 DEF Sending
<1>19. Alone(a) => Alone(a)'
  BY <1>8, <1>14, AloneOn
<1>20. QED BY <1>3, <1>9, <1>10, <1>14, <1>18, <1>19 DEF Calmer, Focus

(* A reader appends the block it waits for, and only that one.               *)
LEMMA ReaderTakes ==
    ASSUME Types, Inboxes, Runs, NEW a \in Client, ReadBlock(a)
    PROVE  /\ Runs' /\ pktN'[a] \in {pktN[a], pktN[a] + 1}
           /\ \A d \in Client : d # a => cst'[d] = cst[d] /\ pktN'[d] = pktN[d]
           /\ cst'[a] # "idle"
<1>1. /\ Mode[a] = "read" /\ cst[a] = "wait" /\ toClient[a] # <<>>
      /\ Head(toClient[a]).op = "DATA" /\ Head(toClient[a]) = Answer(a)
  BY DEF ReadBlock, HasAnswer, Answer
<1>2. pktN \in [Client -> Nat] /\ result \in [Client -> Seq(Item)]
  BY DEF Types, ClientTypes
<1>3. PICK n \in Nat \ {0} :
        /\ n = pktN[a] /\ (n - 1) * Blk <= Limit(Asked(a))
        /\ result[a] = Units(Asked(a), 1, (n - 1) * Blk)
  BY <1>1, <1>2 DEF Runs, Collected, First
<1>4. PICK size \in Nat : size = Limit(Asked(a)) /\ Asked(a) \in Client \union Jobs
  <2>1. Asked(a) \in Jobs
    BY JobsType DEF Asked
  <2>2. QED BY <2>1, LimitType, Sizes
<1>5. Answer(a).d = Block(Asked(a), size, Answer(a).n)
  <2>1. toClient[a] \in Seq(ForReader(a))
    BY <1>1 DEF Inboxes
  <2>2. Head(toClient[a]) \in ForReader(a)
    BY ONLY <1>1, <2>1, TailOf
  <2>3. QED BY <1>1, <1>4, <2>2 DEF ForReader, OfJob
<1>6. CASE Answer(a).n # n
  <2>1. UNCHANGED <<cst, pktN, result>>
    BY <1>3, <1>6 DEF ReadBlock, Expected, clientVars
  <2>2. Runs' /\ pktN'[a] = n /\ \A d \in Client : cst'[d] = cst[d]
    BY <1>3, <2>1, RunsStay
  <2>3. QED BY <1>1, <1>3, <2>1, <2>2
<1>7. CASE Answer(a).n = n /\ Len(Answer(a).d) < Blk
  <2>1. Ends(a, "done") /\ UNCHANGED pktN /\ result' = [result EXCEPT ![a] = @ \o Answer(a).d]
    BY <1>3, <1>7 DEF ReadBlock, Expected
  <2>2. cst'[a] = "done" /\ \A d \in Client : d # a => cst'[d] = cst[d]
    BY <2>1, EndsType
  <2>3. result'[a] = Units(Asked(a), 1, (n - 1) * Blk) \o Block(Asked(a), size, n)
        /\ \A d \in Client : d # a => result'[d] = result[d]
    BY <1>2, <1>3, <1>5, <1>7, <2>1
  <2>4. Len(Block(Asked(a), size, n)) < Blk /\ (n - 1) * Blk <= size
    BY ONLY <1>3, <1>4, <1>5, <1>7
  <2>5. result'[a] = Units(Asked(a), 1, size)
    BY ONLY <1>4, <2>3, <2>4, BlockFacts, n \in Nat \ {0}, size \in Nat
  <2>6. Collected(a)'
    BY <1>3, <1>4, <2>1, <2>2, <2>5 DEF Collected, Asked
  <2>7. Runs'
    <3> SUFFICES ASSUME NEW d \in Client
                 PROVE  /\ cst'[d] = "idle" => First(d, pktN')
                        /\ Mode[d] = "read" => Collected(d)'
      BY DEF Runs
    <3>1. CASE d = a
      BY <1>1, <2>2, <2>6, <3>1
    <3>2. CASE d # a
      BY <2>1, <2>2, <2>3, <3>2 DEF Runs, Collected, First
    <3>3. QED BY <3>1, <3>2
  <2>8. QED BY <1>3, <2>1, <2>2, <2>7
<1>8. CASE Answer(a).n = n /\ ~(Len(Answer(a).d) < Blk)
  <2>1. /\ UNCHANGED cst /\ result' = [result EXCEPT ![a] = @ \o Answer(a).d]
        /\ pktN' = [pktN EXCEPT ![a] = @ + 1]
    BY <1>3, <1>8 DEF ReadBlock, Expected
  <2>2. PICK k \in Nat \ {0} : k = n + 1 /\ k - 1 = n
    OBVIOUS
  <2>3. pktN'[a] = k /\ \A d \in Client : d # a => pktN'[d] = pktN[d]
    BY <1>2, <1>3, <2>1, <2>2
  <2>4. result'[a] = Units(Asked(a), 1, (n - 1) * Blk) \o Block(Asked(a), size, n)
        /\ \A d \in Client : d # a => result'[d] = result[d]
    BY <1>2, <1>3, <1>5, <1>8, <2>1
  <2>5. ~(Len(Block(Asked(a), size, n)) < Blk) /\ (n - 1) * Blk <= size
    BY ONLY <1>3, <1>4, <1>5, <1>8
  <2>6. result'[a] = Units(Asked(a), 1, n * Blk) /\ n * Blk <= size
    BY ONLY <1>4, <2>4, <2>5, BlockFacts, n \in Nat \ {0}, size \in Nat
  <2>7. Collected(a)'
    <3>1. cst'[a] # "done" /\ pktN'[a] # 0
      BY <1>1, <2>1, <2>2, <2>3
    <3>2. /\ (pktN'[a] - 1) * Blk <= Limit(Asked(a))
          /\ result'[a] = Units(Asked(a), 1, (pktN'[a] - 1) * Blk)
      BY ONLY <1>4, <2>2, <2>3, <2>6
    <3>3. QED BY <3>1, <3>2 DEF Collected, Asked
  <2>8. Runs'
    <3> SUFFICES ASSUME NEW d \in Client
                 PROVE  /\ cst'[d] = "idle" => First(d, pktN')
                        /\ Mode[d] = "read" => Collected(d)'
      BY DEF Runs
    <3>1. CASE d = a
      BY <1>1, <2>1, <2>7, <3>1
    <3>2. CASE d # a
      BY <2>1, <2>3, <2>4, <3>2 DEF Runs, Collected, First
    <3>3. QED BY <3>1, <3>2
  <2>9. QED BY <1>1, <1>3, <2>1, <2>2, <2>3, <2>8
<1>9. QED BY <1>6, <1>7, <1>8

LEMMA CalmReadBlock ==
    ASSUME NEW a \in Client, Calm(a), NEW c \in Client, ReadBlock(c), UNCHANGED serverVars
    PROVE  Calmer(a)
<1>1. /\ Mode[c] = "read" /\ cst[c] = "wait" /\ toClient[c] # <<>> /\ Consume(c)
      /\ Head(toClient[c]).op = "DATA" /\ SendToServer(Pkt("ACK", c, pktN[c], <<>>))
  BY DEF ReadBlock, HasAnswer, Answer
<1>2. c = a /\ OnlyFrom(a, toServer) /\ ~Unserved(a)
  <2>1. c = a /\ OnlyFrom(a, toServer)
    BY <1>1, Answered
  <2>2. toClient[a] \in Seq(Datum)
    BY CalmTypes
  <2>3. QED BY <1>1, <2>1, <2>2, ErrorsOnly DEF Unserved
<1>3. /\ Runs' /\ pktN'[a] \in {pktN[a], pktN[a] + 1}
      /\ \A d \in Client : d # a => cst'[d] = cst[d] /\ pktN'[d] = pktN[d]
      /\ cst'[a] # "idle"
  BY <1>2, ReaderTakes DEF Calm
<1>4. Inboxes'
  BY <1>1, <1>2, <1>3, ConsumeCalm DEF Calm
<1>5. PICK n \in Nat : n = pktN[a]
  BY CalmTypes
<1>6. PICK p \in Datum : p.c = a /\ p.op = "ACK" /\ toServer' = Deliver(toServer, p)
  <2>1. <<>> \in Seq(Item)
    OBVIOUS
  <2>2. Pkt("ACK", a, n, <<>>) \in Datum /\ Pkt("ACK", a, n, <<>>).op = "ACK"
        /\ Pkt("ACK", a, n, <<>>).c = a
    BY <2>1 DEF Pkt, Datum, Op
  <2>3. toServer' = Deliver(toServer, Pkt("ACK", a, n, <<>>))
    BY <1>1, <1>2, <1>5 DEF SendToServer
  <2>4. QED BY <2>2, <2>3
<1>7. p \in FromClient(a, pktN'[a])
  BY <1>1, <1>2, <1>6 DEF FromClient
<1>8. toServer' \in {toServer, Append(toServer, p)}
  BY <1>6 DEF Deliver
<1>9. spc # "parse"
  BY <1>1, <1>2 DEF Calm, Focus, Engaged
<1>10. Engaged(a)' /\ OnlyFrom(a, toServer')
  BY <1>1, <1>2, <1>3, <1>6, <1>7, <1>8, <1>9, EngagedOn
<1>11. Reading(a)'
  <2>1. UNCHANGED <<spc, mclient, job, block, cur, out>>
    BY DEF serverVars
  <2>2. ~Spoiled(a)
    BY <1>1, <1>2 DEF Spoiled
  <2>3. QED BY <1>1, <1>2, <2>1, <2>2 DEF Calm, Focus, Reading, ServesBlock, Asked
<1>12. Alone(a) => Alone(a)'
  BY <1>3, <1>10, AloneOn
<1>13. QED BY <1>1, <1>2, <1>3, <1>4, <1>10, <1>11, <1>12 DEF Calmer, Focus

(* A client repeats its request, its last block or the last ACK.             *)
LEMMA MyRepeat ==
    ASSUME Types, NEW c \in Client
    PROVE  /\ Repeat(c) \in FromClient(c, pktN[c]) /\ Repeat(c) \in Datum /\ Repeat(c).c = c
           /\ Mode[c] = "send" /\ pktN[c] # 0 => Repeat(c).op # "WRQ"
           /\ First(c, pktN) => Opening(Repeat(c), pktN)
<1>1. Repeat(c) \in Datum /\ pktN[c] \in Nat
  BY RepeatType DEF Types, ClientTypes
<1>2. ASSUME Repeat(c) = Req(c)
      PROVE  /\ Repeat(c) \in FromClient(c, pktN[c]) /\ Repeat(c).c = c
             /\ First(c, pktN) => Opening(Repeat(c), pktN)
  BY <1>2, ReqFacts DEF Opening
<1>3. CASE Mode[c] = "send" /\ pktN[c] # 0
  <2>1. Repeat(c) = Pkt("DATA", c, pktN[c], Block(c, Size[c], pktN[c]))
    BY <1>3 DEF Repeat
  <2>2. /\ Repeat(c).op = "DATA" /\ Repeat(c).c = c /\ Repeat(c).n = pktN[c]
        /\ Repeat(c).d = Block(c, Size[c], pktN[c])
    BY <2>1 DEF Pkt
  <2>3. pktN[c] \in 1 .. pktN[c] /\ ~First(c, pktN)
    BY <1>1, <1>3 DEF First
  <2>4. QED BY <1>1, <1>3, <2>2, <2>3 DEF FromClient
<1>4. CASE Mode[c] # "send" /\ pktN[c] # 1
  <2>1. Repeat(c) = Pkt("ACK", c, pktN[c], <<>>)
    BY <1>4 DEF Repeat
  <2>2. Repeat(c).op = "ACK" /\ Repeat(c).c = c /\ ~First(c, pktN)
    BY <1>4, <2>1 DEF Pkt, First
  <2>3. QED BY <1>1, <1>4, <2>2 DEF FromClient
<1>5. CASE (Mode[c] = "send" /\ pktN[c] = 0) \/ (Mode[c] # "send" /\ pktN[c] = 1)
  <2>1. Repeat(c) = Req(c)
    BY <1>5 DEF Repeat
  <2>2. QED BY <1>1, <1>2, <1>5, <2>1
<1>6. QED BY <1>3, <1>4, <1>5

LEMMA CalmTimeout ==
    ASSUME NEW a \in Client, Calm(a), NEW c \in Client, Timeout(c), UNCHANGED serverVars
    PROVE  Calmer(a)
<1>1. /\ cst[c] = "wait" /\ toClient[c] = <<>> /\ UNCHANGED <<toClient, pktN, result>>
      /\ \/ SendToServer(Repeat(c)) /\ UNCHANGED cst
         \/ Ends(c, "failed") /\ UNCHANGED toServer
  BY DEF Timeout
<1>2. /\ cst'[c] \in {"wait", "failed"}
      /\ \A d \in Client : d # c => cst'[d] = cst[d]
  BY <1>1, EndsType DEF Calm
<1>3. Inboxes'
  BY <1>1, <1>2 DEF Calm, Inboxes
<1>4. Runs'
  BY <1>1, <1>2, RunsEnd DEF Calm
<1>5. CASE UNCHANGED toServer
  <2>1. Focus(a)' /\ (Alone(a) => Alone(a)')
    BY <1>1, <1>2, <1>5, QuietStep
  <2>2. QED BY <1>3, <1>4, <2>1 DEF Calmer
<1>6. CASE toServer' = Append(toServer, Repeat(c)) /\ UNCHANGED cst
  <2>1. /\ Repeat(c) \in FromClient(c, pktN[c]) /\ Repeat(c) \in Datum /\ Repeat(c).c = c
        /\ Mode[c] = "send" /\ pktN[c] # 0 => Repeat(c).op # "WRQ"
        /\ First(c, pktN) => Opening(Repeat(c), pktN)
    BY MyRepeat DEF Calm
  <2>2. /\ toServer \in Seq(Datum) /\ Mail(a, toServer, cst, pktN) /\ pktN[a] \in Nat
    BY CalmTypes
  <2>3. /\ Opening(Repeat(c), pktN) \/ (c = a /\ OnlyFrom(a, toServer))
        /\ \A d \in Client : cst[d] = "wait" => d = c
    BY <1>1, <2>1, OneWaits DEF Unserved
  <2>4. Mail(a, toServer', cst', pktN)
    <3>1. \A k \in 1 .. Len(toServer) : toServer[k].c \in Client
      BY <2>2, Fields
    <3>2. \A k \in 1 .. Len(toServer) : cst[toServer[k].c] = "wait" => toServer[k].c = Repeat(c).c
      BY <2>1, <2>3, <3>1
    <3>3. Mail(a, Append(toServer, Repeat(c)), cst, pktN)
      BY <1>1, <2>1, <2>2, <2>3, <3>2, MailAppend
    <3>4. QED BY <1>6, <3>3
  <2>5. OnlyFrom(a, toServer) /\ c = a => OnlyFrom(a, toServer')
    BY <1>6, <2>1, <2>2, AppendKeeps
  <2>6. Mode[a] = "send" =>
          /\ RequestsFirst(a, toServer')
          /\ \/ NoRequest(a, toServer) => NoRequest(a, toServer')
             \/ a = c /\ pktN[a] = 0 /\ toClient'[a] = <<>>
    <3> SUFFICES ASSUME Mode[a] = "send"
                 PROVE  /\ RequestsFirst(a, toServer')
                        /\ \/ NoRequest(a, toServer) => NoRequest(a, toServer')
                           \/ a = c /\ pktN[a] = 0 /\ toClient'[a] = <<>>
      OBVIOUS
    <3>1. RequestsFirst(a, toServer)
      BY DEF Calm, Focus, Sending
    <3>2. CASE a = c /\ pktN[a] = 0
      <4>1. ASSUME NEW i \in 1 .. Len(toServer), toServer[i].c = a PROVE toServer[i].op = "WRQ"
        <5>1. toServer[i] \in FromClient(a, pktN[a])
          BY <2>2, <4>1 DEF Mail
        <5>2. \/ toServer[i].op = "WRQ"
              \/ toServer[i].n \in 1 .. pktN[a]
          BY ONLY <2>2, <3>1, <5>1, Mode[a] = "send", FromClientFacts, a \in Client
        <5>3. QED BY ONLY <3>2, <5>2
      <4>2. RequestsFirst(a, Append(toServer, Repeat(c)))
        BY <2>1, <2>2, <4>1, AppendKeeps
      <4>3. QED BY <1>1, <1>6, <3>2, <4>2
    <3>3. CASE ~(a = c /\ pktN[a] = 0)
      <4>1. Repeat(c).c = a => Repeat(c).op # "WRQ"
        BY <2>1, <3>3
      <4>2. QED BY <1>6, <2>1, <2>2, <3>1, <4>1, AppendKeeps
    <3>4. QED BY <3>2, <3>3
  <2>7. Spoiled(a) => AllOpening(toServer', pktN)
    <3> SUFFICES ASSUME Spoiled(a) PROVE AllOpening(toServer', pktN)
      OBVIOUS
    <3>1. Opening(Repeat(c), pktN) /\ AllOpening(toServer, pktN)
      BY <1>1, <2>3 DEF Spoiled
    <3>2. QED BY <1>6, <2>1, <2>2, <3>1, AppendKeeps
  <2>8. Unserved(c) => Unserved(c)'
    BY <1>1, UnservedStays
  <2>9. cst'[c] # "idle" /\ \A d \in Client : d # c => toClient'[d] = toClient[d]
    BY <1>1, <1>2
  <2>10. \A m \in Nat : AcksBelow(toClient[a], m) => AcksBelow(toClient'[a], m)
    BY <1>1
  <2>11. Types /\ Focus(a) /\ UNCHANGED pktN
    BY <1>1 DEF Calm
  <2>12. Focus(a)' /\ (Alone(a) => Alone(a)')
    BY <1>1, <1>2, <2>4, <2>5, <2>6, <2>7, <2>8, <2>9, <2>10, <2>11, FocusKept
  <2>13. QED BY <1>3, <1>4, <2>12 DEF Calmer
<1>7. QED BY <1>1, <1>5, <1>6 DEF SendToServer, Deliver

LEMMA RunBegins ==
    ASSUME Types, Inboxes, Runs, NEW c \in Client, Start(c)
    PROVE  /\ Inboxes' /\ Runs' /\ First(c, pktN) /\ cst'[c] = "wait"
           /\ \A d \in Client : d # c => cst'[d] = cst[d]
<1>1. /\ cst[c] = "idle" /\ cst' = [cst EXCEPT ![c] = "wait"]
      /\ UNCHANGED <<toClient, pktN, result>>
  BY DEF Start
<1>2. cst'[c] = "wait" /\ \A d \in Client : d # c => cst'[d] = cst[d]
  BY <1>1 DEF Types, NetTypes
<1>3. Inboxes' /\ First(c, pktN)
  BY <1>1, <1>2 DEF Inboxes, Runs
<1>4. Runs'
  <2> SUFFICES ASSUME NEW d \in Client
               PROVE  /\ cst'[d] = "idle" => First(d, pktN')
                      /\ Mode[d] = "read" => Collected(d)'
    BY DEF Runs
  <2>1. CASE d = c
    <3>1. cst'[c] # "idle" /\ cst'[c] # "done" /\ cst[c] # "done"
      BY <1>1, <1>2
    <3>2. Mode[c] = "read" => Collected(c)
      BY DEF Runs
    <3>3. QED BY <1>1, <2>1, <3>1, <3>2 DEF Collected
  <2>2. CASE d # c
    BY <1>1, <1>2, <2>2 DEF Runs, Collected, First
  <2>3. QED BY <2>1, <2>2
<1>5. QED BY <1>2, <1>3, <1>4

(* A run begins when the last one is over: its client is the one the server  *)
(* goes on with when the server is back, and one more that waits for it      *)
(* otherwise.                                                                *)
LEMMA CalmStartRun ==
    ASSUME Sequential, NEW a \in Client, Calm(a), NEW c \in Client, StartRun(c)
    PROVE  /\ Inboxes' /\ Runs'
           /\ \/ Focus(c)' /\ Alone(c)'
              \/ Focus(a)' /\ hurried'
<1>1. /\ \A d \in Client : cst[d] # "wait"
      /\ cst[c] = "idle" /\ SendToServer(Req(c)) /\ Start(c)
      /\ UNCHANGED <<toClient, pktN>> /\ UNCHANGED serverVars
      /\ hurried' = ~ServerBack
  BY DEF StartRun, Start
<1>2. /\ Inboxes' /\ Runs' /\ First(c, pktN) /\ cst'[c] = "wait"
      /\ \A d \in Client : d # c => cst'[d] = cst[d]
  BY <1>1, RunBegins DEF Calm
<1>3. toClient[c] = <<>>
  BY <1>1 DEF Calm, Inboxes
<1>4. UNCHANGED <<spc, mclient, job, got, block, cur, out, faults>>
  BY <1>1 DEF serverVars
<1>5. /\ Req(c) \in Datum /\ Req(c).c = c /\ \A n : Req(c) \in FromClient(c, n)
      /\ Opening(Req(c), pktN)
  BY <1>2, ReqFacts DEF Opening
<1>6. toServer' \in {toServer, Append(toServer, Req(c))}
  BY <1>1 DEF SendToServer, Deliver
<1>7. toServer \in Seq(Datum) /\ Mail(a, toServer, cst, pktN) /\ pktN[a] \in Nat
  BY CalmTypes
<1>8. CASE ServerBack
  <2>1. spc = "run" /\ toServer = <<>>
    BY <1>8 DEF ServerBack
  <2>2. Mail(c, <<>>, cst', pktN) /\ OnlyFrom(c, <<>>) /\ Len(<<>>) = 0
    BY EmptyKeeps
  <2>3. Mail(c, Append(<<>>, Req(c)), cst', pktN) /\ OnlyFrom(c, Append(<<>>, Req(c)))
        /\ RequestsFirst(c, Append(<<>>, Req(c)))
    <3>1. <<>> \in Seq(Datum) /\ \A i \in 1 .. Len(<<>>) : <<>>[i].c = c => <<>>[i].op = "WRQ"
      BY <2>2
    <3>2. OnlyFrom(c, Append(<<>>, Req(c))) /\ RequestsFirst(c, Append(<<>>, Req(c)))
      <4>1. \A q \in Seq(Datum) :
              /\ OnlyFrom(c, q) => OnlyFrom(c, Append(q, Req(c)))
              /\ (\A i \in 1 .. Len(q) : q[i].c = c => q[i].op = "WRQ")
                   => RequestsFirst(c, Append(q, Req(c)))
        BY <1>5, AppendKeeps
      <4>2. QED BY <2>2, <3>1, <4>1
    <3>3. cst'[Req(c).c] # "idle"
      BY <1>2, <1>5
    <3>4. \A k \in 1 .. Len(<<>>) : cst'[<<>>[k].c] = "wait" => <<>>[k].c = Req(c).c
      BY <2>2
    <3>5. Mail(c, Append(<<>>, Req(c)), cst', pktN)
      BY <1>5, <2>2, <3>1, <3>3, <3>4, MailAppend
    <3>6. QED BY <3>2, <3>5
  <2>4. /\ Mail(c, toServer', cst', pktN) /\ OnlyFrom(c, toServer')
        /\ RequestsFirst(c, toServer')
    BY <1>6, <2>1, <2>2, <2>3, EmptyKeeps
  <2>5. Engaged(c)' /\ Alone(c)'
    BY <1>1, <1>2, <1>4, <2>1, <2>4 DEF Engaged, Alone
  <2>6. Mode[c] = "send" => Sending(c)'
    <3>1. Mode[c] = "send" => pktN[c] = 0
      BY <1>2 DEF First
    <3>2. AcksBelow(toClient'[c], 1)
      BY <1>1, <1>3, EmptyKeeps
    <3>3. QED BY <1>1, <1>4, <2>1, <2>4, <3>1, <3>2 DEF Sending
  <2>7. Reading(c)'
    BY <1>4, <2>1 DEF Reading
  <2>8. QED BY <1>2, <2>5, <2>6, <2>7 DEF Focus
<1>9. CASE ~ServerBack
  <2>1. \A k \in 1 .. Len(toServer) :
          /\ toServer[k].c \in Client /\ toServer[k].c # c
          /\ cst'[toServer[k].c] # "idle" /\ cst'[toServer[k].c] # "wait"
    <3>1. \A k \in 1 .. Len(toServer) : toServer[k].c \in Client /\ cst[toServer[k].c] # "idle"
      BY <1>7, Fields DEF Mail
    <3>2. QED BY <1>1, <1>2, <3>1
  <2>2. Mail(a, toServer', cst', pktN)
    <3>1. Mail(a, toServer, cst', pktN)
      BY <1>7, <2>1, MailStates
    <3>2. Mail(a, Append(toServer, Req(c)), cst', pktN)
      BY <1>2, <1>5, <1>7, <2>1, <3>1, MailAppend
    <3>3. QED BY <1>6, <3>1, <3>2
  <2>3. spc \in {"write", "ack", "parse"} => a # c /\ cst'[a] # "idle" /\ cst'[a] # "wait"
    BY <1>1, <1>2 DEF Calm, Focus, Engaged
  <2>4. \A d \in Client : cst'[d] = "wait" => d = c /\ Unserved(d)'
    <3>1. Unserved(c)'
      BY <1>1, <1>2, <1>3 DEF Unserved, First
    <3>2. QED BY <1>1, <1>2, <3>1
  <2>5. Engaged(a)'
    BY <1>1, <1>4, <2>2, <2>3, <2>4 DEF Calm, Focus, Engaged, First
  <2>6. ASSUME Mode[a] = "send" PROVE Sending(a)'
    <3>1. RequestsFirst(a, toServer')
      <4>1. CASE a = c
        BY <1>5, <1>6, <1>7, <2>1, <2>6, <4>1, AppendKeeps DEF Calm, Focus, Sending
      <4>2. CASE a # c
        BY <1>5, <1>6, <1>7, <2>6, <4>2, AppendKeeps DEF Calm, Focus, Sending
      <4>3. QED BY <4>1, <4>2
    <3>2. a # c /\ NoRequest(a, toServer) => NoRequest(a, toServer')
      BY <1>5, <1>6, <1>7, AppendKeeps
    <3>3. a = c => pktN[a] = 0 /\ AcksBelow(toClient[a], 1)
      BY <1>2, <1>3, <2>6, EmptyKeeps DEF First
    <3>4. Writable' = Writable
      BY <1>4 DEF Writable
    <3>5. QED BY <1>1, <1>4, <2>3, <2>6, <3>1, <3>2, <3>3, <3>4 DEF Calm, Focus, Sending
  <2>7. ASSUME Mode[a] = "read" PROVE Reading(a)'
    <3>1. Spoiled(a) /\ spc = "ack" => Spoiled(a)'
      <4> SUFFICES ASSUME Spoiled(a), spc = "ack" PROVE Spoiled(a)'
        OBVIOUS
      <4>1. AllOpening(toServer', pktN)
        BY <1>5, <1>6, <1>7, AppendKeeps DEF Spoiled
      <4>2. QED BY <1>1, <1>4, <2>3, <4>1 DEF Spoiled, AllOpening, Opening, First
    <3>2. QED BY <1>4, <2>7, <3>1 DEF Calm, Focus, Reading, ServesBlock, Asked
  <2>8. QED BY <1>1, <1>2, <1>9, <2>5, <2>6, <2>7 DEF Focus
<1>10. QED BY <1>8, <1>9

---------------------------------------------------------------------------
(* A lost datagram.                                                          *)

LEMMA CalmLose ==
    ASSUME NEW a \in Client, Calm(a), Drop, UNCHANGED serverVars, UNCHANGED clientVars
    PROVE  Calmer(a)
<1>1. UNCHANGED serverVars /\ UNCHANGED <<pktN, result, cst>>
  BY DropType DEF Calm, clientVars
<1>2. Runs'
  BY <1>1, RunsStay DEF Calm
<1>3. toServer \in Seq(Datum) /\ Mail(a, toServer, cst, pktN)
  BY CalmTypes
<1>4. UNCHANGED <<spc, mclient, job, got, block, cur, out, faults>>
  BY <1>1 DEF serverVars
<1>5. CASE DropToServer
  <2>1. Part(toServer', toServer) /\ UNCHANGED toClient
    <3>1. PICK i \in 1 .. Len(toServer) : toServer' = Without(toServer, i)
      BY <1>5 DEF DropToServer, Without
    <3>2. Part(Without(toServer, i), toServer)
      BY <1>3, Parts
    <3>3. QED BY <1>5, <3>1, <3>2 DEF DropToServer
  <2>2. /\ Mail(a, toServer', cst', pktN') /\ \A d : OnlyFrom(d, toServer) => OnlyFrom(d, toServer')
        /\ RequestsFirst(a, toServer) => RequestsFirst(a, toServer')
        /\ NoRequest(a, toServer) => NoRequest(a, toServer')
        /\ \A ns : AllOpening(toServer, ns) => AllOpening(toServer', ns)
    BY <1>1, <1>3, <2>1, PartKeeps
  <2>3. Inboxes'
    BY <1>1, <2>1, InboxesStay DEF Calm
  <2>4. \A d \in Client : Unserved(d) => Unserved(d)'
    BY <1>1, <2>1 DEF Unserved, First
  <2>5. Engaged(a)'
    BY <1>1, <1>4, <2>2, <2>4 DEF Calm, Focus, Engaged, First
  <2>6. Mode[a] = "send" => Sending(a)'
    <3>1. Writable' = Writable
      BY <1>4 DEF Writable
    <3>2. QED BY <1>1, <1>4, <2>1, <2>2, <3>1 DEF Calm, Focus, Sending
  <2>7. Mode[a] = "read" => Reading(a)'
    <3>1. Spoiled(a) => Spoiled(a)'
      BY <1>1, <1>4, <2>2 DEF Spoiled
    <3>2. QED BY <1>4, <3>1 DEF Calm, Focus, Reading, ServesBlock, Asked
  <2>8. Alone(a) => Alone(a)'
    BY <1>1, <1>4, <2>2 DEF Alone
  <2>9. QED BY <1>2, <2>3, <2>5, <2>6, <2>7, <2>8 DEF Calmer, Focus
<1>6. ASSUME NEW c \in Client, DropToClient(c) PROVE Calmer(a)
  <2>1. /\ toClient[c] # <<>> /\ toClient' = [toClient EXCEPT ![c] = Tail(@)]
        /\ UNCHANGED toServer
    BY <1>6 DEF DropToClient
  <2>2. /\ cst[c] = "wait" /\ toClient'[c] = Tail(toClient[c])
        /\ \A d \in Client : d # c => toClient'[d] = toClient[d]
    BY <2>1 DEF Calm, Types, NetTypes, Inboxes
  <2>3. Inboxes'
    <3> SUFFICES ASSUME NEW d \in Client
                 PROVE  /\ cst'[d] # "wait" => toClient'[d] = <<>>
                        /\ Mode[d] = "read" => toClient'[d] \in Seq(ForReader(d))
      BY DEF Inboxes
    <3>1. CASE d = c
      <4>1. Mode[c] = "read" => Tail(toClient[c]) \in Seq(ForReader(c))
        BY <2>1, TailOf DEF Calm, Inboxes
      <4>2. QED BY <1>1, <2>2, <3>1, <4>1
    <3>2. CASE d # c
      BY <1>1, <2>2, <3>2 DEF Calm, Inboxes
    <3>3. QED BY <3>1, <3>2
  <2>4. cst'[c] # "idle" /\ \A d \in Client : d # c => cst'[d] = cst[d]
    BY <1>1, <2>2
  <2>5. Focus(a)' /\ (Alone(a) => Alone(a)')
    BY <1>1, <2>1, <2>2, <2>4, QuietStep
  <2>6. QED BY <1>2, <2>3, <2>5 DEF Calmer
<1>7. QED BY <1>5, <1>6 DEF Drop

---------------------------------------------------------------------------
(* The invariant holds, and what it says.                                    *)

LEMMA TransfersInit == Init => Transfers
<1> SUFFICES ASSUME Init PROVE Transfers
  OBVIOUS
<1>1. PICK a \in Client : TRUE
  BY NetAssumption
<1>2. /\ toServer = <<>> /\ toClient = [c \in Client |-> <<>>]
      /\ cst = [c \in Client |-> "idle"] /\ spc = "start"
  BY DEF Init, NetInit, ServerInit
<1>3. /\ pktN = [c \in Client |-> IF Mode[c] = "send" THEN 0 ELSE 1]
      /\ result = [c \in Client |-> <<>>]
  BY DEF Init, ClientInit
<1>4. Inboxes
  <2>1. \A c \in Client : <<>> \in Seq(ForReader(c))
    OBVIOUS
  <2>2. QED BY <1>2, <2>1 DEF Inboxes
<1>5. Runs
  <2> SUFFICES ASSUME NEW c \in Client
               PROVE  First(c, pktN) /\ (Mode[c] = "read" => Collected(c))
    BY DEF Runs
  <2>1. Mode[c] = "read" => Collected(c)
    <3> SUFFICES ASSUME Mode[c] = "read" PROVE Collected(c)
      OBVIOUS
    <3>1. cst[c] # "done" /\ pktN[c] = 1 /\ result[c] = <<>>
      BY <1>2, <1>3
    <3>2. Asked(c) \in Jobs
      BY JobsType DEF Asked
    <3>3. (1 - 1) * Blk = 0 /\ Units(Asked(c), 1, 0) = <<>>
      BY <3>2, NoUnits
    <3>4. 0 <= Limit(Asked(c))
      BY <3>2, LimitType, Sizes
    <3>5. /\ (pktN[c] - 1) * Blk <= Limit(Asked(c))
          /\ result[c] = Units(Asked(c), 1, (pktN[c] - 1) * Blk)
      BY ONLY <3>1, <3>3, <3>4
    <3>6. QED BY <3>1, <3>5 DEF Collected
  <2>2. QED BY <1>3, <2>1 DEF First
<1>6. Engaged(a) /\ Alone(a)
  <2>1. Mail(a, <<>>, cst, pktN) /\ OnlyFrom(a, <<>>)
    BY EmptyKeeps
  <2>2. QED BY <1>2, <2>1 DEF Engaged, Alone
<1>7. Sending(a) /\ Reading(a)
  BY <1>2, EmptyKeeps DEF Sending, Reading
<1>8. QED BY <1>4, <1>5, <1>6, <1>7 DEF Transfers, Focus

LEMMA TransfersStep ==
    ASSUME Sequential, Types, Transfers, [Next]_vars PROVE Transfers'
<1>1. PICK a \in Client : Calm(a) /\ (hurried \/ Alone(a))
  BY DEF Transfers, Calm
<1>2. ASSUME Calmer(a), UNCHANGED hurried PROVE Transfers'
  BY <1>1, <1>2 DEF Calmer, Transfers
<1>3. CASE ServerRuns \/ LateServer \/ PowerFails
  <2>1. UNCHANGED clientVars /\ (ServerStep \/ ServerTimeout \/ PowerCycle)
        /\ UNCHANGED hurried
    BY <1>3 DEF ServerRuns, LateServer, PowerFails, ServerGoesOn
  <2>2. UNCHANGED cst
    BY <1>1, <2>1, ServerType DEF Calm, ServerKeeps
  <2>3. PICK b \in Client : StillCalm(b) /\ (Alone(a) => b = a /\ Alone(b)')
    BY <1>1, <2>1, <2>2, CalmServer
  <2>4. Runs'
    BY <1>1, <2>1, <2>2, RunsStay DEF Calm, clientVars
  <2>5. QED BY <1>1, <2>1, <2>3, <2>4 DEF StillCalm, Transfers
<1>4. CASE Lose
  BY <1>1, <1>2, <1>4, CalmLose DEF Lose
<1>5. ASSUME NEW c \in Client, StartRun(c) PROVE Transfers'
  BY <1>1, <1>5, CalmStartRun DEF Transfers
<1>6. ASSUME NEW c \in Client, ClientRuns(c) \/ ClientTimeout(c) \/ Stop(c) PROVE Transfers'
  <2>1. /\ UNCHANGED serverVars /\ UNCHANGED hurried
        /\ ClientStep(c) \/ Timeout(c) \/ Kill(c)
    BY <1>6 DEF ClientRuns, ClientTimeout, Stop
  <2>2. Calmer(a)
    BY <1>1, <2>1, CalmError, CalmSendNext, CalmReadBlock, CalmIgnore, CalmTimeout, CalmKill
    DEF ClientStep
  <2>3. QED BY <1>2, <2>1, <2>2
<1>7. CASE UNCHANGED vars
  <2>1. /\ UNCHANGED <<toServer, toClient, cst, pktN, result, hurried>>
        /\ UNCHANGED <<spc, mclient, job, got, block, cur, out, faults>>
    BY <1>7 DEF vars, netVars, clientVars, serverVars
  <2>2. Inboxes' /\ Runs'
    BY <1>1, <2>1, InboxesStay, RunsStay DEF Calm
  <2>3. Engaged(a)'
    BY <1>1, <2>1 DEF Calm, Focus, Engaged, Unserved, First
  <2>4. Mode[a] = "send" => Sending(a)'
    BY <1>1, <2>1 DEF Calm, Focus, Sending, Writable
  <2>5. Mode[a] = "read" => Reading(a)'
    BY <1>1, <2>1 DEF Calm, Focus, Reading, ServesBlock, Asked, Spoiled
  <2>6. Alone(a) => Alone(a)'
    BY <2>1 DEF Alone
  <2>7. QED BY <1>1, <2>1, <2>2, <2>3, <2>4, <2>5, <2>6 DEF Transfers, Focus
<1>8. QED BY <1>3, <1>4, <1>5, <1>6, <1>7 DEF Next

TransfersInv == Types /\ Transfers

LEMMA TransfersHold == ASSUME Sequential PROVE Spec => []TransfersInv
<1>1. Init => TransfersInv
  BY TypesInit, TransfersInit DEF TransfersInv
<1>2. TransfersInv /\ [Next]_vars => TransfersInv'
  BY TypesStep, TransfersStep DEF TransfersInv
<1>3. QED BY <1>1, <1>2, PTL DEF Spec

(* Of one upload after another, the server holds a gapless prefix of the     *)
(* file (process_write, tftp_server.cpp:108, and on_write_data), and its     *)
(* sender is at most one block ahead (mstd.cfg.py:562).                      *)
THEOREM UploadsInOrder == ASSUME Sequential PROVE Spec => []UploadIsPrefix
<1>1. TransfersInv => UploadIsPrefix
  <2> SUFFICES ASSUME TransfersInv, spc = "write"
               PROVE  /\ pktN[mclient] <= block
                      /\ Writable => got = Units(mclient, 1, (block - 1) * Blk)
    BY DEF UploadIsPrefix
  <2>1. PICK a \in Client : Focus(a)
    BY DEF TransfersInv, Transfers
  <2>2. Mode[a] = "send" /\ Sending(a) /\ mclient = a
    BY <2>1, Modes DEF Focus, Reading, Engaged
  <2>3. QED BY <2>2 DEF Sending
<1>2. QED BY <1>1, TransfersHold, PTL

LEMMA TimesMono ==
    ASSUME NEW m \in Nat, NEW k \in Nat, m <= k PROVE m * Blk <= k * Blk
<1>1. PICK e \in Nat : k = m + e
  <2>1. k - m \in Nat /\ k = m + (k - m)
    OBVIOUS
  <2>2. QED BY <2>1
<1>2. \A x, y, z \in Nat : (x + y) * z = x * z + y * z /\ x * z \in Nat /\ y * z \in Nat
  OBVIOUS
<1>3. QED BY <1>1, <1>2, Sizes

(* What an upload leaves that closes with a short block.                     *)
LEMMA ClosedWhole ==
    ASSUME TransfersInv, WriteBlock, spc' # "write", Writable'
    PROVE  got' = Whole(mclient')
<1>1. PICK a \in Client : Calm(a)
  BY DEF TransfersInv, Transfers, Calm
<1>2. /\ Msg.n \in Nat \ {0} /\ Msg.n <= block /\ block \in Nat \ {0} /\ mclient' = a
      /\ Msg.d = Block(a, Size[a], Msg.n) /\ (block - 1) * Blk <= Size[a]
  BY <1>1, Uploading
<1>3. /\ got = Units(a, 1, (block - 1) * Blk)
      /\ Msg.n = block => got' = got \o Msg.d
  BY <1>1, BlockStored
<1>4. Len(Msg.d) < Blk
  BY DEF WriteBlock
<1>5. PICK size \in Nat : size = Size[a] /\ a \in Client \union Jobs
  BY Sizes
<1>6. PICK n \in Nat \ {0} : n = Msg.n
  BY <1>2
<1>7. PICK p \in Nat : p = block - 1 /\ p * Blk <= size
  BY <1>2, <1>5
<1>8. CASE n = block
  <2>1. (n - 1) * Blk <= size /\ Len(Block(a, size, n)) < Blk
    BY ONLY <1>2, <1>4, <1>5, <1>6, <1>8
  <2>2. Units(a, 1, (n - 1) * Blk) \o Block(a, size, n) = Units(a, 1, size)
    BY ONLY <1>5, <2>1, BlockFacts, n \in Nat \ {0}, size \in Nat
  <2>3. got' = Units(a, 1, size)
    BY ONLY <1>2, <1>3, <1>5, <1>6, <1>8, <2>2
  <2>4. QED BY <1>2, <1>5, <2>3 DEF Whole
<1>9. CASE n # block
  <2>1. n <= p /\ n - 1 \in Nat /\ n - 1 <= n
    BY <1>2, <1>6, <1>7, <1>9
  <2>2. PICK e \in Nat : e = n * Blk /\ e <= size
    <3>1. n * Blk \in Nat /\ p * Blk \in Nat /\ n * Blk <= p * Blk
      BY <2>1, Times, TimesMono
    <3>2. QED BY <1>7, <3>1
  <2>3. PICK b \in Nat : b = (n - 1) * Blk /\ e = b + Blk
    <3>1. PICK k \in Nat : k = n - 1 /\ n = k + 1
      BY <2>1
    <3>2. k * Blk \in Nat /\ (k + 1) * Blk = k * Blk + Blk
      BY Times
    <3>3. QED BY ONLY <2>2, <3>1, <3>2
  <2>4. (n - 1) * Blk <= size
    BY <2>2, <2>3, Sizes
  <2>5. Len(Block(a, size, n))
          = (IF n * Blk < size THEN n * Blk ELSE size) - (n - 1) * Blk
    BY ONLY <1>5, <2>4, BlockFacts, n \in Nat \ {0}, size \in Nat
  <2>6. Len(Block(a, size, n)) = Blk
    <3>1. (IF e < size THEN e ELSE size) - b = Blk
      BY <2>2, <2>3, Sizes
    <3>2. QED BY ONLY <2>2, <2>3, <2>5, <3>1
  <2>7. Len(Block(a, size, n)) < Blk
    BY ONLY <1>2, <1>4, <1>5, <1>6
  <2>8. QED BY <2>6, <2>7, Sizes
<1>10. QED BY <1>8, <1>9

(* An upload that the server takes for complete is the whole file: the last  *)
(* block is never taken from an earlier place (tftp_server.cpp:108).         *)
THEOREM UploadsWhole == ASSUME Sequential PROVE Spec => CompleteIsWhole
<1>1. TransfersInv /\ [Next]_vars
        => ((WriteBlock /\ closed' = "complete" /\ spc' # "write" /\ Writable')
              => got' = Whole(mclient'))
  BY ClosedWhole
<1>2. QED BY <1>1, TransfersHold, PTL DEF Spec, CompleteIsWhole

(* What a reader has is a prefix of the file, and at the end all of it.      *)
LEMMA CollectedIsPrefix == ASSUME Types, Runs PROVE DownloadIsPrefix
<1> SUFFICES ASSUME NEW c \in Client, Mode[c] = "read"
             PROVE  /\ IsPrefixOf(result[c], Served(Asked(c)))
                    /\ cst[c] = "done" => result[c] = Served(Asked(c))
  BY DEF DownloadIsPrefix, Asked
<1>1. PICK j \in Jobs : j = Asked(c)
  BY JobsType DEF Asked
<1>2. PICK size \in Nat : size = Limit(j) /\ Served(j) = Units(j, 1, size)
  BY LimitType, Sizes
<1>3. Collected(c) /\ pktN[c] \in Nat \ {0}
  BY DEF Runs, Collected, Types, ClientTypes
<1>4. PICK m \in Nat : m <= size /\ result[c] = Units(j, 1, m)
                       /\ (cst[c] = "done" => m = size)
  <2>1. CASE cst[c] = "done"
    BY <1>1, <1>2, <1>3, <2>1 DEF Collected
  <2>2. CASE cst[c] # "done"
    <3>1. (pktN[c] - 1) * Blk \in Nat
      <4>1. pktN[c] - 1 \in Nat
        BY <1>3
      <4>2. QED BY <4>1, Times
    <3>2. QED BY <1>1, <1>2, <1>3, <2>2, <3>1 DEF Collected
  <2>3. QED BY <2>1, <2>2
<1>5. IsPrefixOf(Units(j, 1, m), Units(j, 1, size))
  <2>1. PICK u \in Nat \ {0} : u = 1
    OBVIOUS
  <2>2. /\ Units(j, u, m) \in Seq(Item) /\ Units(j, u, size) \in Seq(Item)
    BY ONLY UnitsType, j \in Jobs, m \in Nat, size \in Nat, u \in Nat \ {0}
  <2>3. /\ Len(Units(j, u, m)) = IF m < u THEN 0 ELSE (m - u) + 1
        /\ Len(Units(j, u, size)) = IF size < u THEN 0 ELSE (size - u) + 1
    BY ONLY UnitsLength, m \in Nat, size \in Nat, u \in Nat \ {0}
  <2>4. Len(Units(j, u, m)) = m /\ Len(Units(j, u, size)) = size
    BY <2>1, <2>3
  <2>5. \A i \in 1 .. m : Units(j, u, m)[i] = Units(j, u, size)[i]
    <3> SUFFICES ASSUME NEW i \in 1 .. m
                 PROVE  Units(j, u, m)[i] = Units(j, u, size)[i]
      OBVIOUS
    <3>1. i \in 1 .. Len(Units(j, u, m)) /\ i \in 1 .. Len(Units(j, u, size))
      BY <1>4, <2>4
    <3>2. Units(j, u, m)[i] = <<j, (u + i) - 1>>
      BY ONLY <3>1, UnitsAt, m \in Nat, u \in Nat \ {0}
    <3>3. Units(j, u, size)[i] = <<j, (u + i) - 1>>
      BY ONLY <3>1, UnitsAt, size \in Nat, u \in Nat \ {0}
    <3>4. QED BY ONLY <3>2, <3>3
  <2> DEFINE s == Units(j, u, m)
             t == Units(j, u, size)
  <2>6. /\ s \in Seq(Item) /\ t \in Seq(Item) /\ Len(s) = m /\ Len(t) = size
        /\ m <= size /\ \A i \in 1 .. m : s[i] = t[i]
    BY ONLY <1>4, <2>2, <2>4, <2>5
  <2> HIDE DEF s, t
  <2>7. /\ SubSeq(t, 1, m) \in Seq(Item) /\ Len(SubSeq(t, 1, m)) = m
        /\ \A i \in 1 .. m : SubSeq(t, 1, m)[i] = t[i]
    BY ONLY <2>6, m \in Nat, size \in Nat
  <2>8. s = SubSeq(t, 1, m)
    BY ONLY <2>6, <2>7, SeqEqual
  <2>9. IsPrefixOf(s, t)
    BY ONLY <2>6, <2>8 DEF IsPrefixOf
  <2>10. QED BY ONLY <2>1, <2>9 DEF s, t
<1>6. QED BY ONLY <1>1, <1>2, <1>4, <1>5

(* Of one download after another, what a reader has is a prefix of what it   *)
(* asked for, and all of it when it ends well (mstd.cfg.py:594,              *)
(* process_read).                                                            *)
THEOREM DownloadsInOrder == ASSUME Sequential PROVE Spec => []DownloadIsPrefix
<1>1. TransfersInv => DownloadIsPrefix
  BY CollectedIsPrefix DEF TransfersInv, Transfers
<1>2. QED BY <1>1, TransfersHold, PTL

(* A prefix of a file that is as long as the file is all of it.              *)
LEMMA PrefixWhole ==
    ASSUME NEW a \in Client, NEW m \in Nat, Len(Units(a, 1, m)) = Size[a]
    PROVE  Units(a, 1, m) = Whole(a)
<1>1. PICK u \in Nat : u = 1
  OBVIOUS
<1>2. Len(Units(a, u, m)) = IF m < u THEN 0 ELSE (m - u) + 1
  BY ONLY UnitsLength, u \in Nat, m \in Nat
<1>3. m = Size[a]
  BY <1>1, <1>2
<1>4. QED BY <1>3 DEF Whole

(* What a client's upload leaves has its client's header, if any, and is as  *)
(* it should be when it has the length of the file.                          *)
LEMMA ClosedPrefix ==
    ASSUME NEW a \in Client, Calm(a), WriteBlock, Writable', Len(got') = Size[a]
    PROVE  got' = Whole(a)
<1>1. /\ Msg.n \in Nat \ {0} /\ Msg.n <= block /\ block \in Nat \ {0}
      /\ Msg.d = Block(a, Size[a], Msg.n) /\ (block - 1) * Blk <= Size[a]
  BY Uploading
<1>2. /\ got = Units(a, 1, (block - 1) * Blk)
      /\ Msg.n < block => got' = got
      /\ Msg.n = block => got' = got \o Msg.d
  BY BlockStored
<1>3. PICK m \in Nat : got' = Units(a, 1, m)
  <2>1. CASE Msg.n < block
    <3>1. block - 1 \in Nat
      BY <1>1
    <3>2. QED BY <1>2, <2>1, <3>1, Times
  <2>2. CASE Msg.n = block
    <3>1. PICK size \in Nat : size = Size[a] /\ a \in Client \union Jobs
      BY Sizes
    <3>2. PICK n \in Nat \ {0} : n = block /\ (n - 1) * Blk <= size
      BY <1>1, <3>1
    <3>3. PICK m \in Nat : m = IF n * Blk < size THEN n * Blk ELSE size
      BY <3>1, Times
    <3>4. Units(a, 1, (n - 1) * Blk) \o Block(a, size, n) = Units(a, 1, m)
      BY ONLY <3>1, <3>2, <3>3, BlockFacts, n \in Nat \ {0}, size \in Nat
    <3>5. got' = Units(a, 1, m)
      BY ONLY <1>1, <1>2, <2>2, <3>1, <3>2, <3>4
    <3>6. QED BY <3>5
  <2>3. QED BY <1>1, <2>1, <2>2
<1>4. QED BY <1>3, PrefixWhole

(* What on_close is given when it stores.                                    *)
LEMMA ClosedOne ==
    ASSUME TransfersInv, TransfersInv', WriteBlock \/ WriteBroken \/ WriteTimeout,
           NEW data, data = IF WriteBlock THEN got' ELSE got,
           job \in {"LoadCfg", "LoadFW"}, Accepted(job, data)
    PROVE  mclient \in Client /\ Mode[mclient] = "send" /\ data = Whole(mclient)
<1>1. PICK a \in Client : Calm(a)
  BY DEF TransfersInv, Transfers, Calm
<1>2. PICK c \in Client :
        /\ Mode[c] = "send" /\ HeaderOf(c, data)
        /\ data = Whole(c) \/ (job = "LoadCfg" /\ Len(data) = Size[c])
  BY DEF Accepted
<1>3. spc = "write"
  BY DEF WriteBlock, WriteBroken, WriteTimeout
<1>4. Mode[a] = "send" /\ Sending(a) /\ mclient = a
  BY <1>1, <1>3, CalmTypes DEF Calm, Focus, Engaged
<1>5. data # <<>> => data[1][1] = a
  BY <1>1, <1>3, <1>4, StoredFrom DEF Sending
<1>6. c = a
  BY <1>2, <1>5 DEF HeaderOf
<1>7. CASE data # Whole(c)
  <2>1. job = "LoadCfg" /\ Len(data) = Size[a]
    BY <1>2, <1>6, <1>7
  <2>2. CASE WriteBlock
    <3>1. mclient' = a /\ job' = job
      BY <1>1, <2>2, Uploading DEF WriteBlock
    <3>2. Len(got') <= MaxCfg
      BY <2>1, <3>1 DEF TransfersInv, Types, ServerTypes
    <3>3. Writable'
      BY <2>1, <2>2, <3>1, <3>2 DEF Writable
    <3>4. QED BY <1>1, <1>4, <2>1, <2>2, <3>3, ClosedPrefix
  <2>3. CASE ~WriteBlock
    <3>1. Len(got) <= MaxCfg /\ data = got
      BY <2>1, <2>3 DEF TransfersInv, Types, ServerTypes
    <3>2. Writable
      BY <1>4, <2>1, <3>1 DEF Writable
    <3>3. got = Units(a, 1, (block - 1) * Blk) /\ block \in Nat \ {0}
      BY <1>1, <1>3, <1>4, <3>2, CalmTypes DEF Sending
    <3>4. block - 1 \in Nat
      BY <3>3
    <3>5. (block - 1) * Blk \in Nat
      BY <3>4, Times
    <3>6. QED BY <1>4, <2>1, <3>1, <3>3, <3>5, PrefixWhole
  <2>4. QED BY <2>2, <2>3
<1>8. QED BY <1>2, <1>4, <1>6, <1>7

LEMMA StoredOne ==
    ASSUME StoredInv, TransfersInv, TransfersInv', StoredIsOneFile, [Next]_vars
    PROVE  StoredIsOneFile'
<1>1. PICK f : stored = [j \in Loads |-> f[j]]
  BY DEF StoredInv
<1>2. CASE UNCHANGED stored
  BY <1>2 DEF StoredIsOneFile
<1>3. CASE WriteBlock \/ WriteBroken \/ WriteTimeout
  <2>1. PICK data :
          /\ data = IF WriteBlock THEN got' ELSE got
          /\ \/ UNCHANGED stored
             \/ Accepted(job, data) /\ stored' = [stored EXCEPT ![job] = data]
    <3>1. CASE WriteBlock
      BY <3>1 DEF WriteBlock, OnClose
    <3>2. ASSUME ~WriteBlock, WriteBroken \/ WriteTimeout
          PROVE  \/ UNCHANGED stored
                 \/ Accepted(job, got) /\ stored' = [stored EXCEPT ![job] = got]
      <4>1. \E how, then, ok : OnClose(how, got, then, ok)
        BY <3>2 DEF WriteBroken, WriteTimeout
      <4>2. QED BY <4>1 DEF OnClose
    <3>3. QED BY <1>3, <3>1, <3>2
  <2>2. ASSUME Accepted(job, data), stored' = [stored EXCEPT ![job] = data]
        PROVE  StoredIsOneFile'
    <3> SUFFICES ASSUME NEW j \in {"LoadCfg", "LoadFW"}
                 PROVE  \/ stored'[j] = <<>>
                        \/ \E c \in Client : Mode[c] = "send" /\ stored'[j] = Whole(c)
      BY DEF StoredIsOneFile
    <3>1. j \in Loads
      BY DEF Loads
    <3>2. CASE j = job
      <4>1. stored'[j] = data
        BY <1>1, <2>2, <3>1, <3>2
      <4>2. QED BY <1>3, <2>1, <2>2, <3>2, <4>1, ClosedOne
    <3>3. CASE j # job
      BY <1>1, <2>2, <3>1, <3>3 DEF StoredIsOneFile
    <3>4. QED BY <3>2, <3>3
  <2>3. QED BY <1>2, <2>1, <2>2
<1>4. QED BY <1>2, <1>3, StoresOnClose

(* What on_close stores as a configuration or as firmware is one client's    *)
(* whole file (tftp_ota_server.cpp:160-235), also of runs that begin before  *)
(* the server is back from the last, and when a configuration asks for its   *)
(* CRC, so that nothing but its header and its length is tested              *)
(* (setup_data.cpp:122): no block is stored twice and none of another file   *)
(* gets in between.  A digest and a CRC that are tested are taken for        *)
(* perfect.                                                                  *)
THEOREM StoredWhole == ASSUME Sequential PROVE Spec => []StoredIsOneFile
<1>1. Init => StoredIsOneFile
  BY DEF Init, ServerInit, StoredIsOneFile, Loads
<1>2. /\ StoredInv /\ TransfersInv /\ TransfersInv' /\ StoredIsOneFile /\ [Next]_vars
        => StoredIsOneFile'
  BY StoredOne
<1>3. QED BY <1>1, <1>2, StoredHolds, TransfersHold, PTL DEF Spec

---------------------------------------------------------------------------
(* Runs that overlap.  The one socket mixes their datagrams, but all that a  *)
(* reader gets is of the job the server runs.                                *)
SameFile ==
    \A c, d \in Client : Mode[c] = "read" /\ Mode[d] = "read" => Asked(c) = Asked(d)

(* Only a reader asks to read.                                               *)
Sane == {p \in Datum : p.op = "RRQ" => Mode[p.c] = "read"}

(* What the server starts is asked for by a reader, and what it sends is of  *)
(* what all of them ask for.                                                 *)
OneFile ==
    /\ toServer \in Seq(Sane)
    /\ spc = "parse" => out \in Sane /\ out.op \in {"WRQ", "RRQ"}
    /\ spc = "ack" => ServesBlock /\ \A c \in Client : Mode[c] = "read" => job = Asked(c)

Mixed == Types /\ Inboxes /\ Runs /\ OneFile
StillMixed == Inboxes' /\ OneFile'

(* What a client sends.                                                      *)
LEMMA SaneFacts ==
    /\ \A p \in Datum : p.op # "RRQ" => p \in Sane
    /\ \A c \in Client : Req(c) \in Sane
    /\ \A p \in Sane : p \in Datum /\ (p.op = "RRQ" => Mode[p.c] = "read")
<1>1. ASSUME NEW c \in Client PROVE Req(c) \in Sane
  <2>1. Req(c) \in Datum
    BY Replies
  <2>2. Req(c).c = c /\ (Req(c).op = "RRQ" => Mode[c] # "send")
    BY DEF Req, Pkt
  <2>3. QED BY <2>1, <2>2, Modes DEF Sane
<1>2. QED BY <1>1 DEF Sane

LEMMA SaneArrives ==
    ASSUME Types, OneFile, NEW p \in Sane, SendToServer(p) PROVE toServer' \in Seq(Sane)
<1>1. toServer \in Seq(Sane)
  BY DEF OneFile
<1>2. toServer' = toServer \/ toServer' = Append(toServer, p)
  BY DEF SendToServer, Deliver
<1>3. QED BY ONLY <1>1, <1>2, AppendOf, p \in Sane

LEMMA SaneReceived ==
    ASSUME Types, OneFile, toServer # <<>>, Receive
    PROVE  /\ Msg \in Sane /\ Msg \in Datum /\ Msg.c \in Client /\ mclient' = Msg.c
           /\ toServer' \in Seq(Sane) /\ UNCHANGED cst
<1>1. toServer \in Seq(Sane)
  BY DEF OneFile
<1>2. Msg \in Sane /\ Tail(toServer) \in Seq(Sane)
  BY <1>1, TailOf DEF Msg
<1>3. Msg \in Datum
  BY <1>2, SaneFacts
<1>4. QED BY <1>2, <1>3, Fields DEF Receive

(* A datagram leaves for c that is no block, or one that every reader wants. *)
LEMMA MixedSends ==
    ASSUME Types, Inboxes, NEW c \in Client, NEW j, NEW ps \in Seq(OfJob(j)), Send(c, ps),
           UNCHANGED cst, Mode[c] = "read" => j = Asked(c)
    PROVE  Inboxes'
<1>1. ps \in Seq(Datum)
  BY OfJobType
<1>2. Mode[c] = "read" => ps \in Seq(ForReader(c))
  BY DEF ForReader
<1>3. QED BY <1>1, <1>2, ServerSends

LEMMA MixedReplies ==
    ASSUME Types, Inboxes, NEW c \in Client, NEW p \in Datum, p.op # "DATA",
           Send(c, <<p>>), UNCHANGED cst
    PROVE  Inboxes'
<1>1. p \in OfJob(Asked(c))
  BY DEF OfJob
<1>2. <<p>> \in Seq(OfJob(Asked(c)))
  BY <1>1
<1>3. QED BY <1>2, MixedSends

(* A request, from the mailbox or from m_buffer.                             *)
LEMMA MixedRequest ==
    ASSUME SameFile, Types, Inboxes, NEW q \in Sane, q.op \in {"WRQ", "RRQ"},
           StartRequest(q), UNCHANGED cst, toServer' \in Seq(Sane)
    PROVE  StillMixed
<1>1. q \in Datum /\ q.c \in Client
  BY SaneFacts, Fields
<1>2. CASE q.op = "WRQ"
  <2>1. StartWrite(q)
    BY <1>2 DEF StartRequest
  <2>2. spc' \in {"run", "write"} /\ (Send(q.c, <<Err(q.c)>>) \/ Send(q.c, <<Ack(q.c, 0)>>))
    BY <2>1, Zenon DEF StartWrite
  <2>3. /\ Err(q.c) \in Datum /\ Ack(q.c, 0) \in Datum
        /\ Err(q.c).op # "DATA" /\ Ack(q.c, 0).op # "DATA"
    BY <1>1, Replies DEF Err, Ack, Pkt
  <2>4. Inboxes'
    BY <1>1, <2>2, <2>3, MixedReplies
  <2>5. QED BY <2>2, <2>4 DEF StillMixed, OneFile
<1>3. CASE q.op = "RRQ"
  <2>1. StartRead(q) /\ Mode[q.c] = "read"
    BY <1>3, SaneFacts DEF StartRequest
  <2>2. /\ job' = Asked(q.c) /\ spc' \in {"run", "ack"} /\ (spc' = "ack" => ServesBlock')
        /\ \E ps \in Seq(OfJob(job')) : Send(q.c, ps)
    BY <1>1, <2>1, FirstBlock
  <2>3. Inboxes'
    <3>1. PICK ps \in Seq(OfJob(Asked(q.c))) : Send(q.c, ps)
      BY <2>2
    <3>2. QED BY <1>1, <3>1, MixedSends
  <2>4. \A c \in Client : Mode[c] = "read" => job' = Asked(c)
    BY <1>1, <2>1, <2>2 DEF SameFile
  <2>5. QED BY <2>2, <2>3, <2>4 DEF StillMixed, OneFile, Asked
<1>4. QED BY <1>2, <1>3

LEMMA MixedWriting ==
    ASSUME Mixed, WriteBlock \/ WriteRepeat \/ WriteBroken PROVE StillMixed
<1>1. toServer # <<>> /\ Receive
  BY InMailType DEF WriteBlock, WriteRepeat, WriteBroken
<1>2. /\ Msg \in Sane /\ Msg \in Datum /\ Msg.c \in Client /\ toServer' \in Seq(Sane)
      /\ UNCHANGED cst
  BY <1>1, SaneReceived DEF Mixed
<1>3. ASSUME NEW n \in Nat, Send(Msg.c, <<Ack(Msg.c, n)>>) PROVE Inboxes'
  <2>1. Ack(Msg.c, n) \in Datum /\ Ack(Msg.c, n).op # "DATA"
    BY <1>2, Replies DEF Ack, Pkt
  <2>2. QED BY <1>2, <1>3, <2>1, MixedReplies DEF Mixed
<1>4. CASE WriteBlock
  <2>1. Inboxes'
    BY <1>2, <1>3, <1>4, Fields DEF WriteBlock
  <2>2. spc' \in {"reboot", "run", "write"}
    <3>1. CASE Len(Msg.d) < Blk
      <4>1. PICK ok \in BOOLEAN : OnClose("complete", got', "run", ok)
        BY <1>4, <3>1 DEF WriteBlock
      <4>2. QED BY ONLY <4>1, OnCloseType
    <3>2. CASE ~(Len(Msg.d) < Blk)
      BY <1>4, <3>2 DEF WriteBlock
    <3>3. QED BY <3>1, <3>2
  <2>3. QED BY <1>2, <2>1, <2>2 DEF StillMixed, OneFile
<1>5. CASE WriteRepeat
  <2>1. spc' = "write" /\ Inboxes'
    BY <1>3, <1>5 DEF WriteRepeat
  <2>2. QED BY <1>2, <2>1 DEF StillMixed, OneFile
<1>6. CASE WriteBroken
  <2>1. UNCHANGED toClient /\ out' = Msg
    BY <1>6 DEF WriteBroken
  <2>2. Inboxes'
    BY <1>2, <2>1, InboxesStay DEF Mixed
  <2>3. spc' \in {"reboot", "hung", "parse"} /\ (spc' = "parse" => ~InMail("ACK"))
    <3>1. PICK ok \in BOOLEAN :
            OnClose("broken", got, IF InMail("ACK") THEN "hung" ELSE "parse", ok)
      BY <1>6 DEF WriteBroken
    <3>2. spc' \in {"reboot", IF InMail("ACK") THEN "hung" ELSE "parse"}
      BY ONLY <3>1, OnCloseType
    <3>3. QED BY <3>2
  <2>4. spc' = "parse" => out'.op \in {"WRQ", "RRQ"}
    BY <1>6, <2>1, <2>3, InMailType DEF WriteBroken
  <2>5. QED BY <1>2, <2>1, <2>2, <2>3, <2>4 DEF StillMixed, OneFile
<1>7. QED BY <1>4, <1>5, <1>6

LEMMA MixedReading ==
    ASSUME Mixed, ReadNext \/ ReadWrongAck \/ ReadNoAck \/ ReadTimeout PROVE StillMixed
<1>1. spc = "ack" /\ ServesBlock /\ \A c \in Client : Mode[c] = "read" => job = Asked(c)
  BY DEF ReadNext, ReadAcked, ReadWrongAck, ReadNoAck, ReadTimeout, Mixed, OneFile
<1>2. /\ toServer' \in Seq(Sane) /\ UNCHANGED cst
      /\ ~ReadTimeout => Msg.c \in Client
  <2>1. CASE ReadTimeout
    BY <2>1 DEF ReadTimeout, Mixed, OneFile
  <2>2. CASE ReadNext \/ ReadWrongAck \/ ReadNoAck
    <3>1. toServer # <<>> /\ Receive
      BY <2>2, InMailType DEF ReadNext, ReadAcked, ReadWrongAck, ReadNoAck
    <3>2. QED BY <3>1, SaneReceived DEF Mixed
  <2>3. QED BY <2>1, <2>2
<1>3. /\ job' = job /\ spc' \in {"run", "ack"} /\ (spc' = "ack" => ServesBlock')
      /\ Inboxes'
  <2>1. CASE ReadNext
    <3>1. /\ job' = job /\ spc' \in {"run", "ack"} /\ (spc' = "ack" => ServesBlock')
          /\ UNCHANGED toClient \/ \E ps \in Seq(OfJob(job)) : Send(Msg.c, ps)
      BY <1>1, <2>1, NextBlock DEF Mixed
    <3>2. Msg.c \in Client
      BY <1>1, <1>2, <2>1, InMailType DEF ReadNext, ReadAcked, ReadTimeout
    <3>3. ASSUME NEW ps \in Seq(OfJob(job)), Send(Msg.c, ps) PROVE Inboxes'
      BY <1>1, <1>2, <3>2, <3>3, MixedSends DEF Mixed
    <3>4. QED BY <1>2, <3>1, <3>3, InboxesStay DEF Mixed
  <2>2. ASSUME ~ReadNext
        PROVE  /\ job' = job /\ spc' \in {"run", "ack"} /\ (spc' = "ack" => ServesBlock')
               /\ Inboxes'
    <3>1. PICK c \in Client :
            Resend(c, <<>>, out) \/ Resend(c, <<Err(c)>>, Clobbered(c))
      <4>1. CASE ReadTimeout
        BY <4>1 DEF ReadTimeout, Mixed, Types, ServerTypes
      <4>2. CASE ~ReadTimeout
        BY <1>2, <2>2, <4>2 DEF ReadWrongAck, ReadNoAck
      <4>3. QED BY <4>1, <4>2
    <3>2. /\ out \in Datum /\ Clobbered(c) \in Datum
          /\ Clobbered(c).n = out.n /\ Clobbered(c).d = out.d
      <4>1. out \in Datum /\ Clobbered(c) \in Datum
        BY ClobberedType DEF Mixed, Types, ServerTypes
      <4>2. QED BY <4>1 DEF Clobbered, Datum
    <3>3. /\ job' = job /\ \E ps \in Seq(OfJob(job)) : Send(c, ps)
          /\ spc' \in {"run", "ack"} /\ (spc' = "ack" => ServesBlock')
      BY <1>1, <3>1, <3>2, BlockAgain DEF Mixed
    <3>4. Inboxes'
      BY <1>1, <1>2, <3>3, MixedSends DEF Mixed
    <3>5. QED BY <3>3, <3>4
  <2>3. QED BY <2>1, <2>2
<1>4. QED BY <1>1, <1>2, <1>3 DEF StillMixed, OneFile, Asked

LEMMA MixedServer ==
    ASSUME SameFile, Mixed, ServerStep \/ ServerTimeout \/ PowerCycle PROVE StillMixed
<1>1. CASE StartServer
  <2>1. spc' \in {"run", "stopped"} /\ UNCHANGED <<toServer, toClient, cst>>
    BY <1>1 DEF StartServer
  <2>2. QED BY <2>1, InboxesStay DEF Mixed, StillMixed, OneFile
<1>2. CASE RunRequest
  <2>1. toServer # <<>> /\ Receive /\ StartRequest(Msg) /\ Msg.op \in {"WRQ", "RRQ"}
    BY <1>2, InMailType DEF RunRequest
  <2>2. Msg \in Sane /\ toServer' \in Seq(Sane) /\ UNCHANGED cst
    BY <2>1, SaneReceived DEF Mixed
  <2>3. QED BY <2>1, <2>2, MixedRequest DEF Mixed
<1>3. CASE RunUnknown
  <2>1. toServer # <<>> /\ Receive /\ spc' = "run" /\ UNCHANGED toClient
    BY <1>3, InMailType DEF RunUnknown
  <2>2. toServer' \in Seq(Sane) /\ UNCHANGED cst
    BY <2>1, SaneReceived DEF Mixed
  <2>3. QED BY <2>1, <2>2, InboxesStay DEF Mixed, StillMixed, OneFile
<1>4. CASE ParseAgain
  <2>1. StartRequest(out) /\ out \in Sane /\ out.op \in {"WRQ", "RRQ"}
    BY <1>4 DEF ParseAgain, Mixed, OneFile
  <2>2. toServer' \in Seq(Sane) /\ UNCHANGED cst
    BY <1>4 DEF ParseAgain, Mixed, OneFile
  <2>3. QED BY <2>1, <2>2, MixedRequest DEF Mixed
<1>5. CASE WriteTimeout
  <2>1. UNCHANGED <<toServer, toClient, cst>> /\ spc' \in {"reboot", "run"}
    <3>1. PICK ok \in BOOLEAN : OnClose("timeout", got, "run", ok)
      BY <1>5 DEF WriteTimeout
    <3>2. spc' \in {"reboot", "run"}
      BY ONLY <3>1, OnCloseType
    <3>3. QED BY <1>5, <3>2 DEF WriteTimeout, netVars
  <2>2. QED BY <2>1, InboxesStay DEF Mixed, StillMixed, OneFile
<1>6. CASE Reboot \/ PowerCycle
  <2>1. spc' = "start" /\ toServer' = <<>> /\ UNCHANGED <<toClient, cst>>
    BY <1>6 DEF Reboot, PowerCycle, Boot
  <2>2. <<>> \in Seq(Sane)
    OBVIOUS
  <2>3. QED BY <2>1, <2>2, InboxesStay DEF Mixed, StillMixed, OneFile
<1>7. QED
  BY <1>1, <1>2, <1>3, <1>4, <1>5, <1>6, MixedWriting, MixedReading
  DEF ServerStep, ServerTimeout

(* Nothing of the server changes.                                            *)
LEMMA OneFileStays ==
    ASSUME OneFile, UNCHANGED serverVars, toServer' \in Seq(Sane) PROVE OneFile'
<1>1. UNCHANGED <<spc, job, block, cur, out>>
  BY DEF serverVars
<1>2. QED BY <1>1 DEF OneFile, ServesBlock, Asked

LEMMA MixedLose ==
    ASSUME Mixed, Drop, UNCHANGED serverVars PROVE StillMixed
<1>1. toServer \in Seq(Sane) /\ UNCHANGED cst /\ toClient \in [Client -> Seq(Datum)]
  BY DropType DEF Mixed, OneFile, Types, NetTypes
<1>2. CASE DropToServer
  <2>1. PICK i \in 1 .. Len(toServer) : toServer' = Without(toServer, i)
    BY <1>2 DEF DropToServer, Without
  <2>2. toServer' \in Seq(Sane)
    BY ONLY <1>1, <2>1, WithoutOf
  <2>3. Inboxes'
    BY <1>1, <1>2, InboxesStay DEF DropToServer, Mixed
  <2>4. QED BY <2>2, <2>3, OneFileStays DEF StillMixed, Mixed
<1>3. ASSUME NEW c \in Client, DropToClient(c) PROVE StillMixed
  <2>1. /\ toClient[c] # <<>> /\ toClient' = [toClient EXCEPT ![c] = Tail(@)]
        /\ UNCHANGED toServer
    BY <1>3 DEF DropToClient
  <2>2. /\ toClient'[c] = Tail(toClient[c])
        /\ \A d \in Client : d # c => toClient'[d] = toClient[d]
    BY <1>1, <2>1
  <2>3. cst[c] = "wait" /\ (Mode[c] = "read" => toClient[c] \in Seq(ForReader(c)))
    BY <2>1 DEF Mixed, Inboxes
  <2>4. Mode[c] = "read" => Tail(toClient[c]) \in Seq(ForReader(c))
    BY ONLY <2>1, <2>3, TailOf
  <2>5. Inboxes'
    BY <1>1, <2>2, <2>3, <2>4 DEF Mixed, Inboxes
  <2>6. QED BY <1>1, <2>1, <2>5, OneFileStays DEF StillMixed, Mixed
<1>4. QED BY <1>2, <1>3 DEF Drop

LEMMA MixedClient ==
    ASSUME Mixed, NEW a \in Client, UNCHANGED serverVars,
           Start(a) \/ ClientStep(a) \/ Timeout(a) \/ Kill(a)
    PROVE  StillMixed /\ Runs'
<1> SUFFICES Inboxes' /\ Runs' /\ toServer' \in Seq(Sane)
  BY OneFileStays DEF Mixed, StillMixed
<1>1. pktN[a] \in Nat /\ toServer \in Seq(Sane)
  BY DEF Mixed, OneFile, Types, ClientTypes
<1>2. CASE Start(a)
  <2>1. SendToServer(Req(a)) /\ Req(a) \in Sane
    BY <1>2, SaneFacts DEF Start
  <2>2. QED BY <1>2, <2>1, RunBegins, SaneArrives DEF Mixed
<1>3. CASE RecvError(a)
  <2>1. /\ Ends(a, "failed") /\ Consume(a) /\ UNCHANGED <<toServer, pktN, result>>
        /\ cst[a] = "wait" /\ toClient[a] # <<>>
    BY <1>3 DEF RecvError, HasAnswer
  <2>2. cst'[a] = "failed" /\ \A d \in Client : d # a => cst'[d] = cst[d]
    BY <2>1, EndsType DEF Mixed
  <2>3. QED BY <1>1, <2>1, <2>2, ConsumeCalm, RunsEnd DEF Mixed
<1>4. CASE SendNext(a)
  <2>1. PICK n \in Nat \ {0} : n = pktN[a] + 1
    BY <1>1
  <2>2. SendToServer(Pkt("DATA", a, n, Block(a, Size[a], n)))
    BY <1>4, <2>1 DEF SendNext
  <2>3. Block(a, Size[a], n) \in Seq(Item)
    <3>1. PICK size \in Nat : size = Size[a] /\ a \in Client \union Jobs
      BY Sizes
    <3>2. QED BY ONLY <3>1, BlockType, n \in Nat \ {0}
  <2>4. Pkt("DATA", a, n, Block(a, Size[a], n)) \in Sane
    BY <2>3, PktType, SaneFacts DEF Op
  <2>5. toServer' \in Seq(Sane)
    BY <2>2, <2>4, SaneArrives DEF Mixed
  <2>6. Consume(a) /\ toClient[a] # <<>> /\ \A d \in Client : d # a => cst'[d] = cst[d]
    <3>1. Ends(a, "done") \/ UNCHANGED cst
      BY <1>4 DEF SendNext
    <3>2. QED BY <1>4, <3>1, EndsType DEF SendNext, HasAnswer, Mixed
  <2>7. QED BY <1>4, <2>5, <2>6, ConsumeCalm, SenderRuns DEF Mixed
<1>5. CASE ReadBlock(a)
  <2>1. Consume(a) /\ toClient[a] # <<>> /\ SendToServer(Pkt("ACK", a, pktN[a], <<>>))
    BY <1>5 DEF ReadBlock, HasAnswer
  <2>2. Pkt("ACK", a, pktN[a], <<>>) \in Sane
    <3>1. <<>> \in Seq(Item)
      OBVIOUS
    <3>2. QED BY <1>1, <3>1, PktType, SaneFacts DEF Op
  <2>3. Runs' /\ \A d \in Client : d # a => cst'[d] = cst[d]
    BY <1>5, ReaderTakes DEF Mixed
  <2>4. QED BY <2>1, <2>2, <2>3, ConsumeCalm, SaneArrives DEF Mixed
<1>6. CASE Ignore(a)
  <2>1. /\ Consume(a) /\ UNCHANGED <<cst, toServer, pktN, result>> /\ toClient[a] # <<>>
    BY <1>6 DEF Ignore, Ignored, HasAnswer, clientVars
  <2>2. QED BY <1>1, <2>1, ConsumeCalm, RunsStay DEF Mixed
<1>7. CASE Timeout(a)
  <2>1. /\ cst[a] = "wait" /\ UNCHANGED <<toClient, pktN, result>> /\ toClient[a] = <<>>
        /\ \/ SendToServer(Repeat(a)) /\ UNCHANGED cst
           \/ Ends(a, "failed") /\ UNCHANGED toServer
    BY <1>7 DEF Timeout
  <2>2. cst'[a] \in {"wait", "failed"} /\ \A d \in Client : d # a => cst'[d] = cst[d]
    BY <2>1, EndsType DEF Mixed
  <2>3. Repeat(a) \in Sane
    <3>1. Repeat(a) \in Datum
      BY RepeatType DEF Mixed
    <3>2. Repeat(a) = Req(a) \/ Repeat(a).op \in {"DATA", "ACK"}
      BY Zenon DEF Repeat, Pkt
    <3>3. QED BY <3>1, <3>2, SaneFacts
  <2>4. toServer' \in Seq(Sane)
    BY <1>1, <2>1, <2>3, SaneArrives DEF Mixed
  <2>5. Inboxes'
    BY <2>1, <2>2 DEF Mixed, Inboxes
  <2>6. QED BY <2>1, <2>2, <2>4, <2>5, RunsEnd DEF Mixed
<1>8. CASE Kill(a)
  <2>1. /\ Ends(a, "killed") /\ toClient' = [toClient EXCEPT ![a] = <<>>]
        /\ UNCHANGED <<toServer, pktN, result>> /\ cst[a] = "wait"
    BY <1>8 DEF Kill
  <2>2. cst'[a] = "killed" /\ \A d \in Client : d # a => cst'[d] = cst[d]
    BY <2>1, EndsType DEF Mixed
  <2>3. toClient'[a] = <<>> /\ \A d \in Client : d # a => toClient'[d] = toClient[d]
    BY <2>1 DEF Mixed, Types, NetTypes
  <2>4. Inboxes'
    <3>1. <<>> \in Seq(ForReader(a))
      OBVIOUS
    <3>2. QED BY <2>2, <2>3, <3>1 DEF Mixed, Inboxes
  <2>5. QED BY <1>1, <2>1, <2>2, <2>4, RunsEnd DEF Mixed
<1>9. QED BY <1>2, <1>3, <1>4, <1>5, <1>6, <1>7, <1>8 DEF ClientStep

LEMMA MixedStep == ASSUME SameFile, Mixed, [Next]_vars PROVE Mixed'
<1>1. Types'
  BY TypesStep DEF Mixed
<1>2. SUFFICES StillMixed /\ Runs'
  BY <1>1 DEF Mixed, StillMixed
<1>3. CASE ServerRuns \/ LateServer \/ PowerFails
  <2>1. UNCHANGED clientVars /\ (ServerStep \/ ServerTimeout \/ PowerCycle)
    BY <1>3 DEF ServerRuns, LateServer, PowerFails, ServerGoesOn
  <2>2. UNCHANGED cst
    BY <2>1, ServerType DEF Mixed, ServerKeeps
  <2>3. QED BY <2>1, <2>2, MixedServer, RunsStay DEF Mixed, clientVars
<1>4. CASE Lose
  <2>1. Drop /\ UNCHANGED serverVars /\ UNCHANGED <<pktN, result, cst>>
    BY <1>4, DropType DEF Lose, Mixed, clientVars
  <2>2. QED BY <2>1, MixedLose, RunsStay DEF Mixed
<1>5. ASSUME NEW c \in Client, StartRun(c) \/ ClientRuns(c) \/ ClientTimeout(c) \/ Stop(c)
      PROVE  StillMixed /\ Runs'
  <2>1. UNCHANGED serverVars /\ (Start(c) \/ ClientStep(c) \/ Timeout(c) \/ Kill(c))
    BY <1>5 DEF StartRun, ClientRuns, ClientTimeout, Stop
  <2>2. QED BY <2>1, MixedClient
<1>6. CASE UNCHANGED vars
  <2>1. UNCHANGED <<toServer, toClient, cst, pktN, result>> /\ UNCHANGED serverVars
    BY <1>6 DEF vars, netVars, clientVars
  <2>2. toServer' \in Seq(Sane)
    BY <2>1 DEF Mixed, OneFile
  <2>3. QED BY <2>1, <2>2, InboxesStay, RunsStay, OneFileStays DEF Mixed, StillMixed
<1>7. QED BY <1>3, <1>4, <1>5, <1>6 DEF Next

(* Also of runs that overlap, as long as all readers ask for the same file,  *)
(* what a reader has is a prefix of that file, and all of it when its run    *)
(* ends well: uploads beside it, other readers' ACKs that release its blocks *)
(* and blocks that were released for others never disturb it                 *)
(* (tftp_server.cpp:209, mstd.cfg.py:594).                                   *)
THEOREM OverlappingDownloads == ASSUME SameFile PROVE Spec => []DownloadIsPrefix
<1>1. Init => Mixed
  <2> SUFFICES ASSUME Init PROVE Mixed
    OBVIOUS
  <2>1. Types /\ Inboxes /\ Runs
    BY TypesInit, TransfersInit DEF Transfers
  <2>2. toServer = <<>> /\ spc = "start"
    BY DEF Init, NetInit, ServerInit
  <2>3. <<>> \in Seq(Sane)
    OBVIOUS
  <2>4. QED BY <2>1, <2>2, <2>3 DEF Mixed, OneFile
<1>2. Mixed /\ [Next]_vars => Mixed'
  BY MixedStep
<1>3. Mixed => DownloadIsPrefix
  BY CollectedIsPrefix DEF Mixed
<1>4. QED BY <1>1, <1>2, <1>3, PTL DEF Spec
=============================================================================
