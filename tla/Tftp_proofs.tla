---------------------------- MODULE Tftp_proofs ----------------------------
(* Proofs about the transfer, for every size of a block, a mailbox and a     *)
(* file, any number of clients, and any losses, failures and resets.         *)
EXTENDS TftpSystem, TLAPS

Item == (Client \union Jobs) \X Nat     \* a unit of a file
Op == {"WRQ", "RRQ", "DATA", "ACK", "ERROR", "none"}
Datum == [op : Op, c : Client, n : Nat, d : Seq(Item)]

---------------------------------------------------------------------------
(* Files and their blocks.                                                   *)

LEMMA Sizes ==
    /\ Blk \in Nat \ {0} /\ MailBox \in Nat \ {0} /\ MaxDrops \in Nat
    /\ MaxCfg \in Nat /\ CfgSize \in Nat /\ CfgSize <= MaxCfg /\ MaxFaults \in Nat
    /\ MaxRetry \in Nat \ {0} /\ MaxEarly \in Nat /\ Patience \in Nat \ {0}
    /\ Size \in [Client -> Nat] /\ Mode \in [Client -> {"send", "read"}]
BY NetAssumption, ServerAssumption, ClientAssumption, SystemAssumption

LEMMA Times ==
    ASSUME NEW n \in Nat PROVE n * Blk \in Nat /\ (n + 1) * Blk = n * Blk + Blk
<1>1. \A x \in Nat : \A y \in Nat : x * y \in Nat /\ (x + 1) * y = x * y + y
  OBVIOUS
<1>2. QED BY <1>1, Sizes

LEMMA UnitsLength ==
    ASSUME NEW f, NEW a \in Nat, NEW b \in Nat
    PROVE  Len(Units(f, a, b)) = IF b < a THEN 0 ELSE (b - a) + 1
<1> DEFINE n == IF b < a THEN 0 ELSE b - a + 1
<1>1. n \in Nat /\ n = IF b < a THEN 0 ELSE (b - a) + 1
  OBVIOUS
<1>2. Units(f, a, b) = [i \in 1 .. n |-> <<f, a + i - 1>>]
  BY DEF Units
<1>3. Len([i \in 1 .. n |-> <<f, a + i - 1>>]) = n
  BY <1>1
<1>4. QED BY ONLY <1>1, <1>2, <1>3

LEMMA UnitsAt ==
    ASSUME NEW f, NEW a \in Nat, NEW b \in Nat, NEW i \in 1 .. Len(Units(f, a, b))
    PROVE  Units(f, a, b)[i] = <<f, (a + i) - 1>>
<1> DEFINE n == IF b < a THEN 0 ELSE b - a + 1
<1>1. n = IF b < a THEN 0 ELSE (b - a) + 1
  OBVIOUS
<1>2. i \in 1 .. n /\ n \in Nat
  BY <1>1, UnitsLength
<1>3. (a + i) - 1 = a + i - 1
  BY <1>2
<1>4. Units(f, a, b)[i] = <<f, a + i - 1>>
  BY <1>2 DEF Units
<1>5. QED BY ONLY <1>3, <1>4

LEMMA UnitsType ==
    ASSUME NEW f \in Client \union Jobs, NEW a \in Nat \ {0}, NEW b \in Nat
    PROVE  Units(f, a, b) \in Seq(Item)
<1> DEFINE n == IF b < a THEN 0 ELSE b - a + 1
<1>1. n \in Nat /\ \A i \in 1 .. n : a + i - 1 \in Nat
  OBVIOUS
<1>2. \A i \in 1 .. n : <<f, a + i - 1>> \in Item
  BY <1>1 DEF Item
<1>3. [i \in 1 .. n |-> <<f, a + i - 1>>] \in Seq(Item)
  BY <1>1, <1>2
<1>4. QED BY <1>3 DEF Units

LEMMA SeqEqual ==
    ASSUME NEW S, NEW s \in Seq(S), NEW t \in Seq(S), Len(s) = Len(t),
           \A i \in 1 .. Len(t) : s[i] = t[i]
    PROVE  s = t
OBVIOUS

LEMMA JoinedAt ==
    ASSUME NEW S, NEW q \in Seq(S), NEW r \in Seq(S), NEW i \in Nat \ {0}
    PROVE  /\ i <= Len(q) => (q \o r)[i] = q[i]
           /\ i > Len(q) /\ i <= Len(q) + Len(r) =>
                (q \o r)[i] = r[i - Len(q)] /\ i - Len(q) \in 1 .. Len(r)
OBVIOUS

LEMMA UnitsJoin ==
    ASSUME NEW f \in Client \union Jobs, NEW m \in Nat, NEW k \in Nat, m <= k
    PROVE  Units(f, 1, m) \o Units(f, m + 1, k) = Units(f, 1, k)
<1> DEFINE s == Units(f, 1, m)
           t == Units(f, m + 1, k)
           u == Units(f, 1, k)
<1>1. s \in Seq(Item) /\ t \in Seq(Item) /\ u \in Seq(Item)
  <2>1. 1 \in Nat \ {0} /\ m + 1 \in Nat \ {0}
    OBVIOUS
  <2>2. s \in Seq(Item) /\ u \in Seq(Item)
    BY ONLY <2>1, UnitsType, f \in Client \union Jobs, m \in Nat, k \in Nat
  <2>3. t \in Seq(Item)
    BY ONLY <2>1, UnitsType, f \in Client \union Jobs, k \in Nat
  <2>4. QED BY <2>2, <2>3
<1>2. Len(s) = m /\ Len(t) = k - m /\ Len(u) = k
  <2>1. Len(s) = m
    BY UnitsLength
  <2>2. Len(u) = k
    BY UnitsLength
  <2>3. Len(t) = k - m
    BY UnitsLength
  <2>4. QED BY <2>1, <2>2, <2>3
<1>3. s \o t \in Seq(Item) /\ Len(s \o t) = Len(u)
  BY <1>1, <1>2
<1>4. ASSUME NEW i \in 1 .. Len(u) PROVE (s \o t)[i] = u[i]
  <2>1. u[i] = <<f, i>> /\ i \in 1 .. k
    <3>1. u[i] = <<f, (1 + i) - 1>>
      BY <1>4, UnitsAt
    <3>2. (1 + i) - 1 = i /\ i \in 1 .. k
      BY <1>2, <1>4
    <3>3. QED BY <3>1, <3>2
  <2>2. CASE i <= m
    <3>1. (s \o t)[i] = s[i]
      <4> HIDE DEF s, t, u
      <4>1. QED BY ONLY <1>1, <1>2, <2>1, <2>2, JoinedAt, m \in Nat, k \in Nat
    <3>2. s[i] = <<f, i>>
      <4>1. i \in 1 .. Len(s) /\ (1 + i) - 1 = i
        BY <1>2, <2>1, <2>2
      <4>2. s[i] = <<f, (1 + i) - 1>>
        BY <4>1, UnitsAt
      <4>3. QED BY <4>1, <4>2
    <3>3. QED BY <2>1, <3>1, <3>2
  <2>3. CASE i > m
    <3>1. (s \o t)[i] = t[i - m] /\ i - m \in 1 .. Len(t)
      <4> HIDE DEF s, t, u
      <4>1. QED BY ONLY <1>1, <1>2, <2>1, <2>3, JoinedAt, m \in Nat, k \in Nat
    <3>2. PICK j \in 1 .. Len(t) : j = i - m
      BY <3>1
    <3>3. t[j] = <<f, ((m + 1) + j) - 1>>
      <4>1. PICK q \in Nat : q = m + 1
        OBVIOUS
      <4>2. j \in 1 .. Len(Units(f, q, k))
        BY <4>1
      <4>3. Units(f, q, k)[j] = <<f, (q + j) - 1>>
        BY ONLY <4>2, UnitsAt, k \in Nat
      <4>4. QED BY ONLY <4>1, <4>3
    <3>4. ((m + 1) + j) - 1 = i
      BY <2>1, <3>2
    <3>5. QED BY ONLY <2>1, <3>1, <3>2, <3>3, <3>4
  <2>4. i <= m \/ i > m
    BY <2>1
  <2>5. QED BY ONLY <2>2, <2>3, <2>4
<1>5. QED
  <2> DEFINE v == s \o t
  <2>1. v \in Seq(Item) /\ u \in Seq(Item) /\ Len(v) = Len(u)
    BY <1>1, <1>3
  <2>2. \A i \in 1 .. Len(u) : v[i] = u[i]
    BY <1>4
  <2> HIDE DEF u, v
  <2>3. v = u
    BY ONLY <2>1, <2>2, SeqEqual
  <2>4. QED BY ONLY <2>3 DEF u, v

---------------------------------------------------------------------------
(* The inductive invariant.                                                  *)

NetTypes ==
    /\ toServer \in Seq(Datum) /\ Len(toServer) <= MailBox
    /\ toClient \in [Client -> Seq(Datum)]
    /\ cst \in [Client -> {"idle", "wait", "done", "failed", "killed"}]
    /\ bound \in BOOLEAN /\ drops \in 0 .. MaxDrops /\ early \in 0 .. MaxEarly
    /\ waited \in [Client -> 0 .. Patience] /\ hurried \in BOOLEAN

Live == {"idle", "wait"}       \* a run that is not over

ServerTypes ==
    /\ spc \in {"start", "stopped", "run", "parse", "write", "ack", "hung", "reboot"}
    /\ mclient \in Client /\ job \in Jobs /\ out \in Datum
    /\ got \in Seq(Item) /\ (job \in {"LoadCfg", "LoadFCfg"} => Len(got) <= MaxCfg)
    /\ block \in Nat \ {0} /\ cur \in 0 .. MaxCfg
    /\ tries \in 0 .. 3 /\ (spc = "ack" => tries < 3)
    /\ closed \in {"none", "complete", "broken", "timeout"} /\ faults \in 0 .. MaxFaults

ClientTypes ==
    /\ pktN \in [Client -> Nat] /\ result \in [Client -> Seq(Item)]
    /\ retry \in [Client -> 0 .. MaxRetry]
    /\ \A c \in Client : cst[c] \in Live => retry[c] < MaxRetry

Types == NetTypes /\ ServerTypes /\ ClientTypes

(* What a download of job j ends with.                                       *)
Limit(j) == IF j = "SendCfg" THEN CfgSize ELSE MaxCfg

---------------------------------------------------------------------------
(* Sequences of datagrams.                                                   *)

LEMMA TailOf ==
    ASSUME NEW S, NEW q \in Seq(S), q # <<>>
    PROVE  /\ Head(q) \in S /\ Head(q) = q[1] /\ 1 \in 1 .. Len(q)
           /\ Tail(q) \in Seq(S) /\ Len(Tail(q)) = Len(q) - 1
           /\ \A i \in 1 .. Len(Tail(q)) : i + 1 \in 1 .. Len(q) /\ Tail(q)[i] = q[i + 1]
OBVIOUS

LEMMA AppendOf ==
    ASSUME NEW S, NEW q \in Seq(S), NEW p \in S
    PROVE  /\ Append(q, p) \in Seq(S) /\ Len(Append(q, p)) = Len(q) + 1
           /\ Append(q, p)[Len(q) + 1] = p
           /\ \A i \in 1 .. Len(q) : Append(q, p)[i] = q[i]
OBVIOUS

LEMMA ConcatOf ==
    ASSUME NEW S, NEW q \in Seq(S), NEW r \in Seq(S)
    PROVE  q \o r \in Seq(S) /\ Len(q \o r) = Len(q) + Len(r)
OBVIOUS

LEMMA PktType ==
    ASSUME NEW op \in Op, NEW c \in Client, NEW n \in Nat, NEW d \in Seq(Item)
    PROVE  /\ Pkt(op, c, n, d) \in Datum
           /\ Pkt(op, c, n, d).op = op /\ Pkt(op, c, n, d).c = c
           /\ Pkt(op, c, n, d).n = n /\ Pkt(op, c, n, d).d = d
BY DEF Pkt, Datum

LEMMA Fields ==
    ASSUME NEW p \in Datum
    PROVE  p.op \in Op /\ p.c \in Client /\ p.n \in Nat /\ p.d \in Seq(Item)
BY DEF Datum

LEMMA Replies ==
    ASSUME NEW c \in Client, NEW n \in Nat
    PROVE  Err(c) \in Datum /\ Ack(c, n) \in Datum /\ Req(c) \in Datum
<1>1. <<>> \in Seq(Item) /\ 0 \in Nat
  OBVIOUS
<1>2. (IF Mode[c] = "send" THEN "WRQ" ELSE "RRQ") \in Op
  BY DEF Op
<1>3. "ERROR" \in Op /\ "ACK" \in Op
  BY DEF Op
<1>4. QED BY <1>1, <1>2, <1>3, PktType DEF Err, Ack, Req

LEMMA DeliverType ==
    ASSUME NEW S, NEW q \in Seq(S), NEW p \in S, Len(q) <= MailBox
    PROVE  Deliver(q, p) \in Seq(S) /\ Len(Deliver(q, p)) <= MailBox
BY AppendOf, Sizes DEF Deliver

LEMMA SendType ==
    ASSUME NEW c \in Client, NEW ps \in Seq(Datum), Send(c, ps),
           toClient \in [Client -> Seq(Datum)]
    PROVE  toClient' \in [Client -> Seq(Datum)]
BY ConcatOf DEF Send

LEMMA JobsType ==
    ASSUME NEW name
    PROVE  WriteJob(name) \in Jobs /\ ReadJob(name) \in Jobs \ Loads
BY Zenon DEF WriteJob, ReadJob, Jobs, Loads

(* The n-th block of a file of size units; a block is full but for the last. *)
LEMMA BlockType ==
    ASSUME NEW f \in Client \union Jobs, NEW size \in Nat, NEW n \in Nat \ {0}
    PROVE  Block(f, size, n) \in Seq(Item)
<1>1. PICK a \in Nat : a = (n - 1) * Blk
  <2>1. n - 1 \in Nat
    OBVIOUS
  <2>2. QED BY <2>1, Times
<1>2. n * Blk \in Nat
  BY Times
<1>3. PICK b \in Nat : b = IF n * Blk < size THEN n * Blk ELSE size
  BY <1>2
<1>4. a + 1 \in Nat \ {0}
  OBVIOUS
<1>5. Units(f, a + 1, b) \in Seq(Item)
  BY ONLY <1>3, <1>4, UnitsType, f \in Client \union Jobs
<1>6. QED BY ONLY <1>1, <1>3, <1>5 DEF Block

LEMMA LimitType ==
    ASSUME NEW j \in Jobs
    PROVE  /\ Limit(j) \in 0 .. MaxCfg /\ Served(j) = Units(j, 1, Limit(j))
           /\ Len(Served(j)) = Limit(j)
<1>1. Limit(j) \in 0 .. MaxCfg
  BY Sizes DEF Limit
<1>2. Served(j) = Units(j, 1, Limit(j))
  BY DEF Served, Limit
<1>3. PICK l \in Nat : l = Limit(j)
  BY <1>1, Sizes
<1>4. 1 \in Nat
  OBVIOUS
<1>5. Len(Units(j, 1, l)) = IF l < 1 THEN 0 ELSE (l - 1) + 1
  BY ONLY <1>4, UnitsLength, l \in Nat
<1>6. (IF l < 1 THEN 0 ELSE (l - 1) + 1) = l
  OBVIOUS
<1>7. QED BY ONLY <1>1, <1>2, <1>3, <1>5, <1>6

(* What follows the first "from" units of a download.                        *)
LEMMA ServedType ==
    ASSUME NEW j \in Jobs, NEW from \in Nat
    PROVE  /\ ServedBlock(j, from) \in Seq(Item)
           /\ ServedBlock(j, from)
                = Units(j, from + 1,
                        IF from + Blk < Limit(j) THEN from + Blk ELSE Limit(j))
           /\ Len(ServedBlock(j, from))
                = IF from + Blk < Limit(j) THEN Blk
                  ELSE IF from < Limit(j) THEN Limit(j) - from ELSE 0
<1>1. PICK l \in Nat : l = Limit(j)
  BY LimitType, Sizes
<1>2. PICK b \in Nat : b = IF from + Blk < l THEN from + Blk ELSE l
  BY Sizes
<1>3. PICK a \in Nat \ {0} : a = from + 1
  OBVIOUS
<1>4. ServedBlock(j, from) = Units(j, a, b)
  BY ONLY <1>1, <1>2, <1>3, LimitType, j \in Jobs DEF ServedBlock
<1>5. Len(Units(j, a, b)) = IF b < a THEN 0 ELSE (b - a) + 1
  BY ONLY UnitsLength, a \in Nat \ {0}, b \in Nat
<1>6. (IF b < a THEN 0 ELSE (b - a) + 1)
        = IF from + Blk < l THEN Blk ELSE IF from < l THEN l - from ELSE 0
  BY <1>2, <1>3, Sizes
<1>7. Units(j, a, b) \in Seq(Item)
  BY ONLY UnitsType, a \in Nat \ {0}, b \in Nat, j \in Jobs
<1>8. QED BY ONLY <1>1, <1>2, <1>3, <1>4, <1>5, <1>6, <1>7
LEMMA ServedLength ==
    ASSUME NEW j \in Jobs, NEW from \in Nat, from <= MaxCfg
    PROVE  /\ ServedBlock(j, from) \in Seq(Item)
           /\ Len(ServedBlock(j, from)) + from \in 0 .. MaxCfg
           /\ Len(ServedBlock(j, from)) \in 0 .. Blk
<1>1. PICK l \in Nat : l = Limit(j) /\ l <= MaxCfg
  BY LimitType, Sizes
<1>2. ServedBlock(j, from) \in Seq(Item)
  BY ONLY ServedType, j \in Jobs, from \in Nat
<1>3. Len(ServedBlock(j, from))
        = IF from + Blk < l THEN Blk ELSE IF from < l THEN l - from ELSE 0
  BY ONLY ServedType, j \in Jobs, from \in Nat, <1>1
<1>4. PICK n \in Nat : n = Len(ServedBlock(j, from))
  BY <1>2
<1>5. n + from \in 0 .. MaxCfg /\ n \in 0 .. Blk
  BY <1>1, <1>3, <1>4, Sizes
<1>6. QED BY ONLY <1>2, <1>4, <1>5

---------------------------------------------------------------------------
(* Type correctness.                                                         *)

LEMMA TypesMeanTypeOK == Types => TypeOK
BY Sizes DEF Types, NetTypes, ServerTypes, ClientTypes, TypeOK

LEMMA OutcomeType ==
    ASSUME NEW ok, Outcome(ok), faults \in 0 .. MaxFaults
    PROVE  ok \in BOOLEAN /\ faults' \in 0 .. MaxFaults
<1>1. ok \in BOOLEAN
  BY DEF Outcome
<1>2. faults' = faults \/ (faults' = faults + 1 /\ faults < MaxFaults)
  BY Zenon DEF Outcome
<1>3. QED BY <1>1, <1>2, Sizes

LEMMA OnCloseType ==
    ASSUME NEW how, NEW data, NEW then, NEW ok, OnClose(how, data, then, ok)
    PROVE  closed' = how /\ spc' \in {"reboot", then}
BY DEF OnClose

LEMMA ReceiveType ==
    ASSUME Types, toServer # <<>>, Receive
    PROVE  /\ toServer' \in Seq(Datum) /\ Len(toServer') <= MailBox
           /\ Msg \in Datum /\ mclient' = Msg.c /\ mclient' \in Client
           /\ UNCHANGED <<bound, drops, cst>>
<1>1. toServer \in Seq(Datum) /\ Len(toServer) <= MailBox
  BY DEF Types, NetTypes
<1>2. Msg \in Datum /\ Tail(toServer) \in Seq(Datum)
      /\ Len(Tail(toServer)) = Len(toServer) - 1
  BY <1>1, TailOf DEF Msg
<1>3. QED BY <1>1, <1>2, Fields, Sizes DEF Receive

LEMMA StartWriteType ==
    ASSUME Types, NEW q \in Datum, StartWrite(q), mclient' \in Client
    PROVE  toClient' \in [Client -> Seq(Datum)] /\ ServerTypes'
<1>1. q.c \in Client
  BY Fields
<1>2. Err(q.c) \in Datum /\ Ack(q.c, 0) \in Datum
  BY <1>1, Replies
<1>3. <<Err(q.c)>> \in Seq(Datum) /\ <<Ack(q.c, 0)>> \in Seq(Datum)
  BY <1>2
<1>4. toClient' \in [Client -> Seq(Datum)]
  BY <1>1, <1>3, SendType DEF StartWrite, Types, NetTypes
<1>5. job' \in Jobs /\ got' = <<>> /\ cur' = 0
  BY JobsType DEF StartWrite
<1>6. faults' \in 0 .. MaxFaults
  BY OutcomeType DEF StartWrite, Types, ServerTypes
<1>7. spc' \in {"run", "write"} /\ block' \in Nat \ {0}
  <2>1. (spc' = "run" /\ block' = block) \/ (spc' = "write" /\ block' = 1)
    BY Zenon DEF StartWrite
  <2>2. QED BY <2>1 DEF Types, ServerTypes
<1>8. UNCHANGED <<out, tries, stored, closed>>
  BY DEF StartWrite
<1>9. <<>> \in Seq(Item) /\ Len(<<>>) <= MaxCfg
  BY Sizes
<1>10. QED
  BY <1>4, <1>5, <1>6, <1>7, <1>8, <1>9, Sizes DEF Types, ServerTypes

LEMMA SendBlockType ==
    ASSUME Types, NEW c \in Client, NEW before \in Seq(Datum), out' \in Datum,
           SendBlock(c, before)
    PROVE  /\ toClient' \in [Client -> Seq(Datum)]
           /\ spc' \in {"ack", "run"} /\ faults' \in 0 .. MaxFaults
<1>1. PICK ok \in BOOLEAN :
        /\ Outcome(ok) /\ Send(c, IF ok THEN Append(before, out') ELSE before)
        /\ spc' = IF ok THEN "ack" ELSE "run"
  BY DEF SendBlock
<1>2. (IF ok THEN Append(before, out') ELSE before) \in Seq(Datum)
  BY AppendOf
<1>3. toClient' \in [Client -> Seq(Datum)]
  BY ONLY <1>1, <1>2, SendType, c \in Client, Types DEF Types, NetTypes
<1>4. faults' \in 0 .. MaxFaults
  BY <1>1, OutcomeType DEF Types, ServerTypes
<1>5. QED BY <1>1, <1>3, <1>4

LEMMA StartReadType ==
    ASSUME Types, NEW q \in Datum, StartRead(q), mclient' \in Client
    PROVE  toClient' \in [Client -> Seq(Datum)] /\ ServerTypes'
<1>1. q.c \in Client
  BY Fields
<1>2. job' \in Jobs \ Loads
  BY JobsType DEF StartRead
<1>3. UNCHANGED <<got, stored, closed>>
  BY DEF StartRead
<1>4. job' \notin {"LoadCfg", "LoadFCfg"}
  BY <1>2 DEF Loads
<1>5. CASE job' = "None"
  <2>1. Send(q.c, <<Err(q.c)>>) /\ spc' = "run" /\ cur' = 0
        /\ UNCHANGED <<block, out, tries, faults>>
    BY <1>5 DEF StartRead
  <2>2. <<Err(q.c)>> \in Seq(Datum)
    BY <1>1, Replies
  <2>3. toClient' \in [Client -> Seq(Datum)]
    BY <1>1, <2>1, <2>2, SendType DEF Types, NetTypes
  <2>4. QED BY <1>2, <1>3, <1>4, <2>1, <2>3, Sizes DEF Types, ServerTypes
<1>6. CASE job' # "None"
  <2>1. /\ out' = Pkt("DATA", q.c, 1, ServedBlock(job', 0))
        /\ SendBlock(q.c, <<>>)
        /\ block' = 1 /\ tries' = 0 /\ cur' = Len(out'.d)
    BY <1>6 DEF StartRead
  <2>2. ServedBlock(job', 0) \in Seq(Item) /\ Len(ServedBlock(job', 0)) \in 0 .. MaxCfg
    <3>1. PICK j \in Jobs : j = job'
      BY <1>2
    <3>2. PICK from \in Nat : from = 0
      OBVIOUS
    <3>3. ServedBlock(j, from) \in Seq(Item) /\ Len(ServedBlock(j, from)) + from \in 0 .. MaxCfg
      BY <3>2, ServedLength, Sizes
    <3>4. Len(ServedBlock(j, from)) \in 0 .. MaxCfg
      BY <3>2, <3>3
    <3>5. QED BY ONLY <3>1, <3>2, <3>3, <3>4
  <2>3. out' \in Datum /\ out'.d = ServedBlock(job', 0)
    BY <1>1, <2>1, <2>2, PktType DEF Op
  <2>4. <<>> \in Seq(Datum)
    OBVIOUS
  <2>5. /\ toClient' \in [Client -> Seq(Datum)]
        /\ spc' \in {"ack", "run"} /\ faults' \in 0 .. MaxFaults
    BY ONLY <1>1, <2>1, <2>3, <2>4, SendBlockType, Types
  <2>6. QED BY <1>2, <1>3, <1>4, <2>1, <2>2, <2>3, <2>5, Sizes DEF Types, ServerTypes
<1>7. QED BY <1>5, <1>6

LEMMA StartRequestType ==
    ASSUME Types, NEW q \in Datum, StartRequest(q), mclient' \in Client
    PROVE  toClient' \in [Client -> Seq(Datum)] /\ ServerTypes'
BY StartWriteType, StartReadType DEF StartRequest

LEMMA ResendType ==
    ASSUME Types, NEW c \in Client, NEW before \in Seq(Datum), NEW buffer \in Datum,
           Resend(c, before, buffer), spc = "ack", mclient' \in Client
    PROVE  toClient' \in [Client -> Seq(Datum)] /\ ServerTypes'
<1>1. out' \in Datum
  BY DEF Resend, Datum
<1>2. SendBlock(c, before) => /\ toClient' \in [Client -> Seq(Datum)]
                             /\ spc' \in {"ack", "run"} /\ faults' \in 0 .. MaxFaults
  BY <1>1, SendBlockType
<1>3. Send(c, before) /\ UNCHANGED faults =>
        toClient' \in [Client -> Seq(Datum)] /\ faults' \in 0 .. MaxFaults
  BY SendType DEF Types, NetTypes, ServerTypes
<1>4. /\ toClient' \in [Client -> Seq(Datum)] /\ faults' \in 0 .. MaxFaults
      /\ tries' \in 0 .. 3 /\ (spc' = "ack" => tries' < 3) /\ spc' \in {"ack", "run"}
  <2>1. tries' = tries + 1 /\ tries \in 0 .. 3 /\ tries < 3
    BY DEF Resend, Attempts, Types, ServerTypes
  <2>2. \/ tries + 1 < 3 /\ SendBlock(c, before)
        \/ ~(tries + 1 < 3) /\ Send(c, before) /\ spc' = "run" /\ UNCHANGED faults
    BY Zenon DEF Resend, Attempts
  <2>3. /\ toClient' \in [Client -> Seq(Datum)] /\ faults' \in 0 .. MaxFaults
        /\ spc' \in {"ack", "run"} /\ (spc' = "ack" => tries + 1 < 3)
    BY <1>2, <1>3, <2>2, Zenon
  <2>4. QED BY ONLY <2>1, <2>3, SMT
<1>5. UNCHANGED <<job, got, block, cur, stored, closed>>
  BY DEF Resend
<1>6. QED BY <1>1, <1>4, <1>5 DEF Types, ServerTypes
(* What every step of the server keeps, and what it leaves to be shown.      *)
ServerKeeps ==
    /\ toServer' \in Seq(Datum) /\ Len(toServer') <= MailBox
    /\ toClient' \in [Client -> Seq(Datum)]
    /\ bound' \in BOOLEAN /\ UNCHANGED <<cst, drops>>
    /\ ServerTypes'

LEMMA InMailType == ASSUME NEW op, InMail(op) PROVE toServer # <<>> /\ Msg.op = op
BY DEF InMail, Msg

LEMMA StartServerType == ASSUME Types, StartServer PROVE ServerKeeps
<1>1. spc' \in {"run", "stopped"} /\ bound' \in BOOLEAN
  BY DEF StartServer, Types, NetTypes
<1>2. faults' \in 0 .. MaxFaults
  BY OutcomeType DEF StartServer, Types, ServerTypes
<1>3. UNCHANGED <<toServer, toClient, drops, cst, mclient, job, got, block, cur, out,
                  tries, stored, closed>>
  BY DEF StartServer
<1>4. QED BY <1>1, <1>2, <1>3 DEF Types, NetTypes, ServerTypes, ServerKeeps

LEMMA RunRequestType == ASSUME Types, RunRequest PROVE ServerKeeps
<1>1. toServer # <<>> /\ Receive /\ StartRequest(Msg)
  BY InMailType DEF RunRequest
<1>2. QED BY <1>1, ReceiveType, StartRequestType DEF ServerKeeps, Types, NetTypes

LEMMA RunUnknownType == ASSUME Types, RunUnknown PROVE ServerKeeps
<1>1. toServer # <<>> /\ Receive
  BY InMailType DEF RunUnknown
<1>2. UNCHANGED <<toClient, spc, job, got, block, cur, out, tries, stored, closed, faults>>
  BY DEF RunUnknown
<1>3. QED BY <1>1, <1>2, ReceiveType DEF ServerKeeps, Types, NetTypes, ServerTypes

LEMMA ParseAgainType == ASSUME Types, ParseAgain PROVE ServerKeeps
<1>1. out \in Datum /\ mclient' \in Client
  BY DEF ParseAgain, Types, ServerTypes
<1>2. StartRequest(out) /\ UNCHANGED <<bound, toServer, drops, cst>>
  BY DEF ParseAgain
<1>3. QED BY <1>1, <1>2, StartRequestType DEF ServerKeeps, Types, NetTypes

(* A block fits in the buffer, or is left out.                               *)
LEMMA WriteDataType ==
    ASSUME Types, NEW n, NEW d \in Seq(Item)
    PROVE  /\ WriteData(n, d) \in Seq(Item)
           /\ job \in {"LoadCfg", "LoadFCfg"} => Len(WriteData(n, d)) <= MaxCfg
<1>1. got \in Seq(Item) /\ (job \in {"LoadCfg", "LoadFCfg"} => Len(got) <= MaxCfg)
  BY DEF Types, ServerTypes
<1>2. got \o d \in Seq(Item) /\ Len(got \o d) = Len(got) + Len(d)
  BY <1>1
<1>3. Stores(d) /\ job \in {"LoadCfg", "LoadFCfg"} => Len(got) + Len(d) <= MaxCfg
  BY Zenon DEF Stores
<1>4. WriteData(n, d) = got \/ (WriteData(n, d) = got \o d /\ Stores(d))
  BY Zenon DEF WriteData
<1> HIDE DEF WriteData
<1>5. QED BY <1>1, <1>2, <1>3, <1>4

LEMMA WriteBlockType == ASSUME Types, WriteBlock PROVE ServerKeeps
<1>1. toServer # <<>> /\ Receive
  BY InMailType DEF WriteBlock
<1>2. Msg \in Datum /\ Msg.c \in Client /\ Msg.n \in Nat /\ Msg.d \in Seq(Item)
  BY <1>1, ReceiveType, Fields
<1>3. toClient' \in [Client -> Seq(Datum)]
  <2>1. <<Ack(Msg.c, Msg.n)>> \in Seq(Datum)
    BY <1>2, Replies
  <2>2. Send(Msg.c, <<Ack(Msg.c, Msg.n)>>)
    BY DEF WriteBlock
  <2>3. QED BY <1>2, <2>1, <2>2, SendType DEF Types, NetTypes
<1>4. /\ got' \in Seq(Item) /\ (job \in {"LoadCfg", "LoadFCfg"} => Len(got') <= MaxCfg)
      /\ closed' \in {"complete", closed} /\ spc' \in {"reboot", "run", "write"}
      /\ faults' \in 0 .. MaxFaults
  <2>1. PICK ok \in BOOLEAN :
          /\ Outcome(ok)
          /\ got' = WriteData(Msg.n, Msg.d) \/ (~ok /\ job = "LoadFW" /\ got' = got)
          /\ IF Len(Msg.d) < Blk THEN OnClose("complete", got', "run", ok)
             ELSE UNCHANGED <<spc, stored, closed>>
    BY DEF WriteBlock
  <2>2. faults' \in 0 .. MaxFaults
    BY <2>1, OutcomeType DEF Types, ServerTypes
  <2>3. closed' \in {"complete", closed} /\ spc' \in {"reboot", "run", "write"}
    BY <2>1, OnCloseType DEF WriteBlock
  <2>4. got' = WriteData(Msg.n, Msg.d) \/ got' = got
    BY <2>1
  <2>5. QED BY <1>2, <2>2, <2>3, <2>4, WriteDataType DEF Types, ServerTypes
<1>5. block' \in Nat \ {0}
  BY DEF WriteBlock, Types, ServerTypes
<1>6. UNCHANGED <<job, cur, out, tries>>
  BY DEF WriteBlock
<1>7. QED
  BY <1>1, <1>3, <1>4, <1>5, <1>6, ReceiveType DEF ServerKeeps, Types, NetTypes, ServerTypes

LEMMA WriteRepeatType == ASSUME Types, WriteRepeat PROVE ServerKeeps
<1>1. toServer # <<>> /\ Receive
  BY InMailType DEF WriteRepeat
<1>2. Msg.c \in Client
  BY <1>1, ReceiveType, Fields
<1>3. <<Ack(Msg.c, 0)>> \in Seq(Datum) /\ Send(Msg.c, <<Ack(Msg.c, 0)>>)
  BY <1>2, Replies DEF WriteRepeat
<1>4. toClient' \in [Client -> Seq(Datum)]
  BY <1>2, <1>3, SendType DEF Types, NetTypes
<1>5. UNCHANGED <<spc, job, got, block, cur, out, tries, stored, closed, faults>>
  BY DEF WriteRepeat
<1>6. QED BY <1>1, <1>4, <1>5, ReceiveType DEF ServerKeeps, Types, NetTypes, ServerTypes

LEMMA WriteBrokenType == ASSUME Types, WriteBroken PROVE ServerKeeps
<1>1. toServer # <<>> /\ Receive
  BY InMailType DEF WriteBroken
<1>2. PICK ok \in BOOLEAN :
        Outcome(ok) /\ OnClose("broken", got, IF InMail("ACK") THEN "hung" ELSE "parse", ok)
  BY DEF WriteBroken
<1>3. faults' \in 0 .. MaxFaults
  BY <1>2, OutcomeType DEF Types, ServerTypes
<1>4. closed' = "broken" /\ spc' \in {"reboot", IF InMail("ACK") THEN "hung" ELSE "parse"}
  BY ONLY <1>2, OnCloseType
<1>5. UNCHANGED <<toClient, job, got, block, cur, tries>> /\ out' = Msg
  BY DEF WriteBroken
<1>6. QED
  BY <1>1, <1>3, <1>4, <1>5, ReceiveType DEF ServerKeeps, Types, NetTypes, ServerTypes

LEMMA WriteTimeoutType == ASSUME Types, WriteTimeout PROVE ServerKeeps
<1>1. PICK ok \in BOOLEAN : Outcome(ok) /\ OnClose("timeout", got, "run", ok)
  BY DEF WriteTimeout
<1>2. faults' \in 0 .. MaxFaults
  BY <1>1, OutcomeType DEF Types, ServerTypes
<1>3. closed' = "timeout" /\ spc' \in {"reboot", "run"}
  BY ONLY <1>1, OnCloseType
<1>4. UNCHANGED <<netVars, mclient, job, got, block, cur, out, tries>>
  BY DEF WriteTimeout
<1>5. QED BY <1>2, <1>3, <1>4 DEF ServerKeeps, Types, NetTypes, ServerTypes, netVars
LEMMA ReadNextType == ASSUME Types, ReadNext PROVE ServerKeeps
<1>1. toServer # <<>> /\ Receive
  BY InMailType DEF ReadNext, ReadAcked
<1>2. Msg.c \in Client
  BY <1>1, ReceiveType, Fields
<1>3. UNCHANGED <<job, got, stored, closed>>
  BY DEF ReadNext
<1>4. CASE Len(out.d) < Blk
  <2>1. spc' = "run" /\ UNCHANGED <<toClient, block, out, tries, cur, faults>>
    BY <1>4 DEF ReadNext
  <2>2. QED BY <1>1, <1>3, <2>1, ReceiveType DEF ServerKeeps, Types, NetTypes, ServerTypes
<1>5. CASE ~(Len(out.d) < Blk)
  <2>1. /\ out' = Pkt("DATA", Msg.c, block + 1, ServedBlock(job, cur))
        /\ SendBlock(Msg.c, <<>>)
        /\ block' = block + 1 /\ tries' = 0 /\ cur' = cur + Len(out'.d)
    BY <1>5 DEF ReadNext
  <2>2. /\ ServedBlock(job, cur) \in Seq(Item)
        /\ Len(ServedBlock(job, cur)) + cur \in 0 .. MaxCfg
    <3>1. PICK from \in Nat : from = cur /\ from <= MaxCfg
      BY Sizes DEF Types, ServerTypes
    <3>2. job \in Jobs
      BY DEF Types, ServerTypes
    <3>3. QED BY ONLY <3>1, <3>2, ServedLength
  <2>3. block + 1 \in Nat \ {0}
    BY DEF Types, ServerTypes
  <2>4. out' \in Datum /\ out'.d = ServedBlock(job, cur)
    BY <1>2, <2>1, <2>2, <2>3, PktType DEF Op
  <2>5. <<>> \in Seq(Datum)
    OBVIOUS
  <2>6. /\ toClient' \in [Client -> Seq(Datum)]
        /\ spc' \in {"ack", "run"} /\ faults' \in 0 .. MaxFaults
    BY ONLY <1>2, <2>1, <2>4, <2>5, SendBlockType, Types
  <2>7. cur' \in 0 .. MaxCfg
    <3>1. PICK n \in Nat : n = Len(ServedBlock(job, cur))
      BY <2>2
    <3>2. cur \in Nat /\ n + cur \in 0 .. MaxCfg
      BY <2>2, <3>1 DEF Types, ServerTypes
    <3>3. cur' = cur + n
      BY ONLY <2>1, <2>4, <3>1
    <3>4. QED BY ONLY <3>2, <3>3, SMT
  <2>8. /\ toServer' \in Seq(Datum) /\ Len(toServer') <= MailBox
        /\ mclient' \in Client /\ bound' \in BOOLEAN /\ UNCHANGED <<cst, drops>>
    BY <1>1, ReceiveType DEF Types, NetTypes
  <2>9. job' = job /\ got' = got /\ closed' = closed /\ block' \in Nat \ {0}
    BY <1>3, <2>1, <2>3
  <2>10. ServerTypes'
    BY <2>1, <2>4, <2>6, <2>7, <2>8, <2>9 DEF Types, ServerTypes
  <2>11. QED BY ONLY <2>6, <2>8, <2>10 DEF ServerKeeps
<1>6. QED BY <1>4, <1>5

LEMMA ClobberedType ==
    ASSUME Types, NEW c \in Client PROVE Clobbered(c) \in Datum
<1>1. "ERROR" \in Op /\ out \in Datum
  BY DEF Op, Types, ServerTypes
<1>2. QED BY <1>1 DEF Clobbered, Datum

LEMMA ReadAgainType ==
    ASSUME Types, ReadWrongAck \/ ReadNoAck PROVE ServerKeeps
<1>1. toServer # <<>> /\ Receive /\ spc = "ack"
  BY InMailType DEF ReadWrongAck, ReadNoAck
<1>2. Msg.c \in Client /\ mclient' \in Client
  BY <1>1, ReceiveType, Fields
<1>3. <<>> \in Seq(Datum) /\ <<Err(Msg.c)>> \in Seq(Datum)
  BY <1>2, Replies
<1>4. out \in Datum /\ Clobbered(Msg.c) \in Datum
  BY <1>2, ClobberedType DEF Types, ServerTypes
<1>5. PICK before \in Seq(Datum), buffer \in Datum : Resend(Msg.c, before, buffer)
  BY <1>3, <1>4 DEF ReadWrongAck, ReadNoAck
<1>6. toClient' \in [Client -> Seq(Datum)] /\ ServerTypes'
  BY <1>1, <1>2, <1>5, ResendType
<1>7. QED BY <1>1, <1>6, ReceiveType DEF ServerKeeps, Types, NetTypes

LEMMA ReadTimeoutType == ASSUME Types, ReadTimeout PROVE ServerKeeps
<1>1. spc = "ack" /\ mclient \in Client /\ mclient' \in Client
  BY DEF ReadTimeout, Types, ServerTypes
<1>2. <<Err(mclient)>> \in Seq(Datum) /\ Clobbered(mclient) \in Datum
  BY <1>1, Replies, ClobberedType
<1>3. Resend(mclient, <<Err(mclient)>>, Clobbered(mclient))
  BY DEF ReadTimeout
<1>4. toClient' \in [Client -> Seq(Datum)] /\ ServerTypes'
  BY <1>1, <1>2, <1>3, ResendType
<1>5. UNCHANGED <<bound, toServer, drops, cst, mclient>>
  BY DEF ReadTimeout
<1>6. QED BY <1>4, <1>5 DEF ServerKeeps, Types, NetTypes

LEMMA NoPktType == NoPkt \in Datum /\ NoPkt.c \in Client
<1>1. PICK c \in Client : c = CHOOSE x \in Client : TRUE
  BY NetAssumption
<1>2. <<>> \in Seq(Item) /\ "none" \in Op
  BY DEF Op
<1>3. PICK n \in Nat : n = 0
  OBVIOUS
<1>4. NoPkt = Pkt("none", c, n, <<>>)
  BY ONLY <1>1, <1>3 DEF NoPkt
<1>5. Pkt("none", c, n, <<>>) \in Datum /\ Pkt("none", c, n, <<>>).c = c
  BY <1>2 DEF Pkt, Datum
<1>6. QED BY ONLY <1>4, <1>5, c \in Client

LEMMA BootType == ASSUME Types, Boot, faults' \in 0 .. MaxFaults PROVE ServerKeeps
<1>1. <<>> \in Seq(Datum) /\ Len(<<>>) <= MailBox /\ <<>> \in Seq(Item) /\ Len(<<>>) <= MaxCfg
  BY Sizes
<1>2. out' \in Datum /\ mclient' \in Client
  BY NoPktType DEF Boot
<1>3. job' \in Jobs
  BY DEF Boot, Jobs
<1>4. /\ spc' = "start" /\ bound' = FALSE /\ toServer' = <<>> /\ got' = <<>>
      /\ block' = 1 /\ cur' = 0 /\ tries' = 0 /\ UNCHANGED <<toClient, drops, cst, closed>>
  BY DEF Boot
<1>5. /\ toServer' \in Seq(Datum) /\ Len(toServer') <= MailBox
      /\ got' \in Seq(Item) /\ Len(got') <= MaxCfg
  BY ONLY <1>1, <1>4
<1>6. toClient' \in [Client -> Seq(Datum)] /\ bound' \in BOOLEAN /\ UNCHANGED <<cst, drops>>
  BY <1>4 DEF Types, NetTypes
<1>7. /\ block' \in Nat \ {0} /\ cur' \in 0 .. MaxCfg /\ tries' \in 0 .. 3 /\ spc' = "start"
      /\ closed' \in {"none", "complete", "broken", "timeout"}
  BY <1>4, Sizes DEF Types, ServerTypes
<1>8. QED BY <1>2, <1>3, <1>5, <1>6, <1>7 DEF ServerKeeps, ServerTypes

LEMMA ServerType ==
    ASSUME Types, ServerStep \/ ServerTimeout \/ PowerCycle PROVE ServerKeeps
<1>1. CASE Reboot
  <2>1. Boot /\ faults' \in 0 .. MaxFaults
    BY <1>1 DEF Reboot, Types, ServerTypes
  <2>2. QED BY <2>1, BootType
<1>2. CASE PowerCycle
  <2>1. Boot /\ faults' \in 0 .. MaxFaults
    BY <1>2, OutcomeType DEF PowerCycle, Types, ServerTypes
  <2>2. QED BY <2>1, BootType
<1>3. QED
  BY <1>1, <1>2, StartServerType, RunRequestType, RunUnknownType, ParseAgainType,
     WriteBlockType, WriteRepeatType, WriteBrokenType, WriteTimeoutType, ReadNextType,
     ReadAgainType, ReadTimeoutType
  DEF ServerStep, ServerTimeout
(* The steps of a client.                                                    *)
ClientKeeps ==
    /\ toServer' \in Seq(Datum) /\ Len(toServer') <= MailBox
    /\ toClient' \in [Client -> Seq(Datum)]
    /\ cst' \in [Client -> {"idle", "wait", "done", "failed", "killed"}]
    /\ UNCHANGED <<bound, drops>>
    /\ ClientTypes'

LEMMA AnswerType ==
    ASSUME Types, NEW c \in Client, NEW op, HasAnswer(c, op)
    PROVE  /\ Answer(c) \in Datum /\ Answer(c).n \in Nat /\ Answer(c).d \in Seq(Item)
           /\ cst[c] = "wait" /\ toClient[c] # <<>>
           /\ Tail(toClient[c]) \in Seq(Datum)
<1>1. toClient[c] \in Seq(Datum) /\ toClient[c] # <<>> /\ cst[c] = "wait"
  BY DEF HasAnswer, Types, NetTypes
<1>2. Head(toClient[c]) \in Datum /\ Tail(toClient[c]) \in Seq(Datum)
  BY ONLY <1>1, TailOf
<1>3. QED BY <1>1, <1>2, Fields DEF Answer

LEMMA ConsumeType ==
    ASSUME Types, NEW c \in Client, Consume(c), Tail(toClient[c]) \in Seq(Datum)
    PROVE  toClient' \in [Client -> Seq(Datum)] /\ UNCHANGED <<bound, drops>>
<1>1. toClient \in [Client -> Seq(Datum)] /\ <<>> \in Seq(Datum)
  BY DEF Types, NetTypes
<1>2. toClient' = [toClient EXCEPT ![c] = IF cst'[c] = "wait" THEN Tail(@) ELSE <<>>]
  BY DEF Consume
<1>3. QED BY <1>1, <1>2 DEF Consume

LEMMA EndsType ==
    ASSUME Types, NEW c \in Client, NEW how \in {"done", "failed", "killed"}, Ends(c, how)
    PROVE  /\ cst' \in [Client -> {"idle", "wait", "done", "failed", "killed"}]
           /\ cst'[c] = how
           /\ \A d \in Client : d # c => cst'[d] = cst[d]
           /\ \A d \in Client : cst'[d] \in Live => cst'[d] = cst[d]
BY DEF Ends, Types, NetTypes, Live

LEMMA SendToServerType ==
    ASSUME Types, NEW p \in Datum, SendToServer(p)
    PROVE  toServer' \in Seq(Datum) /\ Len(toServer') <= MailBox
<1>1. toServer \in Seq(Datum) /\ Len(toServer) <= MailBox
  BY DEF Types, NetTypes
<1>2. Deliver(toServer, p) \in Seq(Datum) /\ Len(Deliver(toServer, p)) <= MailBox
  BY ONLY <1>1, DeliverType, p \in Datum
<1>3. QED BY <1>2 DEF SendToServer

LEMMA StartType == ASSUME Types, NEW c \in Client, Start(c) PROVE ClientKeeps
<1>1. SendToServer(Req(c)) /\ UNCHANGED <<bound, toClient, drops, pktN, retry, result>>
  BY DEF Start
<1>2. toServer' \in Seq(Datum) /\ Len(toServer') <= MailBox
  BY <1>1, Replies, SendToServerType
<1>3. /\ cst' \in [Client -> {"idle", "wait", "done", "failed", "killed"}]
      /\ \A d \in Client : cst'[d] \in Live => cst[d] \in Live
  BY DEF Start, Types, NetTypes, Live
<1>4. QED BY <1>1, <1>2, <1>3, Sizes DEF ClientKeeps, ClientTypes, Types, NetTypes

LEMMA RecvErrorType == ASSUME Types, NEW c \in Client, RecvError(c) PROVE ClientKeeps
<1>1. Ends(c, "failed") /\ Consume(c) /\ UNCHANGED <<toServer, pktN, retry, result>>
  BY DEF RecvError
<1>2. toClient' \in [Client -> Seq(Datum)] /\ UNCHANGED <<bound, drops>>
  BY <1>1, AnswerType, ConsumeType DEF RecvError
<1>3. /\ cst' \in [Client -> {"idle", "wait", "done", "failed", "killed"}]
      /\ \A d \in Client : cst'[d] \in Live => cst'[d] = cst[d]
  BY <1>1, EndsType
<1>4. QED BY <1>1, <1>2, <1>3 DEF ClientKeeps, ClientTypes, Types, NetTypes

LEMMA RetryLeft ==
    ASSUME Types, NEW d \in Client, cst[d] \in Live PROVE retry[d] < MaxRetry /\ 0 < MaxRetry
BY Sizes DEF Types, ClientTypes

LEMMA SendNextType == ASSUME Types, NEW c \in Client, SendNext(c) PROVE ClientKeeps
<1> DEFINE data == Block(c, Size[c], pktN[c] + 1)
<1>1. pktN \in [Client -> Nat] /\ retry \in [Client -> 0 .. MaxRetry]
  BY DEF Types, ClientTypes
<1>2. data \in Seq(Item)
  <2>1. PICK n \in Nat \ {0} : n = pktN[c] + 1
    BY <1>1
  <2>2. Size[c] \in Nat /\ c \in Client \union Jobs
    BY Sizes
  <2>3. QED BY ONLY <2>1, <2>2, BlockType
<1> HIDE DEF data
<1>3. /\ pktN' = [pktN EXCEPT ![c] = @ + 1] /\ retry' = [retry EXCEPT ![c] = 0]
      /\ SendToServer(Pkt("DATA", c, pktN[c] + 1, data))
      /\ IF Len(data) < Blk THEN Ends(c, "done") ELSE UNCHANGED cst
      /\ Consume(c) /\ UNCHANGED result
  BY DEF SendNext, data
<1>4. Pkt("DATA", c, pktN[c] + 1, data) \in Datum
  BY <1>1, <1>2, PktType DEF Op
<1>5. toServer' \in Seq(Datum) /\ Len(toServer') <= MailBox
  BY <1>3, <1>4, SendToServerType
<1>6. toClient' \in [Client -> Seq(Datum)] /\ UNCHANGED <<bound, drops>>
  BY <1>3, AnswerType, ConsumeType DEF SendNext
<1>7. /\ cst' \in [Client -> {"idle", "wait", "done", "failed", "killed"}]
      /\ \A d \in Client : cst'[d] \in Live => cst'[d] = cst[d]
  BY <1>3, EndsType DEF Types, NetTypes
<1>8. pktN' \in [Client -> Nat] /\ retry' \in [Client -> 0 .. MaxRetry]
  BY <1>1, <1>3, Sizes
<1>9. \A d \in Client : cst'[d] \in Live => retry'[d] < MaxRetry
  <2>1. \A d \in Client : retry'[d] = 0 \/ retry'[d] = retry[d]
    BY <1>1, <1>3
  <2>2. QED BY <1>7, <2>1, RetryLeft
<1>10. QED BY <1>3, <1>5, <1>6, <1>7, <1>8, <1>9 DEF ClientKeeps, ClientTypes, Types

LEMMA ReadBlockType == ASSUME Types, NEW c \in Client, ReadBlock(c) PROVE ClientKeeps
<1>1. /\ pktN \in [Client -> Nat] /\ retry \in [Client -> 0 .. MaxRetry]
      /\ result \in [Client -> Seq(Item)]
  BY DEF Types, ClientTypes
<1>2. Answer(c).d \in Seq(Item)
  BY AnswerType DEF ReadBlock
<1>3. SendToServer(Pkt("ACK", c, pktN[c], <<>>)) /\ Consume(c)
  BY DEF ReadBlock
<1>4. Pkt("ACK", c, pktN[c], <<>>) \in Datum
  <2>1. <<>> \in Seq(Item) /\ pktN[c] \in Nat
    BY <1>1
  <2>2. QED BY ONLY <2>1, PktType, c \in Client DEF Op
<1>5. toServer' \in Seq(Datum) /\ Len(toServer') <= MailBox
  BY <1>3, <1>4, SendToServerType
<1>6. toClient' \in [Client -> Seq(Datum)] /\ UNCHANGED <<bound, drops>>
  BY <1>3, AnswerType, ConsumeType DEF ReadBlock
<1>7. /\ result' = [result EXCEPT ![c] = @ \o Answer(c).d] \/ UNCHANGED result
      /\ pktN' = [pktN EXCEPT ![c] = @ + 1] \/ UNCHANGED pktN
      /\ retry' = [retry EXCEPT ![c] = 0] \/ UNCHANGED retry
      /\ Ends(c, "done") \/ UNCHANGED cst
  BY Zenon DEF ReadBlock, clientVars
<1>8. /\ cst' \in [Client -> {"idle", "wait", "done", "failed", "killed"}]
      /\ \A d \in Client : cst'[d] \in Live => cst'[d] = cst[d]
  BY <1>7, EndsType DEF Types, NetTypes
<1>9. result' \in [Client -> Seq(Item)]
  <2>1. result[c] \o Answer(c).d \in Seq(Item)
    BY <1>1, <1>2, ConcatOf
  <2>2. QED BY <1>1, <1>7, <2>1
<1>10. pktN' \in [Client -> Nat] /\ retry' \in [Client -> 0 .. MaxRetry]
  <2>1. pktN' \in [Client -> Nat]
    <3>1. [pktN EXCEPT ![c] = @ + 1] \in [Client -> Nat]
      BY ONLY <1>1
    <3>2. QED BY ONLY <1>1, <1>7, <3>1
  <2>2. retry' \in [Client -> 0 .. MaxRetry]
    <3>1. [retry EXCEPT ![c] = 0] \in [Client -> 0 .. MaxRetry]
      BY <1>1, Sizes
    <3>2. QED BY ONLY <1>1, <1>7, <3>1
  <2>3. QED BY <2>1, <2>2
<1>11. \A d \in Client : cst'[d] \in Live => retry'[d] < MaxRetry
  <2>1. \A d \in Client : retry'[d] = 0 \/ retry'[d] = retry[d]
    BY <1>1, <1>7
  <2>2. QED BY <1>8, <2>1, RetryLeft
<1>12. QED BY <1>5, <1>6, <1>8, <1>9, <1>10, <1>11 DEF ClientKeeps, ClientTypes

LEMMA IgnoreType == ASSUME Types, NEW c \in Client, Ignore(c) PROVE ClientKeeps
<1>1. PICK op \in {"DATA", "ACK"} : HasAnswer(c, op)
  BY DEF Ignore, Ignored
<1>2. Consume(c) /\ UNCHANGED <<cst, toServer, pktN, retry, result>>
  BY DEF Ignore, clientVars
<1>3. toClient' \in [Client -> Seq(Datum)] /\ UNCHANGED <<bound, drops>>
  BY <1>1, <1>2, AnswerType, ConsumeType
<1>4. QED BY <1>2, <1>3 DEF ClientKeeps, ClientTypes, Types, NetTypes
LEMMA RepeatType == ASSUME Types, NEW c \in Client PROVE Repeat(c) \in Datum
<1>1. pktN[c] \in Nat /\ Req(c) \in Datum /\ <<>> \in Seq(Item)
  BY Replies DEF Types, ClientTypes
<1>2. Pkt("ACK", c, pktN[c], <<>>) \in Datum
  BY <1>1, PktType DEF Op
<1>3. CASE pktN[c] # 0
  <2>1. PICK n \in Nat \ {0} : n = pktN[c]
    BY <1>1, <1>3
  <2>2. Block(c, Size[c], n) \in Seq(Item)
    <3>1. Size[c] \in Nat /\ c \in Client \union Jobs
      BY Sizes
    <3>2. QED BY ONLY <3>1, n \in Nat \ {0}, BlockType
  <2>3. Pkt("DATA", c, n, Block(c, Size[c], n)) \in Datum
    BY <2>2, PktType DEF Op
  <2>4. Pkt("DATA", c, pktN[c], Block(c, Size[c], pktN[c])) \in Datum
    BY ONLY <2>1, <2>3
  <2>5. QED BY ONLY <1>1, <1>2, <2>4, Zenon DEF Repeat
<1>4. QED BY <1>1, <1>2, <1>3, Zenon DEF Repeat

LEMMA TimeoutType == ASSUME Types, NEW c \in Client, Timeout(c) PROVE ClientKeeps
<1>1. /\ retry' = [retry EXCEPT ![c] = retry[c] + 1]
      /\ UNCHANGED <<bound, toClient, drops, pktN, result>> /\ cst[c] = "wait"
  BY DEF Timeout, Tried
<1>2. retry \in [Client -> 0 .. MaxRetry] /\ retry[c] < MaxRetry
  BY <1>1, RetryLeft DEF Types, ClientTypes, Live
<1>3. retry' \in [Client -> 0 .. MaxRetry] /\ \A d \in Client : d # c => retry'[d] = retry[d]
  BY <1>1, <1>2, Sizes
<1>4. CASE retry[c] + 1 < MaxRetry
  <2>1. SendToServer(Repeat(c)) /\ UNCHANGED cst
    BY <1>4 DEF Timeout, Tried
  <2>2. toServer' \in Seq(Datum) /\ Len(toServer') <= MailBox
    BY <2>1, RepeatType, SendToServerType
  <2>3. \A d \in Client : cst'[d] \in Live => retry'[d] < MaxRetry
    <3>1. retry'[c] < MaxRetry
      BY <1>1, <1>2, <1>4
    <3>2. QED BY <1>3, <2>1, <3>1 DEF Types, ClientTypes
  <2>4. QED BY <1>1, <1>3, <2>1, <2>2, <2>3 DEF ClientKeeps, ClientTypes, Types, NetTypes
<1>5. CASE ~(retry[c] + 1 < MaxRetry)
  <2>1. Ends(c, "failed") /\ UNCHANGED toServer
    BY <1>5 DEF Timeout, Tried
  <2>2. /\ cst' \in [Client -> {"idle", "wait", "done", "failed", "killed"}]
        /\ cst'[c] = "failed"
        /\ \A d \in Client : d # c => cst'[d] = cst[d]
    BY <2>1, EndsType
  <2>3. \A d \in Client : cst'[d] \in Live => retry'[d] < MaxRetry
    BY <1>3, <2>2 DEF Types, ClientTypes, Live
  <2>4. QED BY <1>1, <1>3, <2>1, <2>2, <2>3 DEF ClientKeeps, ClientTypes, Types, NetTypes
<1>6. QED BY <1>4, <1>5

LEMMA KillType == ASSUME Types, NEW c \in Client, Kill(c) PROVE ClientKeeps
<1>1. /\ Ends(c, "killed") /\ toClient' = [toClient EXCEPT ![c] = <<>>]
      /\ UNCHANGED <<bound, toServer, drops, pktN, retry, result>>
  BY DEF Kill
<1>2. toClient' \in [Client -> Seq(Datum)]
  <2>1. <<>> \in Seq(Datum)
    OBVIOUS
  <2>2. QED BY <1>1, <2>1 DEF Types, NetTypes
<1>3. /\ cst' \in [Client -> {"idle", "wait", "done", "failed", "killed"}]
      /\ \A d \in Client : cst'[d] \in Live => cst'[d] = cst[d]
  BY <1>1, EndsType
<1>4. QED BY <1>1, <1>2, <1>3 DEF ClientKeeps, ClientTypes, Types, NetTypes

LEMMA ClientType ==
    ASSUME Types, NEW c \in Client,
           Start(c) \/ ClientStep(c) \/ Timeout(c) \/ Kill(c)
    PROVE  ClientKeeps
BY StartType, RecvErrorType, SendNextType, ReadBlockType, IgnoreType, TimeoutType, KillType
DEF ClientStep

(* A loss takes one datagram out and keeps the order of the rest.            *)
Without(q, i) == SubSeq(q, 1, i - 1) \o SubSeq(q, i + 1, Len(q))

LEMMA WithoutOf ==
    ASSUME NEW S, NEW q \in Seq(S), NEW i \in 1 .. Len(q)
    PROVE  /\ Without(q, i) \in Seq(S) /\ Len(Without(q, i)) = Len(q) - 1
           /\ \A k \in 1 .. Len(q) - 1 :
                Without(q, i)[k] = q[IF k < i THEN k ELSE k + 1]
<1> DEFINE r == SubSeq(q, 1, i - 1)
           t == SubSeq(q, i + 1, Len(q))
<1>1. i \in Nat /\ Len(q) \in Nat /\ 1 <= i /\ i <= Len(q)
  OBVIOUS
<1>2. r \in Seq(S) /\ Len(r) = i - 1 /\ \A k \in 1 .. i - 1 : r[k] = q[k]
  BY <1>1
<1>3. t \in Seq(S) /\ Len(t) = Len(q) - i /\ \A k \in 1 .. Len(q) - i : t[k] = q[i + k]
  BY <1>1
<1> HIDE DEF r, t
<1>4. r \o t \in Seq(S) /\ Len(r \o t) = Len(q) - 1
  <2>1. r \o t \in Seq(S) /\ Len(r \o t) = Len(r) + Len(t)
    BY ONLY <1>2, <1>3, ConcatOf
  <2>2. QED BY <1>1, <1>2, <1>3, <2>1
<1>5. ASSUME NEW k \in 1 .. Len(q) - 1 PROVE (r \o t)[k] = q[IF k < i THEN k ELSE k + 1]
  <2>1. CASE k < i
    BY <1>1, <1>2, <1>3, <2>1
  <2>2. CASE ~(k < i)
    <3>1. (r \o t)[k] = t[k - (i - 1)] /\ k - (i - 1) \in 1 .. Len(q) - i
      BY <1>1, <1>2, <1>3, <2>2
    <3>2. t[k - (i - 1)] = q[i + (k - (i - 1))] /\ i + (k - (i - 1)) = k + 1
      BY <1>1, <1>3, <3>1
    <3>3. QED BY <2>2, <3>1, <3>2
  <2>3. QED BY <2>1, <2>2
<1>6. QED BY <1>4, <1>5 DEF Without, r, t

LEMMA DropType == ASSUME Types, Drop
    PROVE  /\ toServer' \in Seq(Datum) /\ Len(toServer') <= MailBox
           /\ toClient' \in [Client -> Seq(Datum)] /\ UNCHANGED <<bound, cst>>
           /\ drops' \in 0 .. MaxDrops
<1>1. CASE DropToServer
  <2>1. PICK i \in 1 .. Len(toServer) : toServer' = Without(toServer, i)
    BY <1>1 DEF DropToServer, Without
  <2>2. Without(toServer, i) \in Seq(Datum) /\ Len(Without(toServer, i)) = Len(toServer) - 1
    BY WithoutOf DEF Types, NetTypes
  <2>3. drops' \in 0 .. MaxDrops /\ UNCHANGED <<bound, toClient, cst>>
    BY <1>1, Sizes DEF DropToServer, Types, NetTypes
  <2>4. Len(toServer) - 1 <= MailBox
    BY Sizes DEF Types, NetTypes
  <2>5. QED BY <2>1, <2>2, <2>3, <2>4 DEF Types, NetTypes
<1>2. ASSUME NEW c \in Client, DropToClient(c)
      PROVE  /\ toServer' \in Seq(Datum) /\ Len(toServer') <= MailBox
             /\ toClient' \in [Client -> Seq(Datum)] /\ UNCHANGED <<bound, cst>>
             /\ drops' \in 0 .. MaxDrops
  <2>1. Tail(toClient[c]) \in Seq(Datum)
    BY <1>2, TailOf DEF DropToClient, Types, NetTypes
  <2>2. drops' \in 0 .. MaxDrops /\ UNCHANGED <<bound, toServer, cst>>
    BY <1>2, Sizes DEF DropToClient, Types, NetTypes
  <2>3. toClient' = [toClient EXCEPT ![c] = Tail(@)]
    BY <1>2 DEF DropToClient
  <2>4. QED BY <2>1, <2>2, <2>3 DEF Types, NetTypes
<1>3. QED BY <1>1, <1>2 DEF Drop

LEMMA TypesStep == ASSUME Types, [Next]_vars PROVE Types'
<1>1. CASE ServerRuns \/ LateServer \/ PowerFails
  <2>1. ServerKeeps /\ UNCHANGED <<pktN, retry, result, early>>
    BY <1>1, ServerType DEF ServerRuns, LateServer, PowerFails, ServerGoesOn, clientVars
  <2>2. waited' \in [Client -> 0 .. Patience] /\ hurried' = hurried
    <3>1. waited' = [c \in Client |-> 0] /\ hurried' = hurried
      BY <1>1 DEF ServerRuns, LateServer, PowerFails, ServerGoesOn
    <3>2. QED BY <3>1, Sizes
  <2>3. QED BY <2>1, <2>2 DEF ServerKeeps, Types, NetTypes, ClientTypes
<1>2. CASE Lose
  <2>1. Drop /\ UNCHANGED serverVars /\ UNCHANGED clientVars /\ UNCHANGED <<early, waited, hurried>>
    BY <1>2 DEF Lose
  <2>2. /\ toServer' \in Seq(Datum) /\ Len(toServer') <= MailBox
        /\ toClient' \in [Client -> Seq(Datum)] /\ UNCHANGED <<bound, cst>>
        /\ drops' \in 0 .. MaxDrops
    BY <2>1, DropType
  <2>3. NetTypes'
    BY ONLY <2>1, <2>2, Types DEF Types, NetTypes
  <2>4. ServerTypes'
    BY ONLY <2>1, Types DEF Types, ServerTypes, serverVars
  <2>5. ClientTypes'
    BY ONLY <2>1, <2>2, Types DEF Types, ClientTypes, clientVars
  <2>6. QED BY ONLY <2>3, <2>4, <2>5 DEF Types
<1>3. ASSUME NEW c \in Client,
             StartRun(c) \/ ClientRuns(c) \/ ClientTimeout(c) \/ Stop(c)
      PROVE  Types'
  <2>1. /\ Start(c) \/ ClientStep(c) \/ Timeout(c) \/ Kill(c)
        /\ UNCHANGED serverVars
    BY <1>3 DEF StartRun, ClientRuns, ClientTimeout, Stop
  <2>2. UNCHANGED early \/ (early < MaxEarly /\ early' = early + 1)
    BY <1>3 DEF StartRun, ClientRuns, ClientTimeout, Stop
  <2>3. ClientKeeps
    BY <2>1, ClientType
  <2>4. early' \in 0 .. MaxEarly
    BY <2>2, Sizes DEF Types, NetTypes
  <2>5. ServerTypes'
    BY <2>1 DEF Types, ServerTypes, serverVars
  <2>6. waited' \in [Client -> 0 .. Patience] /\ hurried' \in BOOLEAN
    <3>1. waited \in [Client -> 0 .. Patience] /\ hurried \in BOOLEAN /\ Patience \in Nat
      BY Sizes DEF Types, NetTypes
    <3>2. /\ \/ UNCHANGED waited \/ waited' = [waited EXCEPT ![c] = Patience]
             \/ waited' = [waited EXCEPT ![c] = IF @ < Patience THEN @ + 1 ELSE @]
          /\ hurried' = hurried \/ hurried' = (Sequential /\ ~ServerBack)
      BY <1>3, Zenon DEF StartRun, ClientRuns, ClientTimeout, Stop
    <3>3. Sequential \in BOOLEAN
      BY SystemAssumption
    <3>4. hurried' \in BOOLEAN
      BY <3>1, <3>2, <3>3
    <3>5. waited' \in [Client -> 0 .. Patience]
      BY <3>1, <3>2
    <3>6. QED BY <3>4, <3>5
  <2>7. QED BY <2>3, <2>4, <2>5, <2>6 DEF ClientKeeps, Types, NetTypes
<1>4. CASE UNCHANGED vars
  BY <1>4
  DEF vars, netVars, serverVars, clientVars, Types, NetTypes, ServerTypes, ClientTypes
<1>5. QED BY <1>1, <1>2, <1>3, <1>4 DEF Next

LEMMA TypesInit == Init => Types
<1> SUFFICES ASSUME Init PROVE Types
  OBVIOUS
<1>1. <<>> \in Seq(Datum) /\ <<>> \in Seq(Item) /\ Len(<<>>) = 0
  OBVIOUS
<1>2. NetTypes
  <2>1. /\ bound = FALSE /\ toServer = <<>> /\ toClient = [c \in Client |-> <<>>]
        /\ cst = [c \in Client |-> "idle"] /\ drops = 0 /\ early = 0
    BY DEF Init, NetInit
  <2>2. toServer \in Seq(Datum) /\ Len(toServer) <= MailBox /\ bound \in BOOLEAN
    <3>1. toServer \in Seq(Datum) /\ Len(toServer) = 0
      BY ONLY <1>1, <2>1
    <3>2. 0 <= MailBox
      BY Sizes
    <3>3. bound \in BOOLEAN
      BY ONLY <2>1
    <3>4. QED BY ONLY <3>1, <3>2, <3>3
  <2>3. toClient \in [Client -> Seq(Datum)]
    BY <1>1, <2>1
  <2>4. cst \in [Client -> {"idle", "wait", "done", "failed", "killed"}]
    BY <2>1
  <2>5. drops \in 0 .. MaxDrops /\ early \in 0 .. MaxEarly
    BY <2>1, Sizes
  <2>6. waited \in [Client -> 0 .. Patience] /\ hurried \in BOOLEAN
    <3>1. waited = [c \in Client |-> 0] /\ hurried = FALSE /\ 0 \in 0 .. Patience
      BY Sizes DEF Init
    <3>2. QED BY <3>1
  <2>7. QED BY <2>2, <2>3, <2>4, <2>5, <2>6 DEF NetTypes
<1>3. ServerTypes
  <2>1. mclient \in Client /\ out \in Datum /\ job \in Jobs
    BY NoPktType DEF Init, ServerInit, Jobs
  <2>2. got = <<>> /\ block = 1 /\ cur = 0 /\ tries = 0 /\ faults = 0 /\ spc = "start"
        /\ closed = "none"
    BY DEF Init, ServerInit
  <2>3. QED BY <1>1, <2>1, <2>2, Sizes DEF ServerTypes
<1>4. ClientTypes
  BY <1>1, Sizes DEF Init, ClientInit, ClientTypes
<1>5. QED BY <1>2, <1>3, <1>4 DEF Types

(* Every variable keeps its type; the mailbox, the buffer of a configuration *)
(* (tftp_ota_server.cpp:154) and the retries stay within their bounds.       *)
THEOREM TransferTypes == Spec => []TypeOK
<1>1. Types /\ [Next]_vars => Types'
  BY TypesStep
<1>2. QED BY <1>1, TypesInit, TypesMeanTypeOK, PTL DEF Spec
---------------------------------------------------------------------------
(* Something is stored by every job.                                         *)

StoredInv == \E f : stored = [j \in Loads |-> f[j]]

LEMMA ClosedStores ==
    ASSUME StoredInv, NEW how, NEW data, NEW then, NEW ok, OnClose(how, data, then, ok)
    PROVE  StoredInv'
<1>1. PICK f : stored = [j \in Loads |-> f[j]]
  BY DEF StoredInv
<1>2. CASE UNCHANGED stored
  BY <1>2 DEF StoredInv
<1>3. CASE job \in Loads /\ stored' = [stored EXCEPT ![job] = data]
  <2>1. stored' = [j \in Loads |-> IF j = job THEN data ELSE stored[j]]
    BY <1>1, <1>3
  <2>2. QED BY <2>1 DEF StoredInv
<1>4. QED BY <1>2, <1>3 DEF OnClose

(* Only on_close stores.                                                     *)
LEMMA StoresOnClose ==
    ASSUME [Next]_vars
    PROVE  \/ UNCHANGED stored
           \/ WriteBlock \/ WriteBroken \/ WriteTimeout
<1>1. CASE ServerStep \/ ServerTimeout \/ PowerCycle
  <2>1. CASE StartServer \/ RunUnknown \/ WriteRepeat \/ ReadNext
    BY <2>1 DEF StartServer, RunUnknown, WriteRepeat, ReadNext
  <2>2. CASE RunRequest \/ ParseAgain
    <3>1. PICK q : StartRequest(q)
      BY <2>2 DEF RunRequest, ParseAgain
    <3>2. QED BY <3>1 DEF StartRequest, StartWrite, StartRead
  <2>3. CASE ReadWrongAck \/ ReadNoAck \/ ReadTimeout
    BY <2>3 DEF ReadWrongAck, ReadNoAck, ReadTimeout, Resend
  <2>4. CASE Reboot \/ PowerCycle
    BY <2>4 DEF Reboot, PowerCycle, Boot
  <2>5. QED BY <1>1, <2>1, <2>2, <2>3, <2>4 DEF ServerStep, ServerTimeout
<1>2. QED
  BY <1>1
  DEF Next, ServerRuns, LateServer, PowerFails, Lose, StartRun, ClientRuns, ClientTimeout, Stop,
      serverVars, vars

LEMMA StoredStep == ASSUME StoredInv, [Next]_vars PROVE StoredInv'
<1>1. CASE UNCHANGED stored
  BY <1>1 DEF StoredInv
<1>2. CASE WriteBlock \/ WriteBroken \/ WriteTimeout
  <2>1. \/ UNCHANGED stored
        \/ \E how, data, then, ok : OnClose(how, data, then, ok)
    <3>1. CASE WriteBlock
      BY <3>1 DEF WriteBlock
    <3>2. CASE WriteBroken
      BY <3>2 DEF WriteBroken
    <3>3. CASE WriteTimeout
      BY <3>3 DEF WriteTimeout
    <3>4. QED BY <1>2, <3>1, <3>2, <3>3
  <2>2. QED BY <1>1, <2>1, ClosedStores
<1>3. QED BY <1>1, <1>2, StoresOnClose

LEMMA StoredHolds == Spec => []StoredInv
<1>1. Init => StoredInv
  BY DEF Init, ServerInit, StoredInv
<1>2. StoredInv /\ [Next]_vars => StoredInv'
  BY StoredStep
<1>3. QED BY <1>1, <1>2, PTL DEF Spec
=============================================================================
