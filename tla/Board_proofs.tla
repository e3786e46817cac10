---------------------------- MODULE Board_proofs ----------------------------
(* Proofs about the display and the station, for every panel, every layout   *)
(* of its rows and every length of a transfer.                               *)
EXTENDS Board, FiniteSetTheorems, FunctionTheorems, SequenceTheorems, TLAPS

Xfer == [page : Row \cup {-1}, data : Seq(Cell)]

(* A queue that sets no page but those of S.                                 *)
Goes(q, S) == q \in Seq(Xfer) /\ \A i \in 1 .. Len(q) : q[i].page \in S \cup {-1}

---------------------------------------------------------------------------
(* Quotients, also of numbers that wrap at w.                                *)

Quot(x, s) == x \div s
Steps(x, w, s) == (x % w) \div s

LEMMA Divides ==
    ASSUME NEW x \in Nat, NEW s \in Nat \ {0}
    PROVE  /\ x \div s \in Nat /\ x % s \in Nat /\ x % s < s
           /\ x = (x \div s) * s + (x % s)
OBVIOUS

LEMMA Quotient ==
    ASSUME NEW s \in Nat \ {0}, NEW q \in Nat, NEW r \in Nat, r < s
    PROVE  (q * s + r) \div s = q /\ (q * s + r) % s = r
OBVIOUS

LEMMA DivMono ==
    ASSUME NEW s \in Nat \ {0}, NEW x \in Nat, NEW d \in Nat
    PROVE  x \div s <= (x + d) \div s
OBVIOUS

LEMMA Excess ==
    ASSUME NEW r \in Nat, NEW d \in Nat, NEW w \in Nat, NEW s \in Nat, r < w, d <= s, r + d >= w
    PROVE  \E e \in Nat : r + d = w + e /\ e < s
<1>1. (r + d) - w \in Nat /\ r + d = w + ((r + d) - w) /\ (r + d) - w < s
  OBVIOUS
<1>2. QED BY <1>1

(* x in steps of s, of which w holds k: those of the rest, and k for every    *)
(* time x wraps at w.                                                        *)
LEMMA Carry ==
    ASSUME NEW k \in Nat \ {0}, NEW s \in Nat \ {0}, NEW w, w = k * s, NEW x \in Nat
    PROVE  Quot(x, s) = Quot(x, w) * k + Steps(x, w, s)
<1>0. w \in Nat \ {0}
  OBVIOUS
<1>1. PICK q \in Nat, r \in Nat : q = x \div w /\ r = x % w /\ r < w /\ x = q * w + r
  BY <1>0, Divides
<1>2. PICK p \in Nat, t \in Nat : p = r \div s /\ t = r % s /\ t < s /\ r = p * s + t
  BY Divides
<1>3. x = (q * k + p) * s + t
  <2>1. q * w = (q * k) * s /\ q * k \in Nat
    OBVIOUS
  <2>2. PICK m \in Nat : m = q * k
    BY <2>1
  <2>3. (m + p) * s = m * s + p * s
    OBVIOUS
  <2>4. m * s \in Nat /\ p * s \in Nat
    OBVIOUS
  <2>5. x = (m * s) + ((p * s) + t)
    BY <1>1, <1>2, <2>1, <2>2
  <2>6. (m * s) + ((p * s) + t) = (m + p) * s + t
    BY <2>3, <2>4
  <2>7. QED BY <2>2, <2>5, <2>6
<1>4. q * k + p \in Nat
  OBVIOUS
<1>5. PICK z \in Nat : z = q * k + p
  BY <1>4
<1>6. (z * s + t) \div s = z
  BY <1>2, Quotient
<1>7. QED BY ONLY <1>1, <1>2, <1>3, <1>5, <1>6 DEF Quot, Steps

(* x and y at most a step apart: either they wrap as often, or x is in the   *)
(* last step before the wrap and y in the first behind it.                   *)
LEMMA NextStep ==
    ASSUME NEW k \in Nat \ {0}, NEW s \in Nat \ {0}, NEW w, w = k * s,
           NEW x \in Nat, NEW y \in Nat, x <= y, y <= x + s
    PROVE  \/ Quot(y, w) = Quot(x, w) /\ Steps(x, w, s) <= Steps(y, w, s)
           \/ /\ Quot(y, w) = Quot(x, w) + 1
              /\ Steps(x, w, s) = k - 1 /\ Steps(y, w, s) = 0
<1>1. w \in Nat \ {0} /\ s <= w
  OBVIOUS
<1>2. PICK q \in Nat, r \in Nat : q = x \div w /\ r = x % w /\ r < w /\ x = q * w + r
  BY <1>1, Divides
<1>3. PICK d \in Nat : y = x + d /\ d <= s
  OBVIOUS
<1>4. q * w \in Nat
  BY <1>1
<1>5. CASE r + d < w
  <2>1. y = q * w + (r + d) /\ r + d \in Nat
    BY <1>2, <1>3, <1>4
  <2>2. y \div w = q /\ y % w = r + d
    BY <1>1, <1>5, <2>1, Quotient
  <2>3. r \div s <= (r + d) \div s
    BY ONLY DivMono, s \in Nat \ {0}, r \in Nat, d \in Nat
  <2>4. QED BY ONLY <1>2, <2>2, <2>3 DEF Quot, Steps
<1>6. CASE r + d >= w
  <2>1. PICK e \in Nat : r + d = w + e /\ e < s
    <3>1. r < w /\ d <= s /\ w \in Nat /\ s \in Nat
      BY <1>1, <1>2, <1>3
    <3>2. QED BY ONLY <1>6, <3>1, Excess, r \in Nat, d \in Nat
  <2>2. y = (q + 1) * w + e
    <3>1. (q + 1) * w = q * w + w
      BY <1>1
    <3>2. QED BY <1>2, <1>3, <1>4, <2>1, <3>1
  <2>3. y \div w = q + 1 /\ y % w = e
    <3>1. q + 1 \in Nat /\ e < w
      BY <1>1, <2>1
    <3>2. QED BY <1>1, <2>2, <3>1, Quotient
  <2>4. e \div s = 0
    BY <2>1
  <2>5. r \div s = k - 1
    <3>1. PICK j \in Nat : j = k - 1
      OBVIOUS
    <3>2. w = j * s + s
      <4>1. (j + 1) * s = j * s + s /\ j + 1 = k
        BY <3>1
      <4>2. QED BY <4>1
    <3>3. j * s \in Nat
      OBVIOUS
    <3>4. PICK t \in Nat : r = j * s + t /\ t < s
      <4>1. PICK m \in Nat : m = j * s
        BY <3>3
      <4>2. r - m \in Nat /\ r = m + (r - m) /\ r - m < s
        BY ONLY <1>2, <1>3, <1>6, <3>2, <4>1, r \in Nat, d \in Nat, s \in Nat \ {0}
      <4>3. QED BY <4>1, <4>2
    <3>5. QED BY <3>1, <3>4, Quotient
  <2>6. QED BY ONLY <1>2, <2>3, <2>4, <2>5 DEF Quot, Steps
<1>7. QED BY <1>1, <1>2, <1>3, <1>5, <1>6

LEMMA PaceNoWrap ==
    ASSUME NEW a \in Nat, NEW b \in Nat, NEW w \in Nat \ {0}, NEW s \in Nat \ {0}, a <= b, b < w
    PROVE  /\ Steps(a, w, s) = Quot(a, s) /\ Steps(b, w, s) = Quot(b, s)
           /\ Quot(a, s) <= Quot(b, s) /\ Quot(a, w) = 0 /\ Quot(b, w) = 0
<1>1. a % w = a /\ b % w = b /\ a \div w = 0 /\ b \div w = 0
  OBVIOUS
<1>2. a \div s <= b \div s
  OBVIOUS
<1>3. QED BY ONLY <1>1, <1>2 DEF Quot, Steps

LEMMA QuotType ==
    ASSUME NEW x \in Nat, NEW s \in Nat \ {0} PROVE Quot(x, s) \in Nat
BY Divides DEF Quot

LEMMA StepsType ==
    ASSUME NEW x \in Nat, NEW w \in Nat \ {0}, NEW s \in Nat \ {0}
    PROVE  Steps(x, w, s) \in Nat
<1>1. PICK r \in Nat : r = x % w
  BY Divides
<1>2. QED BY ONLY <1>1, Divides, s \in Nat \ {0} DEF Steps

(* Numbers of two digits, of which the last is below s (w may reach s).      *)
LEMMA Digits ==
    ASSUME NEW s \in Nat \ {0}, NEW p \in Nat, NEW q \in Nat, NEW c \in 0 .. s - 1, NEW w \in 0 .. s
    PROVE  /\ p * s + c \in Nat /\ q * s + w \in Nat
           /\ p * s + c < q * s + w <=> p < q \/ (p = q /\ c < w)
<1>1. p * s \in Nat /\ q * s \in Nat
  OBVIOUS
<1>2. ASSUME NEW a \in Nat, NEW b \in Nat, a < b PROVE a * s + s <= b * s
  <2>1. PICK d \in Nat : b = (a + 1) + d
    <3>1. b - (a + 1) \in Nat /\ b = (a + 1) + (b - (a + 1))
      BY <1>2
    <3>2. QED BY <3>1
  <2>2. b * s = (a + 1) * s + d * s /\ (a + 1) * s = a * s + s
    BY <2>1
  <2>3. d * s \in Nat /\ a * s \in Nat
    OBVIOUS
  <2>4. QED BY <2>2, <2>3
<1>3. CASE p < q
  <2>1. p * s + s <= q * s
    BY <1>2, <1>3
  <2>2. QED BY <1>1, <1>3, <2>1
<1>4. CASE p = q
  BY <1>1, <1>4
<1>5. CASE p > q
  <2>1. q * s + s <= p * s
    BY <1>2, <1>5
  <2>2. QED BY <1>1, <1>5, <2>1
<1>6. QED BY <1>3, <1>4, <1>5

(* The address of a column in a row where another has it.                    *)
LEMMA Offset ==
    ASSUME NEW s \in Nat \ {0}, NEW c \in 0 .. s - 1, NEW k \in 0 .. s - 1
    PROVE  (c - k) % s \in 0 .. s - 1 /\ ((c - k) % s = 0 <=> c = k)
<1>1. CASE c >= k
  OBVIOUS
<1>2. CASE c < k
  OBVIOUS
<1>3. QED BY <1>1, <1>2

USE PanelAssumption, BoardAssumption

---------------------------------------------------------------------------
(* What the driver's calls send.                                             *)

LEMMA GoesConcat ==
    ASSUME NEW q, NEW r, NEW S, Goes(q, S), Goes(r, S) PROVE Goes(q \o r, S)
<1>1. q \in Seq(Xfer) /\ r \in Seq(Xfer)
  BY DEF Goes
<1>2. q \o r \in Seq(Xfer) /\ Len(q \o r) = Len(q) + Len(r)
  BY <1>1
<1>3. ASSUME NEW i \in 1 .. Len(q \o r) PROVE (q \o r)[i].page \in S \cup {-1}
  <2>1. CASE i <= Len(q)
    <3>1. (q \o r)[i] = q[i] /\ i \in 1 .. Len(q)
      BY <1>1, <2>1
    <3>2. QED BY <3>1 DEF Goes
  <2>2. CASE i > Len(q)
    <3>1. (q \o r)[i] = r[i - Len(q)] /\ i - Len(q) \in 1 .. Len(r)
      BY <1>1, <1>2, <2>2
    <3>2. QED BY <3>1 DEF Goes
  <2>3. QED BY <1>1, <1>2, <2>1, <2>2
<1>4. QED BY <1>2, <1>3 DEF Goes

LEMMA GoesTail ==
    ASSUME NEW q, NEW S, Goes(q, S), q # <<>>
    PROVE  Goes(Tail(q), S) /\ Head(q) \in Xfer /\ Head(q).page \in S \cup {-1}
<1>1. q \in Seq(Xfer) /\ Len(q) \in Nat \ {0}
  BY DEF Goes
<1>2. Tail(q) \in Seq(Xfer) /\ Len(Tail(q)) = Len(q) - 1 /\ Head(q) = q[1]
  BY <1>1
<1>3. ASSUME NEW i \in 1 .. Len(Tail(q)) PROVE Tail(q)[i].page \in S \cup {-1}
  <2>1. Tail(q)[i] = q[i + 1] /\ i + 1 \in 1 .. Len(q)
    BY <1>1, <1>2
  <2>2. QED BY <2>1 DEF Goes
<1>4. 1 \in 1 .. Len(q) /\ q[1] \in Xfer
  BY <1>1
<1>5. QED BY <1>2, <1>3, <1>4 DEF Goes

LEMMA GoesNowhere == ASSUME NEW S PROVE Goes(<<>>, S)
BY DEF Goes

LEMMA DataXfer == ASSUME NEW d \in Seq(Cell) PROVE Data(d) \in Xfer /\ Data(d).page = -1
BY DEF Data, Xfer

LEMMA SetPageXfer ==
    ASSUME NEW r \in Row PROVE SetPage(r) \in Xfer /\ SetPage(r).page = r
BY DEF SetPage, Xfer

LEMMA OneXfer ==
    ASSUME NEW x \in Xfer, NEW S, x.page \in S \cup {-1} PROVE Goes(<<x>>, S)
<1>1. <<x>> \in Seq(Xfer) /\ Len(<<x>>) = 1 /\ <<x>>[1] = x
  OBVIOUS
<1>2. QED BY <1>1 DEF Goes

LEMMA RunType == ASSUME NEW c \in Cell, NEW n \in Nat PROVE Run(c, n) \in Seq(Cell)
BY DEF Run

LEMMA CellType ==
    /\ {Blank, ApText, StaText, MsgText} \subseteq Cell /\ 0 .. Bits \subseteq Cell
    /\ Cell \subseteq Nat
BY DEF Cell, Blank, ApText, StaText, MsgText

LEMMA CharColsType == CharCols \in Nat \ {0} /\ Cols \in Nat \ {0} /\ CharCols <= Cols
OBVIOUS

(* A row of text sets its own page first, and no other.                      *)
LEMMA RowGoes ==
    ASSUME NEW r \in Row, NEW c \in Cell, NEW n \in {0, 1}
    PROVE  /\ DrawRow(r, c, n) \in Seq(Xfer) /\ Len(DrawRow(r, c, n)) = n + 2
           /\ Goes(DrawRow(r, c, n), {r})
<1> DEFINE chars == [i \in 1 .. n |-> Data(Run(c, CharCols))]
           rest == Data(Run(Blank, Cols - n * CharCols))
<1>1. Data(Run(c, CharCols)) \in Xfer /\ Data(Run(c, CharCols)).page = -1
  BY CharColsType, RunType, DataXfer
<1>2. chars \in Seq(Xfer) /\ Len(chars) = n
  BY <1>1
<1>3. \A i \in 1 .. Len(chars) : chars[i] = Data(Run(c, CharCols))
  BY <1>2
<1>4. Goes(chars, {r})
  BY ONLY <1>1, <1>2, <1>3 DEF Goes
<1>5. rest \in Xfer /\ rest.page = -1
  <2>1. Cols - n * CharCols \in Nat
    BY CharColsType
  <2>2. Blank \in Cell
    BY CellType
  <2>3. QED BY <2>1, <2>2, RunType, DataXfer
<1>6. Goes(<<SetPage(r)>>, {r}) /\ Goes(<<rest>>, {r})
  BY <1>5, SetPageXfer, OneXfer
<1>7. Goes(<<SetPage(r)>> \o chars \o <<rest>>, {r})
  BY ONLY <1>4, <1>6, GoesConcat
<1>8. Len(<<SetPage(r)>> \o chars \o <<rest>>) = n + 2
  BY <1>2, <1>5, SetPageXfer
<1>9. QED BY <1>7, <1>8 DEF DrawRow, Goes

(* Rows of text set the pages of these rows only.                            *)
LEMMA RowsGo ==
    ASSUME NEW from \in Nat, NEW to \in 0 .. Rows, from <= to, NEW c \in Cell, NEW n \in {0, 1}
    PROVE  Goes(DrawRows(from, to, c, n), from .. to - 1)
<1> DEFINE m == n + 2
           len == (to - from) * m
           q == [i \in 1 .. len |-> DrawRow(from + (i - 1) \div m, c, n)[((i - 1) % m) + 1]]
<1>1. len \in Nat /\ m \in {2, 3}
  OBVIOUS
<1>2. ASSUME NEW i \in 1 .. len
      PROVE  q[i] \in Xfer /\ q[i].page \in (from .. to - 1) \cup {-1}
  <2> DEFINE k == (i - 1) \div m
             j == ((i - 1) % m) + 1
  <2>1. k \in Nat /\ j \in 1 .. m /\ k < to - from
    BY <1>1
  <2>2. from + k \in from .. to - 1 /\ from + k \in Row
    BY <2>1 DEF Row
  <2>3. Goes(DrawRow(from + k, c, n), {from + k}) /\ Len(DrawRow(from + k, c, n)) = m
    BY <2>2, RowGoes
  <2>4. /\ DrawRow(from + k, c, n)[j] \in Xfer
        /\ DrawRow(from + k, c, n)[j].page \in {from + k} \cup {-1}
    <3>1. ASSUME NEW s, NEW S, Goes(s, S), j \in 1 .. Len(s)
          PROVE  s[j] \in Xfer /\ s[j].page \in S \cup {-1}
      <4> HIDE DEF j
      <4>1. QED BY ONLY <3>1 DEF Goes
    <3>2. j \in 1 .. Len(DrawRow(from + k, c, n))
      BY <2>1, <2>3
    <3>3. QED BY ONLY <2>3, <3>1, <3>2, Zenon
  <2>5. q[i] = DrawRow(from + k, c, n)[j]
    OBVIOUS
  <2>6. QED BY ONLY <2>2, <2>4, <2>5
<1>3. q \in Seq(Xfer) /\ Len(q) = len
  BY <1>1, <1>2
<1>4. Goes(q, from .. to - 1)
  BY ONLY <1>2, <1>3 DEF Goes
<1>5. QED BY <1>4 DEF DrawRows

---------------------------------------------------------------------------
(* Where the indicator is after a number of ticks, until it is full.         *)

Progress ==
    /\ piRow \in PiStart .. Rows - 1 /\ piData \in 1 .. Bits /\ piCount \in Col
    /\ ticks = ((piRow - PiStart) * Bits + (piData - 1)) * Cols + piCount

BarInv == ticks \in Nat /\ ((Moving /\ ticks < TotalPi) => Progress)

LEMMA Sizes ==
    /\ Rows \in Nat \ {0} /\ Bits \in Nat \ {0} /\ Cols \in Nat \ {0}
    /\ PiStart \in Nat /\ PiStart < Rows /\ TotalPi \in Nat
    /\ TotalPi = ((Rows - PiStart) * Bits) * Cols
<1>1. Rows - PiStart \in Nat /\ Bits \in Nat /\ Cols \in Nat
  OBVIOUS
<1>2. \A a \in Nat : \A b \in Nat : a * b \in Nat
  OBVIOUS
<1>3. (Rows - PiStart) * Bits \in Nat
  BY <1>1, <1>2
<1>4. ((Rows - PiStart) * Bits) * Cols \in Nat
  BY <1>1, <1>2, <1>3
<1>5. QED BY <1>4 DEF TotalPi

(* Passes over a row are counted one by one, from row to row.                *)
LEMMA NextPass ==
    ASSUME NEW r \in Int, NEW b \in Int, r >= PiStart
    PROVE  /\ b = Bits => ((r + 1) - PiStart) * Bits + 0 = (r - PiStart) * Bits + (b - 1) + 1
           /\ (r - PiStart) * Bits + b = (r - PiStart) * Bits + (b - 1) + 1
<1>1. ((r + 1) - PiStart) * Bits = (r - PiStart) * Bits + Bits
  <2>1. \A x \in Int : \A y \in Int : (x + 1) * y = x * y + y
    OBVIOUS
  <2>2. r - PiStart \in Int /\ Bits \in Int /\ (r + 1) - PiStart = (r - PiStart) + 1
    BY Sizes
  <2>3. QED BY <2>1, <2>2
<1>2. (r - PiStart) * Bits \in Int
  BY Sizes
<1>3. QED BY <1>1, <1>2, Sizes

LEMMA TickStep ==
    ASSUME Progress, IncPi("main"), ticks \in Nat, ticks' = ticks + 1, ticks' < TotalPi
    PROVE  Progress' /\ (RowIsFull => NextRow \in PiStart .. Rows - 1)
<1> DEFINE p == (piRow - PiStart) * Bits + (piData - 1)
<1>1. /\ piRow \in Nat /\ piData \in Nat /\ piCount \in Nat /\ piRow >= PiStart
      /\ piRow < Rows /\ piData >= 1 /\ piData <= Bits /\ piCount < Cols
      /\ ticks = p * Cols + piCount
  BY Sizes DEF Progress, Col
<1>2. p \in Int
  BY <1>1, Sizes
<1>3. CASE ~RowIsFull
  <2>1. piCount' = piCount + 1 /\ piRow' = piRow /\ piData' = piData
    BY <1>3 DEF IncPi
  <2>2. piCount + 1 \in Col
    BY <1>1, <1>3, Sizes DEF RowIsFull, Col
  <2>3. ticks' = p * Cols + (piCount + 1)
    <3>1. p * Cols \in Int
      BY <1>2, Sizes
    <3>2. QED BY <1>1, <3>1
  <2>4. QED BY <1>1, <1>3, <2>1, <2>2, <2>3 DEF Progress
<1>4. CASE RowIsFull
  <2>1. ticks' = (p + 1) * Cols
    <3>1. piCount + 1 = Cols
      BY <1>1, <1>4, Sizes DEF RowIsFull
    <3>2. (p + 1) * Cols = p * Cols + Cols /\ p * Cols \in Int
      <4>1. \A x \in Int : \A y \in Int : (x + 1) * y = x * y + y
        OBVIOUS
      <4>2. QED BY <1>2, <4>1, Sizes
    <3>3. QED BY <1>1, <3>1, <3>2
  <2>2. 0 \in Col
    BY Sizes DEF Col
  <2>3. CASE piData # Bits
    <3>1. NextRow = piRow /\ PiRowOf(piRow) = piRow
      BY <1>1, <2>3, Sizes DEF NextRow, PiRowOf
    <3>2. piRow' = piRow /\ piCount' = 0 /\ piData' = piData + 1
      BY <1>4, <2>3, <3>1 DEF IncPi
    <3>3. piData + 1 \in 1 .. Bits
      BY <1>1, <2>3, Sizes
    <3>4. (piRow - PiStart) * Bits + piData = p + 1
      BY <1>1, NextPass
    <3>5. ticks' = ((piRow' - PiStart) * Bits + (piData' - 1)) * Cols + piCount'
      <4>1. piData' - 1 = piData
        BY <1>1, <3>2
      <4>2. (p + 1) * Cols + 0 = (p + 1) * Cols
        BY <1>2, Sizes
      <4>3. QED BY <2>1, <3>2, <3>4, <4>1, <4>2
    <3>6. QED BY <1>1, <2>2, <3>1, <3>2, <3>3, <3>5 DEF Progress
  <2>4. CASE piData = Bits
    <3>1. ((piRow + 1) - PiStart) * Bits + 0 = p + 1
      BY <1>1, <2>4, NextPass
    <3>2. NextRow = piRow + 1
      BY <2>4 DEF NextRow
    <3>3. piRow + 1 < Rows
      <4>1. SUFFICES ASSUME piRow + 1 = Rows PROVE FALSE
        BY <1>1, Sizes
      <4>2. (Rows - PiStart) * Bits = p + 1
        <5>1. (piRow + 1) - PiStart = Rows - PiStart /\ (Rows - PiStart) * Bits \in Int
          <6>1. (piRow + 1) - PiStart = Rows - PiStart
            BY ONLY <4>1, Zenon
          <6>2. Rows - PiStart \in Int /\ Bits \in Int
            BY Sizes
          <6>3. \A x \in Int : \A y \in Int : x * y \in Int
            OBVIOUS
          <6>4. QED BY ONLY <6>1, <6>2, <6>3
        <5>2. \A x \in Int : x + 0 = x
          OBVIOUS
        <5>3. (Rows - PiStart) * Bits + 0 = p + 1
          BY ONLY <3>1, <5>1, Zenon
        <5>4. QED BY ONLY <5>1, <5>2, <5>3
      <4>3. ticks' = TotalPi
        BY <2>1, <4>2, Sizes
      <4>4. QED BY <4>3, Sizes
    <3>4. piRow' = piRow + 1 /\ piCount' = 0 /\ piData' = 1
      <4>1. PiRowOf(piRow + 1) = piRow + 1
        BY <1>1, <3>3, Sizes DEF PiRowOf
      <4>2. QED BY <1>4, <2>4, <3>2, <4>1 DEF IncPi
    <3>5. ticks' = ((piRow' - PiStart) * Bits + (piData' - 1)) * Cols + piCount'
      <4>1. piData' - 1 = 0 /\ (p + 1) * Cols + 0 = (p + 1) * Cols
        BY <1>2, <3>4, Sizes
      <4>2. (piRow' - PiStart) * Bits + (piData' - 1) = p + 1
        <5>1. piRow' - PiStart = (piRow + 1) - PiStart /\ piData' - 1 = 0
          BY ONLY <3>4, <4>1
        <5>2. (piRow' - PiStart) * Bits + (piData' - 1) = ((piRow + 1) - PiStart) * Bits + 0
          BY ONLY <5>1, Zenon
        <5>3. QED BY ONLY <3>1, <5>2, Zenon
      <4>3. QED BY ONLY <2>1, <3>4, <4>1, <4>2
    <3>6. QED BY <1>1, <2>2, <3>2, <3>3, <3>4, <3>5, Sizes DEF Progress
  <2>5. QED BY <2>3, <2>4
<1>5. QED BY <1>3, <1>4

---------------------------------------------------------------------------
(* The queues.                                                               *)

BusInv ==
    /\ panel \in [Row -> [Col -> Cell]] /\ page \in Row /\ col \in Col
    /\ DOMAIN todo = Task /\ \A t \in Task : todo[t] \in Seq(Xfer)

Below == ApRow + 3 .. Rows    \* rows behind the access point's

LEMMA Layout ==
    /\ ApRow \in Nat /\ StaRow \in Nat /\ MsgRow \in Nat /\ PiStart \in Nat
    /\ ApRow + 2 < StaRow /\ StaRow + 1 < MsgRow /\ MsgRow < PiStart /\ PiStart < Rows
    /\ ApRows \subseteq Row /\ {"main", "event"} = Task
    /\ \A r \in Below : r \notin ApRows
    /\ -1 \notin ApRows /\ Chars \in {0, 1}
    /\ {Blank, ApText, StaText, MsgText} \subseteq Cell
    /\ {ApRow, StaRow, MsgRow, PiStart} \subseteq Row
    /\ {ApRow + 3, StaRow + 2, MsgRow + 2} \subseteq 0 .. Rows
BY Sizes, CellType DEF ApRows, Row, Below, Chars, Blank, ApText, StaText, MsgText

LEMMA GoesMore ==
    ASSUME NEW q, NEW S, NEW T, Goes(q, S), S \subseteq T PROVE Goes(q, T)
BY DEF Goes

LEMMA ErrorGoes == Goes(ErrorMsg, Below)
<1>1. Goes(ErrorMsg, MsgRow .. (MsgRow + 2) - 1)
  BY Layout, RowsGo DEF ErrorMsg
<1>2. MsgRow .. (MsgRow + 2) - 1 \subseteq Below
  BY Layout, Sizes DEF Below
<1>3. QED BY ONLY <1>1, <1>2, GoesMore

LEMMA WaitingGoes == Goes(DrawRow(MsgRow, MsgText, Chars), Below)
<1>1. Goes(DrawRow(MsgRow, MsgText, Chars), {MsgRow})
  BY Layout, RowGoes
<1>2. {MsgRow} \subseteq Below
  BY Layout, Sizes DEF Below
<1>3. QED BY ONLY <1>1, <1>2, GoesMore

LEMMA StaGoes == Goes(DrawRows(StaRow, StaRow + 2, StaText, Chars), Below)
<1>1. Goes(DrawRows(StaRow, StaRow + 2, StaText, Chars), StaRow .. (StaRow + 2) - 1)
  BY Layout, RowsGo
<1>2. StaRow .. (StaRow + 2) - 1 \subseteq Below
  BY Layout, Sizes DEF Below
<1>3. QED BY ONLY <1>1, <1>2, GoesMore

LEMMA ClearGoes == ASSUME NEW r \in 0 .. Rows PROVE Goes(ClearFrom(r), r .. Rows - 1)
BY Layout, Sizes, RowsGo DEF ClearFrom

LEMMA PiRowGoes ==
    ASSUME NEW r \in PiStart .. Rows - 1 PROVE Goes(SetupPiRow(r), Below)
<1>1. SetupPiRow(r) = <<>> \o <<SetPage(r)>>
  <2>1. ~(r >= Rows)
    BY Layout, Sizes
  <2>2. PiRowOf(r) = r
    BY ONLY <2>1, Zenon DEF PiRowOf
  <2>3. QED BY ONLY <2>1, <2>2, Zenon DEF SetupPiRow
<1>2. Goes(<<SetPage(r)>>, {r})
  <2>1. r \in Row
    BY Layout, Sizes DEF Row
  <2>2. QED BY <2>1, SetPageXfer, OneXfer
<1>3. {r} \subseteq Below
  BY Layout, Sizes DEF Below
<1>4. QED BY ONLY <1>1, <1>2, <1>3, GoesMore, GoesNowhere, GoesConcat

(* Wherever the indicator goes, what is sent are transfers.                  *)
LEMMA PiRowSends == ASSUME NEW r \in Nat PROVE SetupPiRow(r) \in Seq(Xfer)
<1>1. PiRowOf(r) \in Row
  BY Sizes DEF PiRowOf, Row
<1>2. Goes(<<SetPage(PiRowOf(r))>>, {PiRowOf(r)})
  BY <1>1, SetPageXfer, OneXfer
<1>3. 0 \in 0 .. Rows
  BY Sizes
<1>4. ClearFrom(0) \in Seq(Xfer) /\ <<SetPage(PiRowOf(r))>> \in Seq(Xfer)
  BY <1>2, <1>3, ClearGoes DEF Goes
<1>5. QED BY <1>4 DEF SetupPiRow

(* A call that sends nothing to the access point's rows leaves them alone.   *)
LEMMA DrawsLeaves ==
    ASSUME NEW t \in Task, NEW xs, BusInv, ApShown, ApLeft, Draws(t, xs), Goes(xs, Below)
    PROVE  ApShown' /\ ApLeft'
<1>1. panel' = panel /\ page' = page /\ ApShown'
  BY DEF Draws, Calls, ApShown
<1>2. PICK ys : todo' = [todo EXCEPT ![t] = ys] /\ Goes(ys, Below)
  BY GoesNowhere DEF Draws, Calls
<1>3. ASSUME NEW u \in Task, NEW i \in 1 .. Len(todo'[u]) PROVE todo'[u][i].page \notin ApRows
  <2>1. CASE u = t
    <3>1. todo'[u] = ys
      BY <1>2, <2>1 DEF BusInv
    <3>2. ys[i].page \in Below \cup {-1}
      BY <1>2, <1>3, <3>1 DEF Goes
    <3>3. QED BY <3>1, <3>2, Layout
  <2>2. CASE u # t
    <3>1. todo'[u] = todo[u]
      BY <1>2, <2>2 DEF BusInv
    <3>2. QED BY <1>3, <3>1 DEF ApLeft
  <2>3. QED BY <2>1, <2>2
<1>4. QED BY <1>1, <1>3 DEF ApLeft

(* So do the transfers of such calls, and the failing ones.                  *)
LEMMA TailLeaves ==
    ASSUME NEW t \in Task, BusInv, ApLeft, todo[t] # <<>>, todo' = [todo EXCEPT ![t] = Tail(@)],
           page' \notin ApRows
    PROVE  ApLeft'
<1>1. todo[t] \in Seq(Xfer) /\ todo'[t] = Tail(todo[t])
  BY DEF BusInv
<1>2. ASSUME NEW u \in Task, NEW i \in 1 .. Len(todo'[u]) PROVE todo'[u][i].page \notin ApRows
  <2>1. CASE u = t
    <3> DEFINE q == todo[t]
    <3>1. todo'[u] = Tail(q) /\ q \in Seq(Xfer) /\ q # <<>>
      BY <1>1, <2>1
    <3>2. i \in 1 .. Len(Tail(q))
      BY <1>2, <3>1
    <3>3. Tail(q)[i] = q[i + 1] /\ i + 1 \in 1 .. Len(q)
      BY ONLY <3>1, <3>2
    <3>4. QED BY <3>1, <3>3 DEF ApLeft
  <2>2. CASE u # t
    <3>1. todo'[u] = todo[u]
      BY <2>2 DEF BusInv
    <3>2. QED BY <1>2, <3>1 DEF ApLeft
  <2>3. QED BY <2>1, <2>2
<1>3. QED BY <1>2 DEF ApLeft

LEMMA TransferLeaves ==
    ASSUME NEW t \in Task, BusInv, ApShown, ApLeft, Transfer(t) PROVE ApShown' /\ ApLeft'
<1> DEFINE x == Head(todo[t])
<1>1. todo[t] # <<>> /\ todo' = [todo EXCEPT ![t] = Tail(@)]
  BY DEF Transfer
<1>2. x = todo[t][1] /\ 1 \in 1 .. Len(todo[t])
  BY <1>1 DEF BusInv
<1>3. x.page \notin ApRows /\ page \notin ApRows
  BY <1>2 DEF ApLeft
<1>4. CASE x.page >= 0
  <2>1. page' = x.page /\ panel' = panel
    BY <1>4 DEF Transfer
  <2>2. QED BY <1>1, <1>3, <2>1, TailLeaves DEF ApShown
<1>5. CASE ~(x.page >= 0)
  <2>1. page' = page /\ panel' = [panel EXCEPT ![page] = Shown(x.data, page)]
    BY <1>5 DEF Transfer
  <2>2. \A r \in ApRows : panel'[r] = panel[r]
    BY <1>3, <2>1, Layout DEF BusInv
  <2>3. ApShown'
    BY <2>2 DEF ApShown
  <2>4. QED BY <1>1, <1>3, <2>1, <2>3, TailLeaves
<1>6. QED BY <1>4, <1>5

---------------------------------------------------------------------------
(* The invariant: what the bus carries, where the indicator is, and how the  *)
(* reconnects are counted.                                                   *)

PiType == piRow \in Row /\ piData \in 0 .. Bits /\ piCount \in Col

StaInv ==
    /\ retry \in 0 .. MaxRetry /\ fails \in Nat /\ retry <= fails
    /\ sta = "failed" => fails > MaxRetry

BoardInv == BusInv /\ PiType /\ BarInv /\ StaInv

LEMMA DrawsKeeps ==
    ASSUME NEW t \in Task, NEW xs \in Seq(Xfer), BusInv, Draws(t, xs) PROVE BusInv'
<1>1. PICK ys \in Seq(Xfer) :
        todo' = [todo EXCEPT ![t] = ys] /\ UNCHANGED <<panel, page, col>>
  BY GoesNowhere DEF Draws, Calls, Goes
<1>2. QED BY <1>1 DEF BusInv

LEMMA StartGoes ==
    Goes(DrawRow(MsgRow, MsgText, Chars) \o ClearFrom(PiStart) \o SetupPiRow(PiStart), Below)
<1>1. PiStart \in PiStart .. Rows - 1 /\ PiStart \in 0 .. Rows
      /\ PiStart .. Rows - 1 \subseteq Below
  BY Layout, Sizes DEF Below
<1>2. Goes(ClearFrom(PiStart), Below)
  BY <1>1, ClearGoes, GoesMore
<1>3. Goes(SetupPiRow(PiStart), Below)
  BY <1>1, PiRowGoes
<1>4. QED BY ONLY <1>2, <1>3, WaitingGoes, GoesConcat

LEMMA StartStep ==
    ASSUME NEW j \in Job, BoardInv, StartTransfer(j) PROVE BoardInv'
<1>1. PiRowOf(PiStart) = PiStart /\ 0 \in Col /\ 1 \in 1 .. Bits /\ PiStart \in PiStart .. Rows - 1
  BY Layout, Sizes DEF PiRowOf, Col
<1>2. /\ piRow' = PiStart /\ piData' = 1 /\ piCount' = 0 /\ ticks' = 0
      /\ UNCHANGED staVars
  BY <1>1 DEF StartTransfer, StartPi
<1>3. BusInv'
  <2> DEFINE xs == DrawRow(MsgRow, MsgText, Chars) \o ClearFrom(PiStart) \o SetupPiRow(PiStart)
  <2>1. Draws("main", xs)
    BY DEF StartTransfer, StartPi
  <2>2. xs \in Seq(Xfer)
    BY StartGoes DEF Goes
  <2>3. BusInv /\ "main" \in Task
    BY Layout DEF BoardInv
  <2>4. QED BY ONLY <2>1, <2>2, <2>3, DrawsKeeps
<1>4. PiType'
  <2>1. PiStart \in Row /\ 1 \in 0 .. Bits /\ 0 \in Col
    BY Layout, Sizes DEF Col
  <2>2. QED BY ONLY <1>2, <2>1 DEF PiType
<1>5. StaInv'
  <2>1. StaInv /\ retry' = retry /\ fails' = fails /\ sta' = sta
    BY <1>2 DEF BoardInv, staVars
  <2>2. QED BY ONLY <2>1 DEF StaInv
<1>6. BarInv'
  <2>1. ((PiStart - PiStart) * Bits + (1 - 1)) * Cols + 0 = 0
    <3>1. PiStart - PiStart = 0 /\ 0 * Bits = 0 /\ 0 * Cols = 0
      BY Sizes
    <3>2. QED BY <3>1
  <2>2. Progress'
    BY <1>1, <1>2, <2>1, Sizes DEF Progress
  <2>3. QED BY <1>2, <2>2 DEF BarInv
<1>7. QED BY <1>3, <1>4, <1>5, <1>6 DEF BoardInv

(* What a tick sends, and where to while the indicator is not full.          *)
LEMMA TickGoes ==
    ASSUME BoardInv, Tick
    PROVE  \E xs \in Seq(Xfer) :
             /\ Draws("main", xs)
             /\ ticks' < TotalPi => Goes(xs, Below)
<1>1. /\ IncPi("main") /\ ticks' = ticks + 1 /\ Moving
      /\ piRow \in Nat /\ piData \in 0 .. Bits /\ ticks \in Nat
  BY DEF Tick, BoardInv, PiType, BarInv, Row
<1>2. ticks' < TotalPi => (RowIsFull => NextRow \in PiStart .. Rows - 1)
  BY <1>1, Sizes, TickStep DEF BoardInv, BarInv
<1>3. ASSUME NEW d \in 0 .. Bits PROVE Goes(<<Data(<<d>>)>>, Below)
  <2>1. <<d>> \in Seq(Cell)
    BY CellType
  <2>2. QED BY <2>1, DataXfer, OneXfer
<1>4. CASE ~RowIsFull
  <2>1. Draws("main", <<Data(<<piData>>)>>)
    BY <1>1, <1>4 DEF IncPi
  <2>2. QED BY <1>1, <1>3, <2>1 DEF Goes
<1>5. CASE RowIsFull
  <2> DEFINE q == SetupPiRow(NextRow)
             d == <<Data(<<piData'>>)>>
  <2>1. Draws("main", q \o d) /\ piData' \in 0 .. Bits
    BY <1>1, <1>5, Sizes DEF IncPi
  <2>2. NextRow \in Nat
    BY <1>1 DEF NextRow
  <2>3. q \in Seq(Xfer) /\ d \in Seq(Xfer) /\ Goes(d, Below)
    BY <1>3, <2>1, <2>2, PiRowSends DEF Goes
  <2>4. q \o d \in Seq(Xfer)
    BY ONLY <2>3
  <2>5. ASSUME ticks' < TotalPi PROVE Goes(q \o d, Below)
    <3>1. Goes(q, Below)
      BY <1>2, <1>5, <2>5, PiRowGoes
    <3>2. QED BY ONLY <2>3, <3>1, GoesConcat
  <2>6. QED BY ONLY <2>1, <2>4, <2>5
<1>6. QED BY <1>4, <1>5

LEMMA TickKeeps == ASSUME BoardInv, Tick PROVE BoardInv'
<1>1. /\ IncPi("main") /\ ticks' = ticks + 1 /\ ticks \in Nat /\ Moving
      /\ UNCHANGED staVars /\ PiType
  BY Sizes DEF Tick, BoardInv, BarInv
<1>2. BusInv'
  <2>1. PICK xs \in Seq(Xfer) : Draws("main", xs)
    BY TickGoes
  <2>2. QED BY <2>1, DrawsKeeps, Layout DEF BoardInv
<1>3. PiType'
  <2>1. NextRow \in Nat
    BY <1>1, Sizes DEF PiType, NextRow, Row
  <2>2. PiRowOf(NextRow) \in Row /\ 0 \in Col
    BY <2>1, Sizes DEF PiRowOf, Row, Col
  <2>3. CASE RowIsFull
    BY <1>1, <2>2, <2>3, Sizes DEF IncPi, PiType
  <2>4. CASE ~RowIsFull
    <3>1. piCount + 1 \in Col
      BY <1>1, <2>4, Sizes DEF PiType, RowIsFull, Col
    <3>2. QED BY <1>1, <2>4, <3>1 DEF IncPi, PiType
  <2>5. QED BY <2>3, <2>4
<1>4. BarInv'
  <2>1. ticks' < TotalPi => Progress'
    BY <1>1, Sizes, TickStep DEF BoardInv, BarInv
  <2>2. QED BY <1>1, <2>1 DEF BarInv
<1>5. StaInv'
  BY <1>1 DEF BoardInv, StaInv, staVars
<1>6. QED BY <1>2, <1>3, <1>4, <1>5 DEF BoardInv

(* Calls that only draw.                                                     *)
LEMMA CallSends ==
    ASSUME BoardInv, DrawAp \/ DrawWaiting \/ Refuse \/ EndTransfer \/ \E n \in 0 .. Blk : BlockFails(n)
    PROVE  \E xs \in Seq(Xfer) : Draws("main", xs) /\ (~DrawAp => Goes(xs, Below))
<1>1. /\ ErrorMsg \in Seq(Xfer) /\ DrawRow(MsgRow, MsgText, Chars) \in Seq(Xfer)
      /\ <<>> \in Seq(Xfer) /\ Goes(<<>>, Below)
  BY ErrorGoes, WaitingGoes, GoesNowhere DEF Goes
<1>2. CASE DrawAp
  <2>1. /\ ApRow \in Nat /\ ApRow + 3 \in 0 .. Rows /\ ApRow <= ApRow + 3
        /\ ApText \in Cell /\ Chars \in {0, 1}
    BY Layout
  <2>2. Goes(DrawRows(ApRow, ApRow + 3, ApText, Chars), ApRow .. (ApRow + 3) - 1)
    BY ONLY <2>1, RowsGo
  <2>3. Draws("main", DrawRows(ApRow, ApRow + 3, ApText, Chars))
    BY <1>2 DEF DrawAp
  <2>4. DrawRows(ApRow, ApRow + 3, ApText, Chars) \in Seq(Xfer)
    BY ONLY <2>2 DEF Goes
  <2>5. QED BY ONLY <1>2, <2>3, <2>4
<1>3. CASE DrawWaiting
  BY <1>1, <1>3, ErrorGoes, WaitingGoes DEF DrawWaiting
<1>4. CASE Refuse
  BY <1>1, <1>4, ErrorGoes DEF Refuse
<1>5. CASE EndTransfer
  BY <1>1, <1>5, ErrorGoes DEF EndTransfer
<1>6. CASE \E n \in 0 .. Blk : BlockFails(n)
  BY <1>1, <1>6, ErrorGoes DEF BlockFails
<1>7. QED BY <1>2, <1>3, <1>4, <1>5, <1>6

(* Steps that leave the indicator's place as it is.                          *)
LEMMA BarStays ==
    ASSUME BarInv, PiType, UNCHANGED <<piVars, ticks>>, Moving' => Moving
    PROVE  BarInv' /\ PiType'
<1>1. Progress => Progress'
  BY DEF Progress, piVars
<1>2. PiType'
  BY DEF PiType, piVars
<1>3. ticks' = ticks
  OBVIOUS
<1>4. QED BY <1>1, <1>2, <1>3 DEF BarInv

LEMMA ShownType ==
    ASSUME BusInv, NEW d \in Seq(Cell) PROVE Shown(d, page) \in [Col -> Cell]
<1>1. ASSUME NEW c \in Col
      PROVE  (IF (c - col) % Cols < Len(d) THEN d[((c - col) % Cols) + 1] ELSE panel[page][c]) \in Cell
  <2>1. c - col \in Int /\ Cols \in Nat \ {0}
    BY Sizes DEF BusInv, Col
  <2>2. PICK i \in Nat : i = (c - col) % Cols
    BY <2>1
  <2>3. i < Len(d) => d[i + 1] \in Cell
    <3>1. i < Len(d) => i + 1 \in 1 .. Len(d)
      OBVIOUS
    <3>2. QED BY <3>1
  <2>4. panel[page][c] \in Cell
    BY DEF BusInv
  <2>5. QED BY <2>2, <2>3, <2>4
<1>2. QED BY <1>1 DEF Shown

LEMMA BusStep ==
    ASSUME BusInv, NEW t \in Task, Transfer(t) \/ TransferFails(t) PROVE BusInv'
<1>1. /\ todo[t] \in Seq(Xfer) /\ todo[t] # <<>>
      /\ todo' = [todo EXCEPT ![t] = Tail(@)]
  BY DEF BusInv, Transfer, TransferFails
<1>2. Tail(todo[t]) \in Seq(Xfer)
  BY <1>1
<1>3. panel' \in [Row -> [Col -> Cell]] /\ page' \in Row /\ col' \in Col
  <2>1. CASE UNCHANGED <<panel, page, col>>
    BY <2>1 DEF BusInv
  <2>2. CASE Transfer(t)
    <3> DEFINE x == Head(todo[t])
    <3>1. x \in Xfer
      BY <1>1
    <3>2. x.page \in Row \cup {-1} /\ x.data \in Seq(Cell)
      BY ONLY <3>1 DEF Xfer
    <3>3. CASE x.page >= 0
      <4>1. page' = x.page /\ col' = 0 /\ panel' = panel
        BY <2>2, <3>3 DEF Transfer
      <4>2. page' \in Row /\ panel' \in [Row -> [Col -> Cell]]
        BY <3>2, <3>3, <4>1 DEF BusInv, Row
      <4>3. 0 \in Col
        BY Sizes DEF Col
      <4>4. QED BY ONLY <4>1, <4>2, <4>3
    <3>4. CASE ~(x.page >= 0)
      <4>1. /\ panel' = [panel EXCEPT ![page] = Shown(x.data, page)]
            /\ page' = page /\ col' = (col + Len(x.data)) % Cols
        BY <2>2, <3>4 DEF Transfer
      <4>2. Shown(x.data, page) \in [Col -> Cell]
        BY <3>2, ShownType DEF BusInv
      <4>3. (col + Len(x.data)) % Cols \in Col
        <5>1. col + Len(x.data) \in Nat
          BY <3>2 DEF BusInv, Col
        <5>2. Cols \in Nat \ {0}
          BY Sizes
        <5>3. (col + Len(x.data)) % Cols \in Nat /\ (col + Len(x.data)) % Cols < Cols
          BY ONLY <5>1, <5>2, Divides, Zenon
        <5>4. QED BY ONLY <5>2, <5>3 DEF Col
      <4>4. QED BY <4>1, <4>2, <4>3 DEF BusInv
    <3>5. QED BY <3>3, <3>4
  <2>3. QED BY <2>1, <2>2 DEF TransferFails
<1>4. QED BY <1>1, <1>2, <1>3 DEF BusInv

(* The counters of the reconnects.                                           *)
LEMMA RetryType == MaxRetry \in Nat
OBVIOUS

LEMMA StaStep ==
    ASSUME StaInv, StaStart \/ Disconnected \/ GotIp PROVE StaInv'
<1>1. /\ retry \in Nat /\ retry <= MaxRetry /\ fails \in Nat /\ retry <= fails
      /\ MaxRetry \in Nat
  BY ONLY StaInv, RetryType DEF StaInv
<1>2. CASE StaStart
  <2>1. sta' # "failed" /\ retry' = retry /\ fails' = fails
    BY ONLY <1>2 DEF StaStart
  <2>2. QED BY ONLY <1>1, <2>1 DEF StaInv
<1>3. CASE Disconnected /\ retry < MaxRetry
  <2>1. sta' # "failed" /\ retry' = retry + 1 /\ fails' = fails + 1
    BY ONLY <1>3 DEF Disconnected
  <2>2. QED BY ONLY <1>1, <1>3, <2>1 DEF StaInv
<1>4. CASE Disconnected /\ ~(retry < MaxRetry)
  <2>1. retry' = retry /\ fails' = fails + 1
    BY ONLY <1>4 DEF Disconnected
  <2>2. fails' > MaxRetry /\ fails' \in Nat /\ retry' <= fails' /\ retry' \in 0 .. MaxRetry
    BY ONLY <1>1, <1>4, <2>1
  <2>3. QED BY ONLY <2>2 DEF StaInv
<1>5. CASE GotIp
  <2>1. retry' = 0 /\ fails' = 0 /\ sta' # "failed"
    BY ONLY <1>5 DEF GotIp, AfterIp
  <2>2. QED BY ONLY <1>1, <2>1 DEF StaInv
<1>6. QED BY <1>2, <1>3, <1>4, <1>5

LEMMA BoardStep == ASSUME BoardInv, Next PROVE BoardInv'
<1>1. BusInv /\ PiType /\ BarInv /\ StaInv
  BY DEF BoardInv
<1>2. CASE HwInit
  <2>1. \E xs \in Seq(Xfer) :
          todo' = [todo EXCEPT !["main"] = xs] /\ UNCHANGED <<panel, page, col>>
    <3>1. ClearFrom(0) \in Seq(Xfer) /\ <<>> \in Seq(Xfer)
      BY Sizes, ClearGoes DEF Goes
    <3>2. QED BY <1>2, <3>1 DEF HwInit, OledInit, Calls
  <2>2. BusInv'
    BY <1>1, <2>1 DEF BusInv
  <2>3. BarInv' /\ PiType'
    <3>1. UNCHANGED <<piVars, ticks>> /\ ~Moving'
      BY <1>2 DEF HwInit, OledInit, Moving
    <3>2. QED BY <1>1, <3>1, BarStays
  <2>4. StaInv'
    BY <1>1, <1>2 DEF HwInit, StaInv, staVars
  <2>5. QED BY <2>2, <2>3, <2>4 DEF BoardInv
<1>3. CASE WifiInit
  <2>1. BusInv'
    BY <1>1, <1>3 DEF WifiInit, oledVars, BusInv
  <2>2. BarInv' /\ PiType'
    <3>1. UNCHANGED <<piVars, ticks>> /\ ~Moving'
      BY <1>3 DEF WifiInit, oledVars, Moving
    <3>2. QED BY <1>1, <3>1, BarStays
  <2>3. StaInv'
    BY <1>1, <1>3 DEF WifiInit, StaInv
  <2>4. QED BY <2>1, <2>2, <2>3 DEF BoardInv
<1>4. CASE DrawAp \/ DrawWaiting \/ Refuse \/ EndTransfer \/ \E n \in 0 .. Blk : BlockFails(n)
  <2>1. PICK xs \in Seq(Xfer) : Draws("main", xs)
    BY <1>4, CallSends
  <2>2. BusInv'
    BY <1>1, <2>1, DrawsKeeps, Layout
  <2>3. UNCHANGED <<piVars, ticks, staVars>> /\ (Moving' => Moving)
    BY <1>4 DEF DrawAp, DrawWaiting, Refuse, mainVars, EndTransfer, BlockFails, Moving
  <2>4. BarInv' /\ PiType'
    BY <1>1, <2>3, BarStays
  <2>5. StaInv'
    BY <1>1, <2>3 DEF StaInv, staVars
  <2>6. QED BY <2>2, <2>4, <2>5 DEF BoardInv
<1>5. CASE Tick
  BY <1>5, TickKeeps
<1>6. CASE Reset
  <2>1. BusInv'
    <3>1. /\ todo' = [t \in Task |-> <<>>] /\ UNCHANGED <<panel, page, col>>
          /\ <<>> \in Seq(Xfer)
      BY <1>6 DEF Reset
    <3>2. QED BY <1>1, <3>1 DEF BusInv
  <2>2. PiType' /\ StaInv'
    BY <1>6, Sizes DEF Reset, PiType, StaInv, Row, Col
  <2>3. BarInv'
    BY <1>6 DEF Reset, BarInv, Moving
  <2>4. QED BY <2>1, <2>2, <2>3 DEF BoardInv
<1>7. CASE \E j \in Job : StartTransfer(j)
  BY <1>7, StartStep
<1>8. CASE \E n \in 0 .. Blk : Block(n)
  <2>1. UNCHANGED <<oledVars, ticks, staVars>> /\ (Moving' => Moving)
    BY <1>8 DEF Block, Moving
  <2>2. BarInv' /\ PiType'
    BY <1>1, <2>1, BarStays DEF oledVars
  <2>3. BusInv' /\ StaInv'
    BY <1>1, <2>1 DEF BusInv, StaInv, oledVars, staVars
  <2>4. QED BY <2>2, <2>3 DEF BoardInv
<1>9. CASE StaStart \/ Disconnected
  <2>1. UNCHANGED <<oledVars, mainVars>>
    BY <1>9 DEF StaStart, Disconnected
  <2>2. BarInv' /\ PiType'
    BY <1>1, <2>1, BarStays DEF oledVars, mainVars, Moving
  <2>3. StaInv'
    BY <1>1, <1>9, StaStep
  <2>4. BusInv'
    BY <1>1, <2>1 DEF BusInv, oledVars
  <2>5. QED BY <2>2, <2>3, <2>4 DEF BoardInv
<1>10. CASE GotIp
  <2>1. BusInv'
    <3>1. Draws("event", DrawRows(StaRow, StaRow + 2, StaText, Chars))
      BY <1>10 DEF GotIp
    <3>2. DrawRows(StaRow, StaRow + 2, StaText, Chars) \in Seq(Xfer)
      BY StaGoes DEF Goes
    <3>3. QED BY <1>1, <3>1, <3>2, DrawsKeeps, Layout
  <2>2. BarInv' /\ PiType'
    BY <1>1, <1>10, BarStays DEF GotIp, mainVars, Moving
  <2>3. StaInv'
    BY <1>1, <1>10, StaStep
  <2>4. QED BY <2>1, <2>2, <2>3 DEF BoardInv
<1>11. CASE Bus \/ BusError
  <2>1. BusInv'
    BY <1>1, <1>11, BusStep DEF Bus, BusError
  <2>2. UNCHANGED <<piVars, mainVars, staVars>>
    BY <1>11 DEF Bus, BusError, Transfer, TransferFails
  <2>3. BarInv' /\ PiType'
    BY <1>1, <2>2, BarStays DEF mainVars, Moving
  <2>4. StaInv'
    BY <1>1, <2>2 DEF StaInv, staVars
  <2>5. QED BY <2>1, <2>3, <2>4 DEF BoardInv
<1>12. QED BY <1>2, <1>3, <1>4, <1>5, <1>6, <1>7, <1>8, <1>9, <1>10, <1>11 DEF Next, MainStep

LEMMA BoardHolds == Spec => []BoardInv
<1>1. Init => BoardInv
  <2>1. SUFFICES ASSUME Init PROVE BoardInv
    OBVIOUS
  <2>2. <<>> \in Seq(Xfer)
    OBVIOUS
  <2>3. BusInv /\ PiType
    <3>1. 0 \in Row /\ 0 \in Col /\ 0 \in 0 .. Bits
      BY Sizes DEF Row, Col
    <3>2. panel \in [Row -> [Col -> Cell]]
      BY <2>1, CellType DEF Init, PowerOn
    <3>3. QED BY <2>1, <2>2, <3>1, <3>2 DEF Init, PowerOn, BusInv, PiType
  <2>4. BarInv /\ StaInv
    BY <2>1 DEF Init, BarInv, StaInv, Moving
  <2>5. QED BY <2>3, <2>4 DEF BoardInv
<1>2. BoardInv /\ [Next]_vars => BoardInv'
  <2>1. SUFFICES ASSUME BoardInv, UNCHANGED vars PROVE BoardInv'
    BY BoardStep
  <2>2. UNCHANGED <<oledVars, mainVars, staVars>>
    BY <2>1 DEF vars
  <2>3. BarInv' /\ PiType'
    BY <2>1, <2>2, BarStays DEF BoardInv, oledVars, mainVars, Moving
  <2>4. BusInv' /\ StaInv'
    BY <2>1, <2>2 DEF BoardInv, BusInv, StaInv, oledVars, staVars
  <2>5. QED BY <2>3, <2>4 DEF BoardInv
<1>3. QED BY <1>1, <1>2, PTL DEF Spec

(* The station is given up only after MaxRetry + 1 disconnects without an    *)
(* address between them (wifi_module.cpp:16, 42).                            *)
THEOREM GivesUpLate == Spec => []StationGivesUpLate
<1>1. BoardInv => StationGivesUpLate
  BY DEF BoardInv, StaInv, StationGivesUpLate
<1>2. QED BY <1>1, BoardHolds, PTL

(* The access point's rows stay until the indicator is full or the board     *)
(* boots, however the tasks interleave and whichever transfers fail          *)
(* (sd1306.cpp:207-389).                                                     *)
THEOREM ApRowsStay == Spec => ApStays
<1>1. ASSUME BoardInv, Next, ApSafe, ticks' < TotalPi
      PROVE  ApSafe' \/ main' \in {"reset", "hw"}
  <2>1. BusInv /\ ApShown /\ ApLeft /\ main \notin {"reset", "hw", "wifi", "ap"}
    BY <1>1 DEF BoardInv, ApSafe
  <2>2. CASE DrawWaiting \/ Refuse \/ EndTransfer \/ \E n \in 0 .. Blk : BlockFails(n)
    <3>1. ~DrawAp
      BY <2>1 DEF DrawAp
    <3>2. ApShown' /\ ApLeft'
      BY <1>1, <2>1, <2>2, <3>1, CallSends, DrawsLeaves, Layout
    <3>3. main' \in {"idle", "stopped", "move", "last", "reset"}
      BY <2>1, <2>2 DEF DrawWaiting, Refuse, mainVars, EndTransfer, BlockFails
    <3>4. QED BY <3>2, <3>3 DEF ApSafe
  <2>3. CASE \E j \in Job : StartTransfer(j)
    <3>1. ApShown' /\ ApLeft' /\ main' = "move"
      BY <2>1, <2>3, StartGoes, DrawsLeaves, Layout DEF StartTransfer, StartPi
    <3>2. QED BY <3>1 DEF ApSafe
  <2>4. CASE Tick
    <3>1. ApShown' /\ ApLeft'
      BY <1>1, <2>1, <2>4, TickGoes, DrawsLeaves, Layout
    <3>2. QED BY <2>1, <2>4, <3>1 DEF Tick, ApSafe
  <2>5. CASE (\E n \in 0 .. Blk : Block(n)) \/ StaStart \/ Disconnected
    <3>1. UNCHANGED oledVars /\ main' \in {main, "move", "last"}
      BY <2>5 DEF Block, StaStart, Disconnected, mainVars
    <3>2. ApShown' /\ ApLeft'
      BY <2>1, <3>1 DEF ApShown, ApLeft, oledVars
    <3>3. QED BY <2>1, <3>1, <3>2 DEF ApSafe
  <2>6. CASE GotIp
    <3>1. ApShown' /\ ApLeft'
      BY <2>1, <2>6, StaGoes, DrawsLeaves, Layout DEF GotIp
    <3>2. QED BY <2>1, <2>6, <3>1 DEF GotIp, mainVars, ApSafe
  <2>7. CASE Bus
    <3>1. ApShown' /\ ApLeft'
      BY <2>1, <2>7, TransferLeaves DEF Bus
    <3>2. QED BY <2>1, <2>7, <3>1 DEF Bus, mainVars, ApSafe
  <2>8. CASE BusError
    <3>1. ApShown'
      BY <2>1, <2>8 DEF BusError, TransferFails, ApShown
    <3>2. ApLeft'
      BY <2>1, <2>8, TailLeaves DEF BusError, TransferFails, ApLeft
    <3>3. QED BY <2>1, <2>8, <3>1, <3>2 DEF BusError, mainVars, ApSafe
  <2>9. CASE HwInit \/ WifiInit \/ DrawAp
    BY <2>1, <2>9 DEF HwInit, WifiInit, DrawAp
  <2>10. CASE Reset
    BY <2>10 DEF Reset
  <2>11. QED BY <1>1, <2>2, <2>3, <2>4, <2>5, <2>6, <2>7, <2>8, <2>9, <2>10 DEF Next, MainStep
<1>2. BoardInv /\ [Next]_vars
        => [(ApSafe /\ ticks' < TotalPi) => (ApSafe' \/ main' \in {"reset", "hw"})]_vars
  BY <1>1
<1>3. QED BY <1>2, BoardHolds, PTL DEF Spec, ApStays

---------------------------------------------------------------------------
(* How far the indicator is, and how far it should be.                       *)

Due(n) == (n * TotalPi) \div Total[job]      \* ticks, if nothing wrapped
Wraps(n) == (n * TotalPi) \div Word32

PaceInv ==
    /\ job \in Job /\ cur \in 0 .. Limit[job] /\ ticks \in Nat /\ left \in Nat
    /\ ticks + left <= Due(cur) /\ Due(cur) <= (ticks + left) + Wraps(cur)
    /\ Moving \/ left = 0

LEMMA Products ==
    /\ \A x \in Nat : \A y \in Nat : x * y \in Nat
    /\ \A x \in Nat : \A y \in Nat : \A z \in Nat :
         (x + y) * z = x * z + y * z /\ (x <= y => x * z <= y * z)
OBVIOUS

LEMMA JobSizes ==
    ASSUME NEW j \in Job
    PROVE  /\ Total[j] \in Nat \ {0} /\ Limit[j] \in Nat /\ Limit[j] <= Total[j]
           /\ \/ Limit[j] * TotalPi < Word32
              \/ \E k \in Nat \ {0} : Word32 = k * Total[j] /\ Blk * TotalPi <= Total[j]
<1>1. Total[j] \in Nat \ {0} /\ Limit[j] \in Nat /\ Limit[j] <= Total[j]
  BY PaceAssumption
<1>2. CASE Word32 % Total[j] = 0 /\ Blk * TotalPi <= Total[j]
  <2>1. PICK s \in Nat \ {0} : s = Total[j]
    BY <1>1
  <2>2. PICK k \in Nat : k = Word32 \div s
    BY Divides
  <2>3. Word32 = k * s + 0
    <3>1. Word32 \in Nat /\ Word32 % s = 0
      BY <1>2, <2>1
    <3>2. Word32 = (Word32 \div s) * s + (Word32 % s)
      BY ONLY <3>1, s \in Nat \ {0}, Divides, Zenon
    <3>3. QED BY ONLY <2>2, <3>1, <3>2, Zenon
  <2>4. Word32 = k * s /\ k # 0
    <3>1. k * s \in Nat /\ 0 * s = 0
      BY Products
    <3>2. Word32 = k * s
      BY <2>3, <3>1
    <3>3. Word32 # 0
      OBVIOUS
    <3>4. QED BY ONLY <3>1, <3>2, <3>3
  <2>5. QED BY <1>1, <1>2, <2>1, <2>4
<1>3. QED BY <1>1, <1>2, PaceAssumption

(* A block moves the indicator by what is due for it, but for one tick when  *)
(* the products wrap.                                                        *)
LEMMA BlockPace ==
    ASSUME NEW n \in Nat, n <= Blk, job \in Job, cur \in Nat, cur + n <= Limit[job]
    PROVE  /\ Turns(n) \in Nat /\ Due(cur) \in Nat /\ Wraps(cur) \in Nat
           /\ \/ Due(cur + n) = Due(cur) + Turns(n) /\ Wraps(cur + n) = Wraps(cur)
              \/ /\ Turns(n) = 0 /\ Due(cur + n) = Due(cur) + 1
                 /\ Wraps(cur + n) = Wraps(cur) + 1
<1>1. PICK s \in Nat \ {0} : s = Total[job]
  BY JobSizes
<1>2. PICK w \in Nat \ {0} : w = Word32
  OBVIOUS
<1>3. PICK a \in Nat, m \in Nat, b \in Nat :
        a = cur * TotalPi /\ m = n * TotalPi /\ b = (cur + n) * TotalPi /\ b = a + m
  BY Sizes, Products
<1>4. /\ At(cur) = Steps(a, w, s) /\ At(cur + n) = Steps(b, w, s)
      /\ Due(cur) = Quot(a, s) /\ Due(cur + n) = Quot(b, s)
      /\ Wraps(cur) = Quot(a, w) /\ Wraps(cur + n) = Quot(b, w)
  BY ONLY <1>1, <1>2, <1>3 DEF At, Due, Wraps, Quot, Steps
<1>5. a <= b
  BY ONLY <1>3, a \in Nat, b \in Nat, m \in Nat
<1>6. Quot(a, s) \in Nat /\ Quot(b, s) \in Nat /\ Quot(a, w) \in Nat /\ Quot(b, w) \in Nat
  BY QuotType
<1>7. Steps(a, w, s) \in Nat /\ Steps(b, w, s) \in Nat
  BY StepsType
<1>8. Turns(n) = IF At(cur) < At(cur + n) THEN At(cur + n) - At(cur) ELSE 0
  BY DEF Turns
<1>9. Turns(n) \in Nat /\ Due(cur) \in Nat /\ Wraps(cur) \in Nat
  BY ONLY <1>4, <1>6, <1>7, <1>8
<1>10. CASE Limit[job] * TotalPi < Word32
  <2>1. b < w
    <3>1. (cur + n) * TotalPi <= Limit[job] * TotalPi
      BY Products, Sizes, JobSizes
    <3>2. Limit[job] * TotalPi \in Nat
      BY Products, Sizes, JobSizes
    <3>3. QED BY ONLY <1>2, <1>3, <1>10, <3>1, <3>2, b \in Nat, w \in Nat \ {0}
  <2>2. /\ Steps(a, w, s) = Quot(a, s) /\ Steps(b, w, s) = Quot(b, s)
        /\ Quot(a, s) <= Quot(b, s) /\ Quot(a, w) = 0 /\ Quot(b, w) = 0
    BY ONLY <1>5, <2>1, PaceNoWrap, a \in Nat, b \in Nat, w \in Nat \ {0}, s \in Nat \ {0}
  <2>3. Due(cur + n) = Due(cur) + Turns(n) /\ Wraps(cur + n) = Wraps(cur)
    BY ONLY <1>4, <1>6, <1>8, <2>2
  <2>4. QED BY ONLY <1>9, <2>3
<1>11. CASE \E k \in Nat \ {0} : Word32 = k * Total[job] /\ Blk * TotalPi <= Total[job]
  <2>1. PICK k \in Nat \ {0} : w = k * s /\ Blk * TotalPi <= s
    BY <1>1, <1>2, <1>11
  <2>2. b <= a + s
    <3>1. n * TotalPi <= Blk * TotalPi /\ Blk * TotalPi \in Nat
      BY Products, Sizes
    <3>2. QED BY ONLY <1>3, <2>1, <3>1, a \in Nat, m \in Nat, s \in Nat \ {0}
  <2>3. PICK p \in Nat, r \in Nat, x \in Nat, y \in Nat :
          p = Quot(a, w) /\ r = Quot(b, w) /\ x = Steps(a, w, s) /\ y = Steps(b, w, s)
    BY ONLY <1>6, <1>7
  <2>4. \/ r = p /\ x <= y
        \/ r = p + 1 /\ x = k - 1 /\ y = 0
    BY ONLY <1>5, <2>1, <2>2, <2>3, NextStep, a \in Nat, b \in Nat, s \in Nat \ {0},
            k \in Nat \ {0}
  <2>5. Quot(a, s) = p * k + x /\ Quot(b, s) = r * k + y
    BY ONLY <2>1, <2>3, Carry, a \in Nat, b \in Nat, s \in Nat \ {0}, k \in Nat \ {0}
  <2>6. p * k \in Nat /\ (p + 1) * k = p * k + k
    <3>1. p * k \in Nat
      BY ONLY Products, p \in Nat, k \in Nat \ {0}
    <3>2. (p + 1) * k = p * k + 1 * k /\ 1 * k = k
      BY ONLY Products, p \in Nat, k \in Nat \ {0}
    <3>3. QED BY ONLY <3>1, <3>2, Zenon
  <2>7. PICK z \in Nat : z = p * k
    BY <2>6
  <2>8. CASE r = p /\ x <= y
    <3>1. Quot(a, s) = z + x /\ Quot(b, s) = z + y
      BY ONLY <2>5, <2>7, <2>8
    <3>2. Due(cur + n) = Due(cur) + Turns(n) /\ Wraps(cur + n) = Wraps(cur)
      BY ONLY <1>4, <1>8, <2>3, <2>8, <3>1
    <3>3. QED BY ONLY <1>9, <3>2
  <2>9. CASE r = p + 1 /\ x = k - 1 /\ y = 0
    <3>1. Quot(a, s) = z + (k - 1) /\ Quot(b, s) = z + k
      BY ONLY <2>5, <2>6, <2>7, <2>9, k \in Nat \ {0}
    <3>2. Due(cur + n) = Due(cur) + 1
      BY ONLY <1>4, <3>1, k \in Nat \ {0}, z \in Nat
    <3>3. Turns(n) = 0
      BY ONLY <1>4, <1>8, <2>3, <2>9, x \in Nat
    <3>4. Wraps(cur + n) = Wraps(cur) + 1
      BY ONLY <1>4, <2>3, <2>9
    <3>5. QED BY ONLY <1>9, <3>2, <3>3, <3>4
  <2>10. QED BY ONLY <2>4, <2>8, <2>9
<1>12. QED BY ONLY <1>10, <1>11, JobSizes, job \in Job

LEMMA PaceStep == ASSUME PaceInv, Next PROVE PaceInv'
<1>1. PICK d \in Nat, v \in Nat : d = Due(cur) /\ v = Wraps(cur)
  <2>1. 0 \in Nat /\ 0 <= Blk /\ cur \in Nat /\ cur + 0 <= Limit[job] /\ job \in Job
    BY JobSizes DEF PaceInv
  <2>2. QED BY ONLY <2>1, BlockPace
<1>2. CASE /\ UNCHANGED <<job, cur, ticks, left>>
           /\ Moving' \/ left = 0
  <2>1. Due(cur)' = Due(cur) /\ Wraps(cur)' = Wraps(cur)
    BY <1>2 DEF Due, Wraps
  <2>2. QED BY <1>2, <2>1 DEF PaceInv
<1>3. CASE \E n \in 0 .. Blk : Block(n)
  <2>1. PICK n \in 0 .. Blk : Block(n)
    BY <1>3
  <2>2. /\ cur + n <= Limit[job] /\ cur' = cur + n /\ left = 0 /\ left' = Turns(n)
        /\ UNCHANGED <<job, ticks>> /\ Moving'
    BY <2>1 DEF Block, Moving
  <2>3. /\ job \in Job /\ cur \in Nat /\ ticks \in Nat
        /\ ticks + left <= Due(cur) /\ Due(cur) <= (ticks + left) + Wraps(cur)
    BY JobSizes DEF PaceInv
  <2>4. PICK u \in Nat : u = Turns(n)
    BY <2>2, <2>3, BlockPace
  <2>5. \/ Due(cur + n) = d + u /\ Wraps(cur + n) = v
        \/ u = 0 /\ Due(cur + n) = d + 1 /\ Wraps(cur + n) = v + 1
    BY ONLY <1>1, <2>2, <2>3, <2>4, BlockPace, n \in 0 .. Blk
  <2>6. Due(cur)' = Due(cur + n) /\ Wraps(cur)' = Wraps(cur + n)
    BY <2>2 DEF Due, Wraps
  <2>7. /\ ticks' + left' <= Due(cur)' /\ Due(cur)' <= (ticks' + left') + Wraps(cur)'
    BY ONLY <1>1, <2>2, <2>3, <2>4, <2>5, <2>6
  <2>8. cur' \in 0 .. Limit[job'] /\ left' \in Nat
    BY <2>2, <2>3, <2>4, JobSizes
  <2>9. QED BY <2>2, <2>3, <2>7, <2>8 DEF PaceInv
<1>4. CASE Tick
  <2>1. /\ left > 0 /\ left' = left - 1 /\ ticks' = ticks + 1 /\ UNCHANGED <<job, cur, main>>
        /\ Moving
    BY <1>4 DEF Tick
  <2>2. Due(cur)' = Due(cur) /\ Wraps(cur)' = Wraps(cur) /\ Moving'
    BY <2>1 DEF Due, Wraps, Moving
  <2>3. ticks' \in Nat /\ left' \in Nat /\ ticks' + left' = ticks + left
    BY <2>1 DEF PaceInv
  <2>4. QED BY <2>1, <2>2, <2>3 DEF PaceInv
<1>5. CASE (\E j \in Job : StartTransfer(j)) \/ Reset
  <2>1. cur' = 0 /\ ticks' = 0 /\ left' = 0 /\ job' \in Job
    <3>1. CASE Reset
      <4>1. ~Moving /\ cur' = 0 /\ ticks' = 0 /\ UNCHANGED <<job, left>>
        BY <3>1 DEF Reset, Moving
      <4>2. QED BY <4>1 DEF PaceInv
    <3>2. QED BY <1>5, <3>1 DEF StartTransfer
  <2>2. Due(cur)' = 0 /\ Wraps(cur)' = 0
    <3>1. PICK s \in Nat \ {0} : s = Total[job']
      BY <2>1, JobSizes
    <3>2. PICK w \in Nat \ {0} : w = Word32
      OBVIOUS
    <3>3. 0 * TotalPi = 0 /\ 0 \div s = 0 /\ 0 \div w = 0
      BY Sizes
    <3>4. QED BY ONLY <2>1, <3>1, <3>2, <3>3 DEF Due, Wraps
  <2>3. 0 \in 0 .. Limit[job'] /\ 0 + 0 <= 0 /\ 0 <= (0 + 0) + 0
    BY <2>1, JobSizes
  <2>4. QED BY ONLY <2>1, <2>2, <2>3 DEF PaceInv
<1>6. CASE HwInit \/ WifiInit \/ DrawAp \/ DrawWaiting \/ Refuse
  <2>1. ~Moving /\ UNCHANGED <<job, cur, ticks, left>>
    BY <1>6 DEF HwInit, WifiInit, DrawAp, DrawWaiting, Refuse, mainVars, Moving
  <2>2. QED BY <1>2, <2>1 DEF PaceInv
<1>7. CASE EndTransfer \/ \E n \in 0 .. Blk : BlockFails(n)
  BY <1>2, <1>7 DEF EndTransfer, BlockFails
<1>8. CASE StaStart \/ Disconnected \/ GotIp \/ Bus \/ BusError
  <2>1. UNCHANGED mainVars
    BY <1>8 DEF StaStart, Disconnected, GotIp, Bus, BusError
  <2>2. QED BY <1>2, <2>1 DEF PaceInv, mainVars, Moving
<1>9. QED BY <1>3, <1>4, <1>5, <1>6, <1>7, <1>8 DEF Next, MainStep

LEMMA PaceHolds == Spec => []PaceInv
<1>1. Init => PaceInv
  <2>1. SUFFICES ASSUME Init PROVE PaceInv
    OBVIOUS
  <2>2. cur = 0 /\ left = 0 /\ ticks = 0 /\ job \in Job
    BY <2>1 DEF Init
  <2>3. PICK s \in Nat \ {0}, w \in Nat \ {0} : s = Total[job] /\ w = Word32
    BY <2>2, JobSizes
  <2>4. 0 * TotalPi = 0 /\ 0 \div s = 0 /\ 0 \div w = 0 /\ 0 \in 0 .. Limit[job]
    BY <2>2, Sizes, JobSizes
  <2>5. Due(0) = 0 /\ Wraps(0) = 0
    BY ONLY <2>3, <2>4 DEF Due, Wraps
  <2>6. 0 + 0 <= 0 /\ 0 <= (0 + 0) + 0 /\ 0 \in Nat
    OBVIOUS
  <2>7. QED BY ONLY <2>2, <2>4, <2>5, <2>6 DEF PaceInv
<1>2. PaceInv /\ UNCHANGED vars => PaceInv'
  BY DEF PaceInv, Due, Wraps, vars, mainVars, Moving
<1>3. PaceInv /\ [Next]_vars => PaceInv'
  BY <1>2, PaceStep
<1>4. QED BY <1>1, <1>3, PTL DEF Spec

(* inc_cur_ptr never lets the indicator run ahead of the transfer, and every *)
(* time cur_ptr * TOTAL_PI wraps it falls behind by at most one tick         *)
(* (tftp_ota_server.cpp:237-253).                                            *)
THEOREM KeepsPace == Spec => []TicksKeepPace
<1>1. PaceInv => TicksKeepPace
  <2>1. SUFFICES ASSUME PaceInv PROVE TicksKeepPace
    OBVIOUS
  <2>2. 0 \in Nat /\ 0 <= Blk /\ cur \in Nat /\ cur + 0 <= Limit[job] /\ job \in Job
    BY <2>1, JobSizes DEF PaceInv
  <2>3. PICK d \in Nat, v \in Nat : d = Due(cur) /\ v = Wraps(cur)
    BY ONLY <2>2, BlockPace
  <2>4. PICK t \in Nat : t = ticks + left
    BY <2>1 DEF PaceInv
  <2>5. t <= d /\ d <= t + v
    BY <2>1, <2>3, <2>4 DEF PaceInv
  <2>6. d - t >= 0 /\ d - t <= v
    BY ONLY <2>5, d \in Nat, t \in Nat, v \in Nat
  <2>7. QED BY ONLY <2>3, <2>4, <2>6 DEF TicksKeepPace, Due, Wraps
<1>2. QED BY <1>1, PaceHolds, PTL

---------------------------------------------------------------------------
(* Every variable keeps its type.                                            *)

FlagsInv ==
    /\ main \in {"hw", "wifi", "ap", "msg", "idle", "move", "last", "stopped", "reset"}
    /\ dev \in BOOLEAN /\ sta \in {"none", "off", "connecting", "connected", "failed"}

LEMMA FlagsStep == ASSUME FlagsInv, [Next]_vars PROVE FlagsInv'
<1>1. CASE MainStep
  <2>1. CASE HwInit \/ WifiInit \/ DrawAp \/ DrawWaiting
    BY <2>1
    DEF HwInit, WifiInit, DrawAp, DrawWaiting, OledInit, Draws, oledVars, staVars, FlagsInv
  <2>2. CASE Refuse \/ EndTransfer
    BY <2>2 DEF Refuse, EndTransfer, Draws, mainVars, staVars, FlagsInv
  <2>3. CASE Tick
    <3>1. dev' = dev
      BY <2>3 DEF Tick, IncPi, Draws
    <3>2. QED BY <2>3, <3>1 DEF Tick, staVars, FlagsInv
  <2>4. CASE Reset
    BY <2>4 DEF Reset, FlagsInv
  <2>5. CASE \E j \in Job : StartTransfer(j)
    BY <2>5 DEF StartTransfer, StartPi, Draws, staVars, FlagsInv
  <2>6. CASE \E n \in 0 .. Blk : Block(n) \/ BlockFails(n)
    BY <2>6 DEF Block, BlockFails, Draws, oledVars, staVars, FlagsInv
  <2>7. QED BY <1>1, <2>1, <2>2, <2>3, <2>4, <2>5, <2>6 DEF MainStep
<1>2. CASE StaStart \/ Disconnected \/ GotIp
  BY <1>2 DEF StaStart, Disconnected, GotIp, Draws, oledVars, mainVars, FlagsInv
<1>3. CASE Bus \/ BusError
  BY <1>3 DEF Bus, BusError, Transfer, TransferFails, mainVars, staVars, FlagsInv
<1>4. CASE UNCHANGED vars
  BY <1>4 DEF vars, oledVars, mainVars, staVars, FlagsInv
<1>5. QED BY <1>1, <1>2, <1>3, <1>4 DEF Next

(* Panel, addresses and the indicator's position stay within the screen, and *)
(* a transfer has no more ticks than the indicator, so that it goes round    *)
(* the screen (sd1306.cpp:355-389) at most at the very end.                  *)
THEOREM BoardTypes == Spec => []TypeOK
<1>1. Spec => []FlagsInv
  <2>1. Init => FlagsInv
    BY DEF Init, PowerOn, FlagsInv
  <2>2. QED BY <2>1, FlagsStep, PTL DEF Spec
<1>2. ASSUME BoardInv, PaceInv, FlagsInv PROVE TypeOK
  <2>1. /\ job \in Job /\ cur \in 0 .. Limit[job] /\ ticks \in Nat /\ left \in Nat
        /\ ticks + left <= Due(cur)
    BY <1>2 DEF PaceInv
  <2>2. Due(cur) <= TotalPi
    <3>1. PICK s \in Nat \ {0}, c \in Nat, t \in Nat :
            s = Total[job] /\ c = cur /\ t = TotalPi /\ c <= s
      BY <2>1, JobSizes, Sizes
    <3>2. PICK x \in Nat, y \in Nat : x = c * t /\ y = s * t /\ x <= y
      <4>1. c * t \in Nat /\ s * t \in Nat
        BY ONLY Products, c \in Nat, t \in Nat, s \in Nat \ {0}
      <4>2. c * t <= s * t
        BY ONLY <3>1, Products, c \in Nat, t \in Nat, s \in Nat \ {0}
      <4>3. QED BY ONLY <4>1, <4>2, Zenon
    <3>3. y \div s = t
      <4>1. y = t * s + 0
        BY ONLY <3>2, t \in Nat, s \in Nat \ {0}
      <4>2. 0 \in Nat /\ 0 < s
        OBVIOUS
      <4>3. (t * s + 0) \div s = t
        BY ONLY <4>2, Quotient, s \in Nat \ {0}, t \in Nat, Zenon
      <4>4. QED BY ONLY <4>1, <4>3, Zenon
    <3>4. x \div s <= y \div s
      <4>1. PICK e \in Nat : y = x + e
        BY <3>2
      <4>2. QED BY <4>1, DivMono
    <3>5. QED BY ONLY <3>1, <3>2, <3>3, <3>4 DEF Due
  <2>3. Due(cur) \in Nat
    <3>1. 0 \in Nat /\ 0 <= Blk /\ cur \in Nat /\ cur + 0 <= Limit[job]
      BY <2>1, JobSizes
    <3>2. QED BY ONLY <2>1, <3>1, BlockPace
  <2>4. left \in 0 .. TotalPi /\ ticks \in 0 .. TotalPi
    BY ONLY <2>1, <2>2, <2>3, Sizes
  <2>5. BusInv /\ PiType /\ StaInv
    BY <1>2 DEF BoardInv
  <2>6. /\ panel \in [Row -> [Col -> Cell]] /\ page \in Row /\ col \in Col
        /\ DOMAIN todo = Task
    BY ONLY <2>5 DEF BusInv
  <2>7. piRow \in Row /\ piData \in 0 .. Bits /\ piCount \in Col /\ retry \in 0 .. MaxRetry
    BY ONLY <2>5 DEF PiType, StaInv
  <2>8. QED BY ONLY <1>2, <2>1, <2>4, <2>6, <2>7 DEF FlagsInv, TypeOK
<1>3. QED BY <1>1, <1>2, BoardHolds, PaceHolds, PTL

---------------------------------------------------------------------------
(* The pixels of the indicator, in the order of their ticks.                 *)

Bar == (PiStart .. Rows - 1) \X Col \X (1 .. Bits)
Pass(r, b) == (r - PiStart) * Bits + (b - 1)         \* passes before pixel b of row r
Number(x) == Pass(x[1], x[3]) * Cols + x[2]
First(w) == {x \in Bar : Number(x) < w}

LEMMA PassOrder ==
    ASSUME NEW r \in PiStart .. Rows - 1, NEW b \in 1 .. Bits,
           NEW q \in PiStart .. Rows - 1, NEW d \in 1 .. Bits
    PROVE  /\ Pass(r, b) \in Nat /\ Pass(q, d) \in Nat
           /\ Pass(r, b) < Pass(q, d) <=> r < q \/ (r = q /\ b < d)
           /\ Pass(r, b) = Pass(q, d) <=> r = q /\ b = d
<1>1. PICK i \in Nat, j \in Nat, a \in Nat, e \in Nat :
        /\ i = r - PiStart /\ j = q - PiStart /\ a = b - 1 /\ e = d - 1
        /\ a \in 0 .. Bits - 1 /\ e \in 0 .. Bits - 1 /\ a \in 0 .. Bits /\ e \in 0 .. Bits
  BY Sizes
<1>2. /\ i * Bits + a \in Nat /\ j * Bits + e \in Nat
      /\ i * Bits + a < j * Bits + e <=> i < j \/ (i = j /\ a < e)
      /\ j * Bits + e < i * Bits + a <=> j < i \/ (j = i /\ e < a)
  BY ONLY <1>1, Digits, Sizes, i \in Nat, j \in Nat
<1>3. Pass(r, b) = i * Bits + a /\ Pass(q, d) = j * Bits + e
  BY ONLY <1>1, Zenon DEF Pass
<1>4. /\ r < q <=> i < j
      /\ r = q <=> i = j
      /\ b < d <=> a < e
      /\ b = d <=> a = e
      /\ j < i \/ i < j \/ i = j
      /\ e < a \/ a < e \/ a = e
  BY <1>1, Sizes
<1>5. PICK m \in Nat, n \in Nat : m = Pass(r, b) /\ n = Pass(q, d)
  BY <1>2, <1>3
<1>6. /\ m < n <=> i < j \/ (i = j /\ a < e)
      /\ n < m <=> j < i \/ (j = i /\ e < a)
  BY ONLY <1>2, <1>3, <1>5, Zenon
<1>7. m = n <=> i = j /\ a = e
  BY ONLY <1>4, <1>6, i \in Nat, j \in Nat, a \in Nat, e \in Nat, m \in Nat, n \in Nat
<1>8. QED BY ONLY <1>4, <1>5, <1>6, <1>7

LEMMA BarType ==
    ASSUME NEW x \in Bar
    PROVE  /\ x[1] \in PiStart .. Rows - 1 /\ x[2] \in 0 .. Cols - 1 /\ x[3] \in 1 .. Bits
           /\ x = <<x[1], x[2], x[3]>>
BY DEF Bar, Col

(* A pixel is among those of the passes before (q, d), or of w of this one.  *)
LEMMA NumberOrder ==
    ASSUME NEW x \in Bar, NEW q \in PiStart .. Rows - 1, NEW d \in 1 .. Bits, NEW w \in 0 .. Cols
    PROVE  /\ Number(x) \in Nat /\ Pass(q, d) * Cols + w \in Nat
           /\ Number(x) < Pass(q, d) * Cols + w
                <=> \/ x[1] < q
                    \/ x[1] = q /\ x[3] < d
                    \/ x[1] = q /\ x[3] = d /\ x[2] < w
<1>1. PICK m \in Nat, n \in Nat : m = Pass(x[1], x[3]) /\ n = Pass(q, d)
  BY BarType, PassOrder
<1>2. /\ m < n <=> x[1] < q \/ (x[1] = q /\ x[3] < d)
      /\ m = n <=> x[1] = q /\ x[3] = d
  BY ONLY <1>1, BarType, PassOrder, x \in Bar, q \in PiStart .. Rows - 1, d \in 1 .. Bits
<1>3. /\ m * Cols + x[2] \in Nat /\ n * Cols + w \in Nat
      /\ m * Cols + x[2] < n * Cols + w <=> m < n \/ (m = n /\ x[2] < w)
  <2>1. x[2] \in 0 .. Cols - 1 /\ Cols \in Nat \ {0}
    BY BarType, Sizes
  <2>2. QED BY ONLY <2>1, Digits, m \in Nat, n \in Nat, w \in 0 .. Cols
<1>4. Number(x) = m * Cols + x[2]
  BY ONLY <1>1 DEF Number
<1>5. QED BY ONLY <1>1, <1>2, <1>3, <1>4, Zenon

LEMMA NumberDiffers ==
    ASSUME NEW x \in Bar, NEW y \in Bar, Number(x) = Number(y) PROVE x = y
<1>1. PICK m \in Nat, n \in Nat : m = Pass(x[1], x[3]) /\ n = Pass(y[1], y[3])
  BY BarType, PassOrder
<1>2. /\ x[2] \in 0 .. Cols - 1 /\ y[2] \in 0 .. Cols - 1 /\ Cols \in Nat \ {0}
      /\ x[2] \in 0 .. Cols /\ y[2] \in 0 .. Cols
  BY BarType, Sizes
<1>3. PICK a \in Nat, b \in Nat :
        /\ a = m * Cols + x[2] /\ b = n * Cols + y[2]
        /\ a < b <=> m < n \/ (m = n /\ x[2] < y[2])
        /\ b < a <=> n < m \/ (n = m /\ y[2] < x[2])
  BY ONLY <1>2, Digits, m \in Nat, n \in Nat
<1>4. a = b
  BY ONLY <1>1, <1>3, Number(x) = Number(y) DEF Number
<1>5. m = n /\ x[2] = y[2]
  BY ONLY <1>2, <1>3, <1>4, m \in Nat, n \in Nat, a \in Nat, b \in Nat
<1>6. x[1] = y[1] /\ x[3] = y[3]
  <2>1. /\ x[1] \in PiStart .. Rows - 1 /\ x[3] \in 1 .. Bits
        /\ y[1] \in PiStart .. Rows - 1 /\ y[3] \in 1 .. Bits
    BY BarType
  <2>2. Pass(x[1], x[3]) = Pass(y[1], y[3])
    BY ONLY <1>1, <1>5
  <2>3. Pass(x[1], x[3]) = Pass(y[1], y[3]) <=> x[1] = y[1] /\ x[3] = y[3]
    BY ONLY <2>1, PassOrder
  <2>4. QED BY ONLY <2>2, <2>3, Zenon
<1>7. x = <<x[1], x[2], x[3]>> /\ y = <<y[1], y[2], y[3]>>
  BY BarType
<1>8. QED BY ONLY <1>5, <1>6, <1>7, Zenon

LEMMA NumberOnto ==
    ASSUME NEW n \in 0 .. TotalPi - 1 PROVE \E x \in Bar : Number(x) = n
<1>1. PICK h \in Nat, k \in Nat, s \in Nat \ {0}, t \in Nat \ {0} :
        /\ h = Rows - PiStart /\ s = Bits /\ t = Cols /\ k = h * s /\ TotalPi = k * t
  <2>1. Rows - PiStart \in Nat /\ (Rows - PiStart) * Bits \in Nat
    BY Sizes, Products
  <2>2. QED BY ONLY <2>1, Sizes
<1>2. n \in Nat /\ n < k * t
  BY ONLY <1>1, Sizes, n \in 0 .. TotalPi - 1
<1>3. PICK p \in Nat, c \in Nat : n = p * t + c /\ c < t
  BY ONLY <1>2, Divides, t \in Nat \ {0}
<1>4. PICK i \in Nat, a \in Nat : p = i * s + a /\ a < s
  BY ONLY Divides, p \in Nat, s \in Nat \ {0}
<1>5. p < k
  <2>1. c \in 0 .. t - 1 /\ 0 \in 0 .. t
    BY ONLY <1>3, c \in Nat, t \in Nat \ {0}
  <2>2. p * t + c < k * t + 0
    <3>1. k * t \in Nat
      BY ONLY Products, k \in Nat, t \in Nat \ {0}
    <3>2. QED BY ONLY <1>2, <1>3, <3>1
  <2>3. p < k \/ (p = k /\ c < 0)
    BY ONLY <2>1, <2>2, Digits, p \in Nat, k \in Nat, t \in Nat \ {0}
  <2>4. QED BY ONLY <2>3, c \in Nat
<1>6. i < h
  <2>1. a \in 0 .. s - 1 /\ 0 \in 0 .. s
    BY ONLY <1>4, a \in Nat, s \in Nat \ {0}
  <2>2. i * s + a < h * s + 0
    <3>1. h * s \in Nat
      BY ONLY Products, h \in Nat, s \in Nat \ {0}
    <3>2. QED BY ONLY <1>1, <1>4, <1>5, <3>1
  <2>3. i < h \/ (i = h /\ a < 0)
    BY ONLY <2>1, <2>2, Digits, i \in Nat, h \in Nat, s \in Nat \ {0}
  <2>4. QED BY ONLY <2>3, a \in Nat
<1>7. PICK r \in PiStart .. Rows - 1, b \in 1 .. Bits : r - PiStart = i /\ b - 1 = a
  <2>1. PiStart + i \in PiStart .. Rows - 1 /\ a + 1 \in 1 .. Bits
    BY ONLY <1>1, <1>4, <1>6, Sizes, i \in Nat, a \in Nat
  <2>2. (PiStart + i) - PiStart = i /\ (a + 1) - 1 = a
    BY ONLY Sizes, i \in Nat, a \in Nat
  <2>3. QED BY ONLY <2>1, <2>2
<1>8. Pass(r, b) = p
  BY ONLY <1>1, <1>4, <1>7, Zenon DEF Pass
<1>9. <<r, c, b>> \in Bar
  <2>1. c \in Col
    BY <1>1, <1>3 DEF Col
  <2>2. QED BY ONLY <2>1, r \in PiStart .. Rows - 1, b \in 1 .. Bits DEF Bar
<1>10. Number(<<r, c, b>>) = n
  <2>1. /\ <<r, c, b>>[1] = r /\ <<r, c, b>>[2] = c /\ <<r, c, b>>[3] = b
    OBVIOUS
  <2>2. QED BY ONLY <1>1, <1>3, <1>8, <2>1, Zenon DEF Number
<1>11. QED BY <1>9, <1>10

(* There are as many pixels as ticks.                                        *)
LEMMA FirstCount ==
    ASSUME NEW w \in 0 .. TotalPi PROVE IsFiniteSet(First(w)) /\ Cardinality(First(w)) = w
<1> DEFINE S == 0 .. w - 1
           f == [x \in First(w) |-> Number(x)]
<1>1. w \in Nat /\ S \subseteq 0 .. TotalPi - 1
  BY Sizes
<1>2. ASSUME NEW x \in First(w) PROVE x \in Bar /\ Number(x) \in S
  <2>1. x \in Bar /\ Number(x) < w
    BY DEF First
  <2>2. Number(x) \in Nat
    <3>1. PiStart \in PiStart .. Rows - 1 /\ 1 \in 1 .. Bits /\ 0 \in 0 .. Cols
      BY Sizes
    <3>2. QED BY ONLY <2>1, <3>1, NumberOrder
  <2>3. QED BY <1>1, <2>1, <2>2
<1>3. f \in [First(w) -> S]
  BY <1>2
<1>4. \A a, b \in First(w) : f[a] = f[b] => a = b
  BY <1>2, NumberDiffers
<1>5. ASSUME NEW n \in S PROVE \E x \in First(w) : f[x] = n
  <2>1. PICK x \in Bar : Number(x) = n
    BY <1>1, NumberOnto
  <2>2. x \in First(w)
    BY <1>1, <2>1 DEF First
  <2>3. QED BY <2>1, <2>2
<1>6. ExistsBijection(First(w), S)
  <2>1. f \in Bijection(First(w), S)
    BY <1>3, <1>4, <1>5, Fun_IsBij
  <2>2. QED BY ONLY <2>1, Fun_ExistsBij
<1>7. ExistsBijection(S, First(w))
  BY ONLY <1>6, Fun_ExistsBijSymmetric
<1>8. IsFiniteSet(S) /\ Cardinality(S) = w
  <2>1. 0 \in Int /\ w - 1 \in Int
    BY <1>1
  <2>2. IsFiniteSet(S) /\ Cardinality(S) = IF 0 > w - 1 THEN 0 ELSE (w - 1) - 0 + 1
    BY ONLY <2>1, FS_Interval
  <2>3. QED BY ONLY <1>1, <2>2
<1>9. QED BY ONLY <1>7, <1>8, FS_Bijection

---------------------------------------------------------------------------
(* What the indicator looks like.  Its first pass leaves out the last column *)
(* of its first row, and the second, which fills that pass up, does so too.  *)

FirstPass == piRow = PiStart /\ piData = 1
Written == IF FirstPass THEN piCount ELSE piCount + 1      \* columns of this pass
LeftOut(r, c) == r = PiStart /\ c = Cols - 1
BarCell(r, c, w) ==
    CASE r > piRow -> 0
      [] r < piRow -> IF Bits = 1 /\ LeftOut(r, c) THEN 0 ELSE Bits
      [] OTHER     -> IF c < w THEN piData
                      ELSE IF piData = 2 /\ LeftOut(r, c) THEN 0 ELSE piData - 1
BarShown(w) == \A r \in PiStart .. Rows - 1, c \in Col : panel[r][c] = BarCell(r, c, w)

LEMMA WrittenType == ASSUME Progress PROVE Written \in 0 .. Cols
BY Sizes DEF Progress, Written, Col

LEMMA BarCount ==
    ASSUME Progress, ticks \in Nat, ticks < TotalPi, BarShown(Written)
    PROVE  Cardinality(Pixels) - ticks \in 0 .. 1
<1> DEFINE W == Pass(piRow, piData) * Cols + Written
           corner == <<PiStart, Cols - 1, 1>>
<1>1. /\ piRow \in PiStart .. Rows - 1 /\ piData \in 1 .. Bits /\ piCount \in 0 .. Cols - 1
      /\ Written \in 0 .. Cols
  BY WrittenType DEF Progress, Col
<1>2. W = (IF FirstPass THEN ticks ELSE ticks + 1) /\ W \in 0 .. TotalPi
  <2>1. PICK m \in Nat : m = Pass(piRow, piData)
    BY <1>1, PassOrder
  <2>2. PICK n \in Nat : n = m * Cols
    BY Sizes, Products
  <2>3. ticks = n + piCount
    BY ONLY <2>1, <2>2, Progress DEF Progress, Pass
  <2>4. W = n + Written
    BY ONLY <2>1, <2>2
  <2>5. W = IF FirstPass THEN ticks ELSE ticks + 1
    BY ONLY <1>1, <2>3, <2>4, Sizes, n \in Nat DEF Written
  <2>6. QED BY ONLY <2>5, Sizes, ticks \in Nat, ticks < TotalPi
<1>3. ASSUME NEW x \in Bar
      PROVE  /\ x \in Pixels => x \in First(W)
             /\ x \in First(W) => x \in Pixels \/ (~FirstPass /\ x = corner)
  <2>1. PICK r \in PiStart .. Rows - 1, c \in 0 .. Cols - 1, b \in 1 .. Bits :
          x = <<r, c, b>> /\ x[1] = r /\ x[2] = c /\ x[3] = b
    BY <1>3, BarType
  <2>2. x \in First(W) <=> \/ r < piRow
                           \/ r = piRow /\ b < piData
                           \/ r = piRow /\ b = piData /\ c < Written
    <3>1. x \in First(W) <=> Number(x) < W
      BY ONLY <1>3 DEF First
    <3>2. Number(x) < W <=> \/ x[1] < piRow
                            \/ x[1] = piRow /\ x[3] < piData
                            \/ x[1] = piRow /\ x[3] = piData /\ x[2] < Written
      BY ONLY <1>1, <1>3, NumberOrder
    <3>3. QED BY ONLY <2>1, <3>1, <3>2, Zenon
  <2>3. x \in Pixels <=> b <= BarCell(r, c, Written)
    <3>1. x \in Pixels <=> x[3] <= panel[x[1]][x[2]]
      BY ONLY <1>3 DEF Bar, Pixels
    <3>2. panel[r][c] = BarCell(r, c, Written)
      <4>1. c \in Col
        BY DEF Col
      <4>2. QED BY ONLY <4>1, BarShown(Written), r \in PiStart .. Rows - 1 DEF BarShown
    <3>3. QED BY ONLY <2>1, <3>1, <3>2, Zenon
  <2>4. x = corner <=> r = PiStart /\ c = Cols - 1 /\ b = 1
    BY ONLY <2>1
  <2>5. CASE r > piRow
    <3>1. BarCell(r, c, Written) = 0
      BY <1>1, <2>5, Sizes DEF BarCell
    <3>2. QED BY ONLY <1>1, <2>2, <2>3, <2>5, <3>1, Sizes, b \in 1 .. Bits, r \in PiStart .. Rows - 1
  <2>6. CASE r < piRow
    <3>1. BarCell(r, c, Written) = IF Bits = 1 /\ LeftOut(r, c) THEN 0 ELSE Bits
      BY <1>1, <2>6, Sizes DEF BarCell
    <3>2. ~FirstPass
      BY <1>1, <2>6, Sizes DEF FirstPass
    <3>3. QED BY ONLY <1>1, <2>2, <2>3, <2>4, <2>6, <3>1, <3>2, Sizes, b \in 1 .. Bits,
                      r \in PiStart .. Rows - 1 DEF LeftOut
  <2>7. CASE r = piRow
    <3>1. BarCell(r, c, Written)
            = IF c < Written THEN piData
              ELSE IF piData = 2 /\ LeftOut(r, c) THEN 0 ELSE piData - 1
      <4>1. ~(r > piRow) /\ ~(r < piRow)
        BY <1>1, <2>7, Sizes
      <4>2. QED BY ONLY <4>1 DEF BarCell
    <3>2. piData = 2 => ~FirstPass
      BY DEF FirstPass
    <3>3. QED BY ONLY <1>1, <2>2, <2>3, <2>4, <2>7, <3>1, <3>2, Sizes, b \in 1 .. Bits,
                      c \in 0 .. Cols - 1, r \in PiStart .. Rows - 1 DEF LeftOut
  <2>8. QED BY ONLY <1>1, <2>5, <2>6, <2>7, Sizes, r \in PiStart .. Rows - 1
<1>4. Pixels \subseteq Bar /\ First(W) \subseteq Bar
  BY DEF Pixels, Bar, First
<1>5. Pixels \subseteq First(W) /\ First(W) \ Pixels \subseteq {corner}
      /\ (FirstPass => Pixels = First(W))
  BY ONLY <1>3, <1>4
<1>6. IsFiniteSet(First(W)) /\ Cardinality(First(W)) = W
  BY <1>2, FirstCount
<1>7. CASE Pixels = First(W)
  BY ONLY <1>2, <1>6, <1>7, ticks \in Nat
<1>8. CASE Pixels # First(W)
  <2>1. Pixels = First(W) \ {corner} /\ corner \in First(W) /\ ~FirstPass
    BY ONLY <1>5, <1>8
  <2>2. Cardinality(Pixels) = W - 1
    BY ONLY <1>6, <2>1, FS_RemoveElement
  <2>3. QED BY ONLY <1>2, <2>1, <2>2, ticks \in Nat
<1>9. QED BY ONLY <1>7, <1>8

---------------------------------------------------------------------------
(* The screen is cleared row by row.                                         *)

BlankData == Data(Run(Blank, Cols))

LEMMA BlankRowSent ==
    ASSUME NEW r \in Row
    PROVE  Len(DrawRow(r, Blank, 0)) = 2 /\ DrawRow(r, Blank, 0)[1] = SetPage(r)
           /\ DrawRow(r, Blank, 0)[2] = BlankData
<1> DEFINE none == [i \in 1 .. 0 |-> Data(Run(Blank, CharCols))]
<1>1. none = <<>>
  OBVIOUS
<1>2. Cols - 0 * CharCols = Cols
  BY CharColsType
<1>3. DrawRow(r, Blank, 0) = <<SetPage(r)>> \o <<>> \o <<BlankData>>
  BY ONLY <1>1, <1>2 DEF DrawRow, BlankData
<1>4. SetPage(r) \in Xfer /\ BlankData \in Xfer
  BY CellType, Sizes, RunType, DataXfer, SetPageXfer DEF BlankData
<1>5. ASSUME NEW x \in Xfer, NEW y \in Xfer
      PROVE  LET q == <<x>> \o <<>> \o <<y>> IN Len(q) = 2 /\ q[1] = x /\ q[2] = y
  OBVIOUS
<1>6. QED BY ONLY <1>3, <1>4, <1>5

LEMMA ClearAt ==
    ASSUME NEW r \in 0 .. Rows
    PROVE  /\ ClearFrom(r) \in Seq(Xfer) /\ Len(ClearFrom(r)) = (Rows - r) * 2
           /\ \A i \in 1 .. (Rows - r) * 2 :
                ClearFrom(r)[i] = IF i % 2 = 1 THEN SetPage(r + (i - 1) \div 2) ELSE BlankData
<1> DEFINE len == (Rows - r) * 2
           e(i) == DrawRow(r + (i - 1) \div 2, Blank, 0)[((i - 1) % 2) + 1]
<1>1. ClearFrom(r) = [i \in 1 .. len |-> e(i)]
  BY ONLY 0 + 2 = 2 DEF ClearFrom, DrawRows
<1>2. ClearFrom(r) \in Seq(Xfer)
  BY ClearGoes DEF Goes
<1>3. len \in Nat
  BY Sizes
<1>4. Len(ClearFrom(r)) = len
  BY ONLY <1>1, <1>2, <1>3
<1>5. ASSUME NEW i \in 1 .. len
      PROVE  ClearFrom(r)[i] = IF i % 2 = 1 THEN SetPage(r + (i - 1) \div 2) ELSE BlankData
  <2>1. PICK k \in Nat : k = r + (i - 1) \div 2 /\ k \in Row
    BY Sizes DEF Row
  <2>2. DrawRow(k, Blank, 0)[1] = SetPage(k) /\ DrawRow(k, Blank, 0)[2] = BlankData
    BY <2>1, BlankRowSent
  <2>3. ClearFrom(r)[i] = e(i)
    BY ONLY <1>1, i \in 1 .. len
  <2>4. CASE i % 2 = 1
    <3>1. ((i - 1) % 2) + 1 = 1
      BY <2>4
    <3>2. QED BY ONLY <2>1, <2>2, <2>3, <2>4, <3>1
  <2>5. CASE i % 2 # 1
    <3>1. ((i - 1) % 2) + 1 = 2
      BY <1>3, <2>5
    <3>2. QED BY ONLY <2>1, <2>2, <2>3, <2>5, <3>1
  <2>6. QED BY ONLY <2>4, <2>5
<1>6. QED BY ONLY <1>2, <1>4, <1>5

Then(x, s) == <<x>> \o s
Ends(s, z) == s \o <<z>>
Wipe(r) == Ends(ClearFrom(r), SetPage(PiStart))      \* clear_text, then setup_pi_row

(* A sequence of which the first two are x and y, and the rest is q.         *)
TwoThen(p, x, y, q) ==
    /\ Len(p) = Len(q) + 2 /\ p[1] = x /\ p[2] = y
    /\ \A i \in 1 .. Len(q) : p[i + 2] = q[i]

LEMMA TwoFirst ==
    ASSUME NEW x \in Xfer, NEW y \in Xfer, NEW z \in Xfer, NEW p \in Seq(Xfer), NEW q \in Seq(Xfer),
           TwoThen(p, x, y, q)
    PROVE  Ends(p, z) = Then(x, Then(y, Ends(q, z)))
<1>0. PICK m \in Nat : /\ Len(p) = m + 2 /\ Len(q) = m /\ p[1] = x /\ p[2] = y
                       /\ \A i \in 1 .. m : p[i + 2] = q[i]
  BY DEF TwoThen
<1> DEFINE u == q \o <<z>>
           v == <<y>> \o u
           s == p \o <<z>>
           t == <<x>> \o v
<1>1. /\ u \in Seq(Xfer) /\ Len(u) = m + 1 /\ u[m + 1] = z
      /\ \A j \in 1 .. m : u[j] = q[j]
  BY <1>0
<1>2. /\ s \in Seq(Xfer) /\ Len(s) = m + 3 /\ s[m + 3] = z
      /\ \A i \in 1 .. m + 2 : s[i] = p[i]
  BY <1>0
<1>3. v \in Seq(Xfer) /\ Len(v) = m + 2 /\ v[1] = y /\ \A j \in 1 .. m + 1 : v[j + 1] = u[j]
  <2> HIDE DEF u
  <2>1. QED BY <1>1
<1>4. t \in Seq(Xfer) /\ Len(t) = m + 3 /\ t[1] = x /\ \A j \in 1 .. m + 2 : t[j + 1] = v[j]
  <2> HIDE DEF v
  <2>1. QED BY <1>3
<1>5. ASSUME NEW i \in 1 .. m + 3 PROVE s[i] = t[i]
  <2> HIDE DEF u, v, s, t
  <2>1. CASE i = 1
    BY ONLY <1>0, <1>2, <1>4, <2>1, m \in Nat
  <2>2. CASE i = 2
    <3>1. 1 \in 1 .. m + 2 /\ 2 \in 1 .. m + 2 /\ 1 + 1 = 2
      OBVIOUS
    <3>2. t[1 + 1] = v[1] /\ s[2] = p[2]
      BY ONLY <1>2, <1>4, <3>1
    <3>3. QED BY ONLY <1>0, <1>3, <2>2, <3>1, <3>2
  <2>3. CASE i > 2
    <3>1. PICK j \in 1 .. m + 1 : i = j + 2
      <4>1. i - 2 \in 1 .. m + 1 /\ i = (i - 2) + 2
        BY <2>3
      <4>2. QED BY <4>1
    <3>2. t[i] = u[j]
      <4>1. j + 1 \in 1 .. m + 2 /\ i = (j + 1) + 1
        BY ONLY <3>1, m \in Nat
      <4>2. QED BY ONLY <1>3, <1>4, <4>1, j \in 1 .. m + 1
    <3>3. s[i] = u[j]
      <4>1. CASE j = m + 1
        <5>1. i = m + 3
          BY ONLY <3>1, <4>1, m \in Nat
        <5>2. QED BY ONLY <1>1, <1>2, <4>1, <5>1
      <4>2. CASE j # m + 1
        <5>1. j \in 1 .. m /\ j + 2 \in 1 .. m + 2
          BY ONLY <3>1, <4>2, m \in Nat
        <5>2. p[j + 2] = q[j]
          BY ONLY <1>0, <5>1
        <5>3. s[j + 2] = p[j + 2] /\ u[j] = q[j]
          BY ONLY <1>1, <1>2, <5>1
        <5>4. QED BY ONLY <3>1, <5>2, <5>3
      <4>3. QED BY ONLY <4>1, <4>2
    <3>4. QED BY ONLY <3>2, <3>3
  <2>4. QED BY ONLY <2>1, <2>2, <2>3, i \in 1 .. m + 3, m \in Nat
<1>6. s = t
  <2> HIDE DEF s, t
  <2>1. Len(s) = Len(t) /\ \A i \in 1 .. Len(s) : s[i] = t[i]
    BY ONLY <1>2, <1>4, <1>5
  <2>2. QED BY ONLY <1>2, <1>4, <2>1, SeqEqual
<1>7. QED BY ONLY <1>6 DEF Then, Ends

LEMMA WipeRow ==
    ASSUME NEW r \in 0 .. Rows - 1
    PROVE  Wipe(r) = Then(SetPage(r), Then(BlankData, Wipe(r + 1)))
<1>1. r \in 0 .. Rows /\ r + 1 \in 0 .. Rows /\ PiStart \in Row /\ r \in Row
  BY Sizes, Layout DEF Row
<1>2. SetPage(r) \in Xfer /\ BlankData \in Xfer /\ SetPage(PiStart) \in Xfer
  BY <1>1, CellType, Sizes, RunType, DataXfer, SetPageXfer DEF BlankData
<1>3. PICK n \in Nat : n = (Rows - (r + 1)) * 2 /\ (Rows - r) * 2 = n + 2
  BY Sizes
<1>4. /\ ClearFrom(r) \in Seq(Xfer) /\ Len(ClearFrom(r)) = n + 2
      /\ \A i \in 1 .. n + 2 :
           ClearFrom(r)[i] = IF i % 2 = 1 THEN SetPage(r + (i - 1) \div 2) ELSE BlankData
  BY ONLY <1>1, <1>3, ClearAt
<1>5. /\ ClearFrom(r + 1) \in Seq(Xfer) /\ Len(ClearFrom(r + 1)) = n
      /\ \A i \in 1 .. n :
           ClearFrom(r + 1)[i]
             = IF i % 2 = 1 THEN SetPage((r + 1) + (i - 1) \div 2) ELSE BlankData
  BY ONLY <1>1, <1>3, ClearAt
<1>6. ClearFrom(r)[1] = SetPage(r) /\ ClearFrom(r)[2] = BlankData
  <2>1. 1 \in 1 .. n + 2 /\ 2 \in 1 .. n + 2 /\ 1 % 2 = 1 /\ 2 % 2 # 1
        /\ r + (1 - 1) \div 2 = r
    OBVIOUS
  <2>2. QED BY ONLY <1>4, <2>1
<1>7. ASSUME NEW i \in 1 .. n PROVE ClearFrom(r)[i + 2] = ClearFrom(r + 1)[i]
  <2>1. i + 2 \in 1 .. n + 2 /\ (i + 2) % 2 = i % 2
        /\ r + ((i + 2) - 1) \div 2 = (r + 1) + (i - 1) \div 2
    OBVIOUS
  <2>2. QED BY ONLY <1>4, <1>5, <2>1, i \in 1 .. n
<1>8. Ends(ClearFrom(r), SetPage(PiStart))
        = Then(SetPage(r), Then(BlankData, Ends(ClearFrom(r + 1), SetPage(PiStart))))
  <2>1. PICK p \in Seq(Xfer), q \in Seq(Xfer), x \in Xfer, y \in Xfer, z \in Xfer :
          /\ p = ClearFrom(r) /\ q = ClearFrom(r + 1) /\ x = SetPage(r) /\ y = BlankData
          /\ z = SetPage(PiStart)
    BY ONLY <1>2, <1>4, <1>5
  <2>2. TwoThen(p, x, y, q)
    <3>1. Len(p) = n + 2 /\ Len(q) = n
      BY ONLY <1>4, <1>5, <2>1
    <3>2. p[1] = x /\ p[2] = y /\ \A i \in 1 .. n : p[i + 2] = q[i]
      BY ONLY <1>6, <1>7, <2>1
    <3>3. QED BY ONLY <3>1, <3>2 DEF TwoThen
  <2>3. Ends(p, z) = Then(x, Then(y, Ends(q, z)))
    BY <2>2, TwoFirst
  <2>4. QED BY ONLY <2>1, <2>3, Zenon
<1>9. QED BY ONLY <1>8, Zenon DEF Wipe

LEMMA WipeEnds == Wipe(Rows) = <<SetPage(PiStart)>>
<1>1. Rows \in 0 .. Rows /\ (Rows - Rows) * 2 = 0 /\ PiStart \in Row
  BY Sizes, Layout
<1>2. ClearFrom(Rows) \in Seq(Xfer) /\ Len(ClearFrom(Rows)) = 0
  BY ONLY <1>1, ClearAt
<1>3. ClearFrom(Rows) = <<>>
  BY ONLY <1>2
<1>4. SetPage(PiStart) \in Xfer
  BY <1>1, SetPageXfer
<1>5. QED BY ONLY <1>3, <1>4 DEF Wipe, Ends

LEMMA WipeType ==
    ASSUME NEW r \in 0 .. Rows PROVE Wipe(r) \in Seq(Xfer) /\ Wipe(r) # <<>>
<1>1. ClearFrom(r) \in Seq(Xfer)
  BY ONLY ClearAt, r \in 0 .. Rows
<1>2. SetPage(PiStart) \in Xfer
  BY Layout, SetPageXfer
<1>3. ASSUME NEW q \in Seq(Xfer), NEW x \in Xfer PROVE q \o <<x>> \in Seq(Xfer) /\ q \o <<x>> # <<>>
  <2>1. q \o <<x>> \in Seq(Xfer) /\ Len(q \o <<x>>) = Len(q) + 1
    OBVIOUS
  <2>2. Len(<<>>) = 0
    OBVIOUS
  <2>3. QED BY ONLY <2>1, <2>2, q \in Seq(Xfer)
<1>4. QED BY ONLY <1>1, <1>2, <1>3 DEF Wipe, Ends

---------------------------------------------------------------------------
(* While only the indicator draws: the call that starts it is under way, the *)
(* screen shows all of its columns, or the last of them is still to be sent. *)

BlankTo(r) == \A q \in PiStart .. r - 1, c \in Col : panel[q][c] = Blank

Wiping ==
    /\ piRow = PiStart /\ piData = 1 /\ piCount = 0
    /\ \/ \E q \in Seq(Xfer) : todo["main"] = q \o Wipe(PiStart)
       \/ \E r \in PiStart .. Rows : BlankTo(r) /\ todo["main"] = Wipe(r)
       \/ \E r \in PiStart .. Rows - 1 :
            /\ BlankTo(r) /\ page = r /\ col = 0
            /\ todo["main"] = Then(BlankData, Wipe(r + 1))

Drawn == Idle("main") /\ BarShown(Written) /\ page = piRow /\ col = Written % Cols

Drawing ==
    /\ Written > 0 /\ BarShown(Written - 1)
    /\ \/ todo["main"] = <<Data(<<piData>>)>> /\ page = piRow /\ col = Written - 1
       \/ todo["main"] = <<SetPage(piRow), Data(<<piData>>)>> /\ Written = 1

LEMMA ThenSplits ==
    ASSUME NEW S, NEW x \in S, NEW s \in Seq(S)
    PROVE  Then(x, s) # <<>> /\ Head(Then(x, s)) = x /\ Tail(Then(x, s)) = s
<1>1. /\ <<x>> \o s \in Seq(S) /\ Len(<<x>> \o s) = Len(s) + 1
      /\ Head(<<x>> \o s) = x /\ Tail(<<x>> \o s) \in Seq(S) /\ Len(Tail(<<x>> \o s)) = Len(s)
      /\ \A i \in 1 .. Len(s) : Tail(<<x>> \o s)[i] = s[i]
  OBVIOUS
<1>2. Tail(<<x>> \o s) = s
  <2> DEFINE t == Tail(<<x>> \o s)
  <2>1. t \in Seq(S) /\ Len(t) = Len(s) /\ \A i \in 1 .. Len(t) : t[i] = s[i]
    BY ONLY <1>1
  <2> HIDE DEF t
  <2>2. t = s
    BY ONLY <2>1, SeqEqual, s \in Seq(S)
  <2>3. QED BY ONLY <2>2 DEF t
<1>3. <<x>> \o s # <<>>
  BY ONLY <1>1, s \in Seq(S), Len(<<>>) = 0
<1>4. QED BY ONLY <1>1, <1>2, <1>3 DEF Then

LEMMA SendsPage ==
    ASSUME BusInv, NEW r \in Row, Transfer("main"), Head(todo["main"]) = SetPage(r)
    PROVE  page' = r /\ col' = 0 /\ UNCHANGED <<panel, piVars>>
           /\ todo'["main"] = Tail(todo["main"])
<1>1. SetPage(r).page = r /\ r >= 0
  BY SetPageXfer DEF Row
<1>2. todo' = [todo EXCEPT !["main"] = Tail(@)] /\ "main" \in DOMAIN todo
  BY Layout DEF Transfer, BusInv
<1>3. QED BY <1>1, <1>2 DEF Transfer

LEMMA SendsData ==
    ASSUME BusInv, NEW d \in Seq(Cell), Transfer("main"), Head(todo["main"]) = Data(d)
    PROVE  /\ panel' = [panel EXCEPT ![page] = Shown(d, page)] /\ col' = (col + Len(d)) % Cols
           /\ UNCHANGED <<page, piVars>> /\ todo'["main"] = Tail(todo["main"])
<1>1. Data(d).page = -1 /\ Data(d).data = d /\ ~(-1 >= 0)
  BY DEF Data
<1>2. todo' = [todo EXCEPT !["main"] = Tail(@)] /\ "main" \in DOMAIN todo
  BY Layout DEF Transfer, BusInv
<1>3. QED BY <1>1, <1>2 DEF Transfer

(* Only the column sent changes.                                             *)
LEMMA ShownOne ==
    ASSUME BusInv, NEW b \in Cell, NEW c \in Col
    PROVE  Shown(<<b>>, page)[c] = IF c = col THEN b ELSE panel[page][c]
<1>1. PICK i \in Nat : i = (c - col) % Cols /\ (i = 0 <=> c = col)
  <2>1. c \in 0 .. Cols - 1 /\ col \in 0 .. Cols - 1
    BY DEF BusInv, Col
  <2>2. QED BY ONLY <2>1, Offset, Sizes
<1>2. Shown(<<b>>, page)[c] = IF i < 1 THEN <<b>>[i + 1] ELSE panel[page][c]
  <2>1. Len(<<b>>) = 1
    OBVIOUS
  <2>2. QED BY ONLY <1>1, <2>1, c \in Col DEF Shown
<1>3. i < 1 <=> i = 0
  OBVIOUS
<1>4. i = 0 => <<b>>[i + 1] = b
  OBVIOUS
<1>5. QED BY ONLY <1>1, <1>2, <1>3, <1>4

LEMMA ShownBlank ==
    ASSUME BusInv, col = 0, NEW c \in Col PROVE Shown(Run(Blank, Cols), page)[c] = Blank
<1>1. (c - col) % Cols = c /\ c \in 0 .. Cols - 1
  BY Sizes DEF Col
<1>2. Len(Run(Blank, Cols)) = Cols /\ Run(Blank, Cols)[c + 1] = Blank
  BY <1>1, Sizes DEF Run
<1>3. c < Cols
  BY <1>1, Sizes
<1>4. QED BY ONLY <1>1, <1>2, <1>3, c \in Col DEF Shown

LEMMA ConcatTail ==
    ASSUME NEW S, NEW q \in Seq(S), NEW s \in Seq(S)
    PROVE  /\ q = <<>> => q \o s = s
           /\ q # <<>> => Tail(q) \in Seq(S) /\ Tail(q \o s) = Tail(q) \o s
<1>1. q = <<>> => q \o s = s
  OBVIOUS
<1>2. ASSUME q # <<>> PROVE Tail(q) \in Seq(S) /\ Tail(q \o s) = Tail(q) \o s
  <2> DEFINE t == Tail(q \o s)
             u == Tail(q) \o s
  <2>1. Len(q) \in Nat \ {0} /\ Tail(q) \in Seq(S) /\ Len(Tail(q)) = Len(q) - 1
        /\ \A i \in 1 .. Len(q) - 1 : Tail(q)[i] = q[i + 1]
    BY <1>2
  <2>2. q \o s \in Seq(S) /\ Len(q \o s) = Len(q) + Len(s) /\ q \o s # <<>>
    BY <2>1
  <2>3. t \in Seq(S) /\ Len(t) = (Len(q) - 1) + Len(s)
        /\ \A i \in 1 .. Len(t) : t[i] = (q \o s)[i + 1]
    <3>1. ASSUME NEW v \in Seq(S), v # <<>>
          PROVE  Tail(v) \in Seq(S) /\ Len(Tail(v)) = Len(v) - 1
                 /\ \A i \in 1 .. Len(v) - 1 : Tail(v)[i] = v[i + 1]
      BY <3>1
    <3>2. t \in Seq(S) /\ Len(t) = Len(q \o s) - 1
          /\ \A i \in 1 .. Len(q \o s) - 1 : t[i] = (q \o s)[i + 1]
      BY ONLY <2>2, <3>1
    <3>3. Len(s) \in Nat
      OBVIOUS
    <3>4. Len(q \o s) - 1 = (Len(q) - 1) + Len(s)
      BY ONLY <2>1, <2>2, <3>3
    <3>5. QED BY ONLY <3>2, <3>4
  <2>4. u \in Seq(S) /\ Len(u) = (Len(q) - 1) + Len(s)
    BY <2>1
  <2>5. ASSUME NEW i \in 1 .. Len(t) PROVE t[i] = u[i]
    <3>1. CASE i <= Len(q) - 1
      BY <2>1, <2>3, <3>1
    <3>2. CASE i > Len(q) - 1
      BY <2>1, <2>3, <3>2
    <3>3. QED BY <2>1, <2>3, <3>1, <3>2
  <2>6. t = u
    <3> HIDE DEF t, u
    <3>1. QED BY ONLY <2>3, <2>4, <2>5, SeqEqual
  <2>7. QED BY ONLY <2>1, <2>6
<1>3. QED BY <1>1, <1>2

LEMMA Pair == ASSUME NEW S, NEW x \in S, NEW y \in S PROVE <<x>> \o <<y>> = <<x, y>>
<1> DEFINE s == <<x>> \o <<y>>
           t == <<x, y>>
<1>1. s \in Seq(S) /\ Len(s) = 2 /\ s[1] = x /\ s[2] = y
  OBVIOUS
<1>2. t \in Seq(S) /\ Len(t) = 2 /\ t[1] = x /\ t[2] = y
  OBVIOUS
<1>3. s = t
  <2> HIDE DEF s, t
  <2>1. Len(s) = Len(t) /\ \A i \in 1 .. Len(s) : s[i] = t[i]
    BY ONLY <1>1, <1>2
  <2>2. QED BY ONLY <1>1, <1>2, <2>1, SeqEqual
<1>4. QED BY ONLY <1>3

LEMMA WipingGoes ==
    ASSUME BusInv, Wiping, Transfer("main") PROVE Wiping' \/ Drawn'
<1>1. piRow = PiStart /\ piData = 1 /\ piCount = 0
  BY DEF Wiping
<1>2. SetPage(PiStart) \in Xfer /\ BlankData \in Xfer /\ Run(Blank, Cols) \in Seq(Cell)
      /\ PiStart \in Row /\ PiStart \in 0 .. Rows
  <2>1. PiStart \in Row /\ PiStart \in 0 .. Rows /\ Blank \in Cell /\ Cols \in Nat
    BY Sizes, Layout
  <2>2. Run(Blank, Cols) \in Seq(Cell)
    BY ONLY <2>1, RunType
  <2>3. QED BY ONLY <2>1, <2>2, SetPageXfer, DataXfer DEF BlankData
<1>3. BlankTo(PiStart)'
  BY Sizes DEF BlankTo
<1>4. UNCHANGED piVars
  BY DEF Transfer
<1>5. CASE \E q \in Seq(Xfer) : q # <<>> /\ todo["main"] = q \o Wipe(PiStart)
  <2>1. PICK q \in Seq(Xfer) : q # <<>> /\ todo["main"] = q \o Wipe(PiStart)
    BY <1>5
  <2>2. todo'["main"] = Tail(q \o Wipe(PiStart))
    BY <2>1, Layout DEF Transfer, BusInv
  <2>3. Tail(q) \in Seq(Xfer) /\ todo'["main"] = Tail(q) \o Wipe(PiStart)
    BY ONLY <1>2, <2>1, <2>2, ConcatTail, WipeType
  <2>4. Wiping'
    BY <1>1, <1>4, <2>3 DEF Wiping, piVars
  <2>5. QED BY <2>4
<1>6. CASE \E r \in PiStart .. Rows - 1 : BlankTo(r) /\ todo["main"] = Wipe(r)
  <2>1. PICK r \in PiStart .. Rows - 1 : BlankTo(r) /\ todo["main"] = Wipe(r)
    BY <1>6
  <2>2. r \in 0 .. Rows - 1 /\ r \in Row /\ r + 1 \in 0 .. Rows
    BY Sizes DEF Row
  <2>3. Wipe(r) = Then(SetPage(r), Then(BlankData, Wipe(r + 1)))
    BY <2>2, WipeRow
  <2>4. SetPage(r) \in Xfer /\ Wipe(r + 1) \in Seq(Xfer)
    BY <2>2, SetPageXfer, WipeType
  <2>5. Then(BlankData, Wipe(r + 1)) \in Seq(Xfer)
    BY <1>2, <2>4 DEF Then
  <2>6. Head(todo["main"]) = SetPage(r) /\ Tail(todo["main"]) = Then(BlankData, Wipe(r + 1))
    <3>1. /\ Head(Then(SetPage(r), Then(BlankData, Wipe(r + 1)))) = SetPage(r)
          /\ Tail(Then(SetPage(r), Then(BlankData, Wipe(r + 1)))) = Then(BlankData, Wipe(r + 1))
      BY ONLY <2>4, <2>5, ThenSplits, Zenon
    <3>2. QED BY ONLY <2>1, <2>3, <3>1, Zenon
  <2>7. page' = r /\ col' = 0 /\ panel' = panel /\ todo'["main"] = Then(BlankData, Wipe(r + 1))
    BY <2>2, <2>6, SendsPage
  <2>8. BlankTo(r)'
    BY <2>1, <2>7 DEF BlankTo
  <2>9. Wiping'
    BY <1>1, <1>4, <2>7, <2>8 DEF Wiping, piVars
  <2>10. QED BY <2>9
<1>7. CASE BlankTo(Rows) /\ todo["main"] = Wipe(Rows)
  <2>1. Head(todo["main"]) = SetPage(PiStart) /\ Tail(todo["main"]) = <<>>
    BY <1>2, <1>7, WipeEnds
  <2>2. page' = PiStart /\ col' = 0 /\ panel' = panel /\ todo'["main"] = <<>>
    BY <1>2, <2>1, SendsPage
  <2>3. piRow' = PiStart /\ piData' = 1 /\ piCount' = 0 /\ Written' = 0
    BY <1>1, <1>4 DEF piVars, Written, FirstPass
  <2>4. BarShown(0)'
    <3>1. ASSUME NEW r \in PiStart .. Rows - 1, NEW c \in Col PROVE panel'[r][c] = BarCell(r, c, 0)'
      <4>1. panel'[r][c] = 0
        BY <1>7, <2>2 DEF BlankTo, Blank
      <4>2. BarCell(r, c, 0)' = 0
        <5>1. ~(r < PiStart) /\ ~(c < 0)
          BY Sizes DEF Col
        <5>2. QED BY <2>3, <5>1 DEF BarCell
      <4>3. QED BY <4>1, <4>2
    <3>2. QED BY <3>1 DEF BarShown
  <2>5. 0 % Cols = 0
    BY Sizes
  <2>6. Drawn'
    BY <2>2, <2>3, <2>4, <2>5 DEF Drawn, Idle
  <2>7. QED BY <2>6
<1>8. CASE \E r \in PiStart .. Rows - 1 : BlankTo(r) /\ page = r /\ col = 0
                                         /\ todo["main"] = Then(BlankData, Wipe(r + 1))
  <2>1. PICK r \in PiStart .. Rows - 1 :
          BlankTo(r) /\ page = r /\ col = 0 /\ todo["main"] = Then(BlankData, Wipe(r + 1))
    BY <1>8
  <2>2. r + 1 \in 0 .. Rows /\ r + 1 \in PiStart .. Rows /\ r \in Row
    BY Sizes DEF Row
  <2>3. Wipe(r + 1) \in Seq(Xfer)
    BY <2>2, WipeType
  <2>4. Head(todo["main"]) = BlankData /\ Tail(todo["main"]) = Wipe(r + 1)
    BY ONLY <1>2, <2>1, <2>3, ThenSplits
  <2>5. /\ panel' = [panel EXCEPT ![page] = Shown(Run(Blank, Cols), page)]
        /\ todo'["main"] = Wipe(r + 1)
    BY <1>2, <2>4, SendsData DEF BlankData
  <2>6. ASSUME NEW q \in PiStart .. (r + 1) - 1, NEW c \in Col PROVE panel'[q][c] = Blank
    <3>1. q \in Row
      BY Sizes DEF Row
    <3>2. CASE q = r
      <4>1. panel'[q] = Shown(Run(Blank, Cols), page)
        BY <2>1, <2>5, <3>1, <3>2 DEF BusInv
      <4>2. QED BY <2>1, <4>1, ShownBlank
    <3>3. CASE q # r
      <4>1. panel'[q] = panel[q]
        BY <2>1, <2>5, <3>1, <3>3 DEF BusInv
      <4>2. q \in PiStart .. r - 1
        BY <3>3, Sizes
      <4>3. QED BY <2>1, <4>1, <4>2 DEF BlankTo
    <3>4. QED BY <3>2, <3>3
  <2>7. BlankTo(r + 1)'
    BY <2>6 DEF BlankTo
  <2>8. Wiping'
    BY <1>1, <1>4, <2>2, <2>5, <2>7 DEF Wiping, piVars
  <2>9. QED BY <2>8
<1>9. QED
  <2>1. BlankTo(PiStart)
    BY Sizes DEF BlankTo
  <2>2. ASSUME NEW q \in Seq(Xfer), todo["main"] = q \o Wipe(PiStart)
        PROVE  q # <<>> \/ todo["main"] = Wipe(PiStart)
    BY ONLY <1>2, <2>2, ConcatTail, WipeType
  <2>3. PiStart \in PiStart .. Rows - 1
    BY Sizes
  <2>4. \A r \in PiStart .. Rows : r \in PiStart .. Rows - 1 \/ r = Rows
    BY Sizes
  <2>5. QED BY <1>5, <1>6, <1>7, <1>8, <2>1, <2>2, <2>3, <2>4 DEF Wiping

LEMMA DrawingGoes ==
    ASSUME BusInv, Progress, Drawing, Transfer("main") PROVE Drawing' \/ Drawn'
<1>1. /\ piRow \in PiStart .. Rows - 1 /\ piData \in 1 .. Bits /\ Written \in 1 .. Cols
      /\ piRow \in Row /\ piData \in Cell
  BY WrittenType, Sizes, CellType DEF Progress, Drawing, Row
<1>2. UNCHANGED piVars
  BY DEF Transfer
<1>3. Written' = Written /\ \A r, c, w : BarCell(r, c, w)' = BarCell(r, c, w)
  BY <1>2 DEF piVars, Written, FirstPass, BarCell
<1>4. SetPage(piRow) \in Xfer /\ Data(<<piData>>) \in Xfer /\ <<piData>> \in Seq(Cell)
  <2>1. <<piData>> \in Seq(Cell)
    BY ONLY <1>1
  <2>2. QED BY ONLY <1>1, <2>1, SetPageXfer, DataXfer
<1>5. CASE todo["main"] = <<SetPage(piRow), Data(<<piData>>)>> /\ Written = 1
  <2>1. Head(todo["main"]) = SetPage(piRow) /\ Tail(todo["main"]) = <<Data(<<piData>>)>>
    BY <1>4, <1>5
  <2>2. page' = piRow /\ col' = 0 /\ panel' = panel /\ todo'["main"] = <<Data(<<piData>>)>>
    BY <1>1, <2>1, SendsPage
  <2>3. (Written > 0)' /\ BarShown(Written - 1)'
    BY <1>3, <2>2 DEF Drawing, BarShown
  <2>4. (col = Written - 1)' /\ (page = piRow)' /\ (todo["main"] = <<Data(<<piData>>)>>)'
    BY <1>2, <1>3, <1>5, <2>2 DEF piVars
  <2>5. QED BY <2>3, <2>4 DEF Drawing
<1>6. CASE todo["main"] = <<Data(<<piData>>)>> /\ page = piRow /\ col = Written - 1
  <2>1. Head(todo["main"]) = Data(<<piData>>) /\ Tail(todo["main"]) = <<>>
    BY <1>4, <1>6
  <2>2. /\ panel' = [panel EXCEPT ![page] = Shown(<<piData>>, page)] /\ page' = page
        /\ col' = (col + Len(<<piData>>)) % Cols /\ todo'["main"] = <<>>
    BY <1>4, <2>1, SendsData
  <2>3. ASSUME NEW r \in PiStart .. Rows - 1, NEW c \in Col
        PROVE  panel'[r][c] = BarCell(r, c, Written)
    <3>1. panel[r][c] = BarCell(r, c, Written - 1) /\ r \in Row
      BY Sizes DEF Drawing, BarShown, Row
    <3>2. CASE r # piRow
      <4>1. panel'[r] = panel[r]
        BY <1>6, <2>2, <3>1, <3>2 DEF BusInv
      <4>2. BarCell(r, c, Written) = BarCell(r, c, Written - 1)
        BY <1>1, <3>2, Sizes DEF BarCell
      <4>3. QED BY <3>1, <4>1, <4>2
    <3>3. CASE r = piRow
      <4>1. panel'[r] = Shown(<<piData>>, page)
        BY <1>1, <1>6, <2>2, <3>3 DEF BusInv
      <4>2. panel'[r][c] = IF c = col THEN piData ELSE panel[r][c]
        BY <1>1, <1>6, <3>3, <4>1, ShownOne
      <4>3. ~(r > piRow) /\ ~(r < piRow)
        BY <1>1, <3>3, Sizes
      <4>4. \A w : BarCell(r, c, w) = IF c < w THEN piData
                     ELSE IF piData = 2 /\ LeftOut(r, c) THEN 0 ELSE piData - 1
        BY ONLY <4>3 DEF BarCell
      <4>5. CASE c = col
        <5>1. c < Written
          BY <1>1, <1>6, <4>5, Sizes
        <5>2. QED BY ONLY <4>2, <4>4, <4>5, <5>1
      <4>6. CASE c # col
        <5>1. c < Written <=> c < Written - 1
          BY <1>1, <1>6, <4>6, Sizes DEF Col
        <5>2. QED BY ONLY <3>1, <4>2, <4>4, <4>6, <5>1
      <4>7. QED BY ONLY <4>5, <4>6
    <3>4. QED BY <3>2, <3>3
  <2>4. BarShown(Written)'
    BY <1>3, <2>3 DEF BarShown
  <2>5. (page = piRow)' /\ Idle("main")' /\ (col = Written % Cols)'
    <3>1. Len(<<piData>>) = 1 /\ (Written - 1) + 1 = Written
      BY <1>1
    <3>2. col' = Written % Cols
      BY ONLY <1>6, <2>2, <3>1
    <3>3. QED BY <1>2, <1>3, <1>6, <2>2, <3>2 DEF piVars, Idle
  <2>6. QED BY <2>4, <2>5 DEF Drawn
<1>7. QED BY <1>5, <1>6 DEF Drawing

(* A tick that is not the last: its column is the next of the row, or the    *)
(* first of the row's next pass or of the next row.                          *)
LEMMA TickDraws ==
    ASSUME BusInv, Progress, Drawn, dev = TRUE, IncPi("main"), ticks \in Nat,
           ticks' = ticks + 1, ticks' < TotalPi
    PROVE  Drawing'
<1>1. /\ piRow \in PiStart .. Rows - 1 /\ piData \in 1 .. Bits /\ piCount \in 0 .. Cols - 1
      /\ Written \in 0 .. Cols
  BY WrittenType DEF Progress, Col
<1>2. Progress' /\ (RowIsFull => NextRow \in PiStart .. Rows - 1)
  BY TickStep
<1>3. BarShown(Written) /\ page = piRow /\ col = Written % Cols
  BY DEF Drawn
<1>4. CASE ~RowIsFull
  <2>1. /\ piCount' = piCount + 1 /\ piRow' = piRow /\ piData' = piData
        /\ Draws("main", <<Data(<<piData>>)>>)
    BY <1>4 DEF IncPi
  <2>2. todo'["main"] = <<Data(<<piData>>)>> /\ UNCHANGED <<panel, page, col>>
    BY <2>1, Layout DEF Draws, Calls, BusInv
  <2>3. Written' = Written + 1 /\ \A r, c, w : BarCell(r, c, w)' = BarCell(r, c, w)
    BY <1>1, <2>1 DEF Written, FirstPass, BarCell
  <2>4. Written \in 0 .. Cols - 1
    BY <1>1, <1>4, Sizes DEF RowIsFull, Written
  <2>5. (Written > 0)' /\ (Written - 1)' = Written
    BY <2>3, <2>4
  <2>6. BarShown(Written - 1)'
    BY <1>3, <2>2, <2>3, <2>5 DEF BarShown
  <2>7. (todo["main"] = <<Data(<<piData>>)>>)' /\ (page = piRow)'
    BY <1>3, <2>1, <2>2
  <2>8. (col = Written - 1)'
    <3>1. Written % Cols = Written
      BY <2>4, Sizes
    <3>2. QED BY <1>3, <2>2, <2>5, <3>1
  <2>9. QED BY <2>5, <2>6, <2>7, <2>8 DEF Drawing
<1>5. CASE RowIsFull
  <2>1. /\ piCount = Cols - 1 /\ Written = IF FirstPass THEN Cols - 1 ELSE Cols
    BY <1>1, <1>5, Sizes DEF RowIsFull, Written
  <2>2. PICK n \in PiStart .. Rows - 1 : n = NextRow /\ ~(n >= Rows) /\ n \in Row
    BY <1>2, <1>5, Sizes DEF Row
  <2>3. PiRowOf(n) = n
    BY <2>2 DEF PiRowOf
  <2>4. /\ piRow' = n /\ piCount' = 0 /\ piData' = (IF piData = Bits THEN 1 ELSE piData + 1)
        /\ Draws("main", SetupPiRow(n) \o <<Data(<<piData'>>)>>)
    BY <1>5, <2>2, <2>3 DEF IncPi
  <2>5. SetupPiRow(n) \o <<Data(<<piData'>>)>> = <<SetPage(n), Data(<<piData'>>)>>
    <3>1. SetupPiRow(n) = <<>> \o <<SetPage(n)>>
      BY ONLY <2>2, <2>3, Zenon DEF SetupPiRow
    <3>2. PICK x \in Xfer, y \in Xfer : x = SetPage(n) /\ y = Data(<<piData'>>)
      <4>1. <<piData'>> \in Seq(Cell)
        BY <1>1, <2>4, Sizes, CellType
      <4>2. QED BY <2>2, <4>1, SetPageXfer, DataXfer
    <3>3. (<<>> \o <<x>>) \o <<y>> = <<x, y>>
      <4>1. <<x>> \in Seq(Xfer) /\ <<>> \in Seq(Xfer)
        OBVIOUS
      <4>2. <<>> \o <<x>> = <<x>>
        BY ONLY <4>1, ConcatTail
      <4>3. <<x>> \o <<y>> = <<x, y>>
        BY ONLY Pair, x \in Xfer, y \in Xfer
      <4>4. QED BY ONLY <4>2, <4>3
    <3>4. QED BY ONLY <3>1, <3>2, <3>3
  <2>6. todo'["main"] = <<SetPage(n), Data(<<piData'>>)>> /\ UNCHANGED <<panel, page, col>>
    BY <2>4, <2>5, Layout DEF Draws, Calls, BusInv
  <2>7. n = (IF piData = Bits THEN piRow + 1 ELSE piRow)
    BY <2>2 DEF NextRow
  <2>8. ~FirstPass'
    BY <1>1, <2>4, <2>7, Sizes DEF FirstPass
  <2>9. Written' = 1
    BY <2>4, <2>8 DEF Written
  <2>10. ASSUME NEW r \in PiStart .. Rows - 1, NEW c \in Col
         PROVE  panel'[r][c] = BarCell(r, c, 0)'
    <3>1. panel'[r][c] = BarCell(r, c, Written) /\ c \in 0 .. Cols - 1 /\ ~(c < 0)
      BY <1>3, <2>6, Sizes DEF BarShown, Col
    <3>2. PICK k \in Nat, d \in Nat, e \in Nat, w \in Nat :
            /\ k = piRow /\ d = piData /\ w = Written /\ e = (IF d = Bits THEN 1 ELSE d + 1)
            /\ e = piData'
      <4>1. piRow \in Nat /\ piData \in Nat /\ Written \in Nat
        BY ONLY <1>1, Sizes
      <4>2. piData' \in Nat
        BY ONLY <2>4, <4>1
      <4>3. QED BY ONLY <2>4, <4>1, <4>2
    <3>3. BarCell(r, c, 0)'
            = IF r > n THEN 0
              ELSE IF r < n THEN (IF Bits = 1 /\ LeftOut(r, c) THEN 0 ELSE Bits)
              ELSE IF e = 2 /\ LeftOut(r, c) THEN 0 ELSE e - 1
      <4>1. ~(r > n /\ r < n)
        BY Sizes
      <4>2. QED BY ONLY <2>4, <3>1, <3>2, <4>1 DEF BarCell, LeftOut
    <3>4. BarCell(r, c, Written)
            = IF r > k THEN 0
              ELSE IF r < k THEN (IF Bits = 1 /\ LeftOut(r, c) THEN 0 ELSE Bits)
              ELSE IF c < w THEN d
              ELSE IF d = 2 /\ LeftOut(r, c) THEN 0 ELSE d - 1
      <4>1. ~(r > k /\ r < k)
        BY Sizes
      <4>2. QED BY ONLY <3>2, <4>1 DEF BarCell
    <3>5. /\ n = IF d = Bits THEN k + 1 ELSE k
          /\ w = IF k = PiStart /\ d = 1 THEN Cols - 1 ELSE Cols
          /\ d \in 1 .. Bits /\ k \in PiStart .. Rows - 1
      BY ONLY <1>1, <2>1, <2>7, <3>2 DEF FirstPass
    <3>6. BarCell(r, c, 0)' = BarCell(r, c, Written)
      BY ONLY <3>1, <3>2, <3>3, <3>4, <3>5, Sizes, r \in PiStart .. Rows - 1 DEF LeftOut
    <3>7. QED BY ONLY <3>1, <3>6
  <2>11. (Written > 0)' /\ BarShown(Written - 1)'
    <3>1. (Written - 1)' = 0
      BY <2>9
    <3>2. BarShown(0)'
      BY <2>10 DEF BarShown
    <3>3. QED BY <2>9, <3>1, <3>2
  <2>12. (todo["main"] = <<SetPage(piRow), Data(<<piData>>)>>)' /\ (Written = 1)'
    BY <2>4, <2>6, <2>9
  <2>13. QED BY <2>11, <2>12 DEF Drawing
<1>6. QED BY <1>4, <1>5

---------------------------------------------------------------------------
(* The indicator shows the ticks.                                            *)

Indicator ==
    (dev /\ Moving /\ alone /\ ticks < TotalPi) => Idle("event") /\ (Wiping \/ Drawn \/ Drawing)

(* What has a call under way is not idle.                                    *)
LEMMA DrawnWhenIdle == ASSUME Idle("main"), Wiping \/ Drawn \/ Drawing PROVE Drawn
<1>1. todo["main"] = <<>>
  BY DEF Idle
<1>2. ~Drawing
  BY <1>1 DEF Drawing
<1>3. ~Wiping
  <2>1. SUFFICES ASSUME Wiping PROVE FALSE
    OBVIOUS
  <2>2. ASSUME NEW q \in Seq(Xfer), <<>> = q \o Wipe(PiStart) PROVE FALSE
    <3>1. PiStart \in 0 .. Rows
      BY Sizes
    <3>2. PICK s \in Seq(Xfer) : s = Wipe(PiStart) /\ s # <<>>
      BY <3>1, WipeType
    <3>3. q \o s # <<>>
      <4>1. Len(q \o s) = Len(q) + Len(s) /\ Len(s) > 0 /\ Len(q) >= 0
        BY <3>2
      <4>2. Len(<<>>) = 0
        OBVIOUS
      <4>3. QED BY ONLY <4>1, <4>2, q \in Seq(Xfer), s \in Seq(Xfer)
    <3>4. QED BY <2>2, <3>2, <3>3
  <2>3. ASSUME NEW r \in PiStart .. Rows, <<>> = Wipe(r) PROVE FALSE
    <3>1. r \in 0 .. Rows
      BY Sizes
    <3>2. QED BY <2>3, <3>1, WipeType
  <2>4. ASSUME NEW r \in PiStart .. Rows - 1, <<>> = Then(BlankData, Wipe(r + 1)) PROVE FALSE
    <3>1. r + 1 \in 0 .. Rows /\ Blank \in Cell /\ Cols \in Nat
      BY Sizes, Layout
    <3>2. BlankData \in Xfer /\ Wipe(r + 1) \in Seq(Xfer)
      <4>1. Run(Blank, Cols) \in Seq(Cell)
        BY ONLY <3>1, RunType
      <4>2. QED BY ONLY <3>1, <4>1, WipeType, DataXfer DEF BlankData
    <3>3. QED BY ONLY <2>4, <3>2, ThenSplits
  <2>5. QED BY <1>1, <2>1, <2>2, <2>3, <2>4 DEF Wiping
<1>4. QED BY <1>2, <1>3

LEMMA DrawingStays ==
    ASSUME Wiping \/ Drawn \/ Drawing, UNCHANGED <<panel, page, col, todo, piVars>>
    PROVE  (Wiping \/ Drawn \/ Drawing)'
<1>1. Written' = Written /\ \A r, c, w : BarCell(r, c, w)' = BarCell(r, c, w)
  BY DEF piVars, Written, FirstPass, BarCell
<1>2. \A w : BarShown(w)' <=> BarShown(w)
  BY <1>1 DEF BarShown
<1>3. \A r : BlankTo(r)' <=> BlankTo(r)
  BY DEF BlankTo
<1>4. CASE Wiping
  BY <1>3, <1>4 DEF Wiping, piVars
<1>5. CASE Drawn
  BY <1>1, <1>2, <1>5 DEF Drawn, Idle, piVars
<1>6. CASE Drawing
  BY <1>1, <1>2, <1>6 DEF Drawing, piVars
<1>7. QED BY <1>4, <1>5, <1>6

LEMMA StartWipes ==
    ASSUME BoardInv, NEW j \in Job, StartTransfer(j), dev = TRUE
    PROVE  Wiping'
<1> DEFINE q == DrawRow(MsgRow, MsgText, Chars)
           xs == q \o ClearFrom(PiStart) \o SetupPiRow(PiStart)
<1>1. PiRowOf(PiStart) = PiStart /\ ~(PiStart >= Rows) /\ PiStart \in Row /\ PiStart \in 0 .. Rows
  BY Sizes, Layout DEF PiRowOf
<1>2. q \in Seq(Xfer) /\ ClearFrom(PiStart) \in Seq(Xfer) /\ SetPage(PiStart) \in Xfer
  BY ONLY <1>1, WaitingGoes, ClearGoes, SetPageXfer DEF Goes
<1>3. xs = q \o Wipe(PiStart)
  <2>1. SetupPiRow(PiStart) = <<SetPage(PiStart)>>
    <3>1. SetupPiRow(PiStart) = <<>> \o <<SetPage(PiStart)>>
      BY ONLY <1>1, Zenon DEF SetupPiRow
    <3>2. <<SetPage(PiStart)>> \in Seq(Xfer) /\ <<>> \in Seq(Xfer)
      BY <1>2
    <3>3. QED BY ONLY <3>1, <3>2, ConcatTail
  <2>3. <<SetPage(PiStart)>> \in Seq(Xfer)
    BY <1>2
  <2>4. (q \o ClearFrom(PiStart)) \o <<SetPage(PiStart)>>
          = q \o (ClearFrom(PiStart) \o <<SetPage(PiStart)>>)
    <3> HIDE DEF q
    <3>1. QED BY ONLY <1>2, <2>3, ConcatAssociative
  <2>5. QED BY ONLY <2>1, <2>4, Zenon DEF Wipe, Ends
<1>4. Draws("main", xs) /\ piRow' = PiStart /\ piData' = 1 /\ piCount' = 0
  BY <1>1 DEF StartTransfer, StartPi
<1>5. todo'["main"] = q \o Wipe(PiStart)
  <2>1. todo' = [todo EXCEPT !["main"] = xs]
    BY <1>4 DEF Draws, Calls
  <2>2. "main" \in DOMAIN todo
    BY Layout DEF BoardInv, BusInv
  <2>3. QED BY ONLY <1>3, <2>1, <2>2
<1> HIDE DEF q
<1>6. QED BY <1>2, <1>4, <1>5 DEF Wiping

LEMMA IndicatorStep == ASSUME BoardInv, Indicator, [Next]_vars PROVE Indicator'
<1> SUFFICES ASSUME (dev /\ Moving /\ alone /\ ticks < TotalPi)'
    PROVE  Idle("event")' /\ (Wiping \/ Drawn \/ Drawing)'
  BY DEF Indicator
<1>1. BusInv /\ BarInv /\ ticks \in Nat
  BY DEF BoardInv, BarInv
<1>2. ASSUME dev, Moving, alone, ticks < TotalPi
      PROVE  Idle("event") /\ (Wiping \/ Drawn \/ Drawing) /\ Progress
  BY <1>1, <1>2 DEF Indicator, BarInv
<1>3. CASE UNCHANGED oledVars /\ UNCHANGED <<alone, ticks>> /\ (Moving' => Moving)
  <2>1. Idle("event") /\ (Wiping \/ Drawn \/ Drawing)
    BY <1>2, <1>3 DEF oledVars
  <2>2. Idle("event")'
    BY <1>3, <2>1 DEF oledVars, Idle
  <2>3. QED BY <1>3, <2>1, <2>2, DrawingStays DEF oledVars
<1>4. CASE HwInit \/ WifiInit \/ DrawAp \/ DrawWaiting \/ Refuse \/ EndTransfer \/ Reset
  BY <1>4
  DEF HwInit, WifiInit, DrawAp, DrawWaiting, Refuse, EndTransfer, Reset, mainVars, Moving
<1>5. CASE Tick
  <2>1. /\ IncPi("main") /\ ticks' = ticks + 1 /\ Moving /\ alone' = alone
    BY <1>5 DEF Tick
  <2>2. dev' = dev /\ Idle("main") /\ todo'["event"] = todo["event"]
    <3>1. PICK xs : Draws("main", xs)
      BY <2>1 DEF IncPi
    <3>2. QED BY <1>1, <3>1, Layout DEF Draws, Calls, BusInv
  <2>3. ticks < TotalPi /\ ticks' < TotalPi
    BY <1>1, <2>1, Sizes
  <2>4. Idle("event") /\ (Wiping \/ Drawn \/ Drawing) /\ Progress /\ dev
    BY <1>2, <2>1, <2>2, <2>3
  <2>5. Drawn
    BY <2>2, <2>4, DrawnWhenIdle
  <2>6. Drawing'
    BY <1>1, <2>1, <2>3, <2>4, <2>5, TickDraws
  <2>7. QED BY <2>2, <2>4, <2>6 DEF Idle
<1>6. CASE \E j \in Job : StartTransfer(j)
  <2>1. PICK j \in Job : StartTransfer(j)
    BY <1>6
  <2>2. dev' = dev /\ todo'["event"] = todo["event"] /\ alone' = Idle("event")
    BY <1>1, <2>1, Layout DEF StartTransfer, StartPi, Draws, Calls, BusInv
  <2>3. Wiping'
    BY <2>1, <2>2, StartWipes
  <2>4. QED BY <2>2, <2>3 DEF Idle
<1>7. CASE \E n \in 0 .. Blk : Block(n)
  BY <1>3, <1>7 DEF Block, Moving
<1>8. CASE (\E n \in 0 .. Blk : BlockFails(n)) \/ GotIp \/ BusError
  BY <1>8 DEF BlockFails, GotIp, BusError
<1>9. CASE StaStart \/ Disconnected
  BY <1>3, <1>9 DEF StaStart, Disconnected, mainVars, Moving
<1>10. CASE Bus
  <2>1. PICK t \in Task : Transfer(t)
    BY <1>10 DEF Bus
  <2>2. UNCHANGED <<dev, main, ticks, alone>>
    BY <1>10 DEF Bus, Transfer, mainVars
  <2>3. Idle("event") /\ (Wiping \/ Drawn \/ Drawing) /\ Progress
    BY <1>2, <2>2 DEF Moving
  <2>4. t = "main"
    BY <2>1, <2>3, Layout DEF Transfer, Idle
  <2>5. Transfer("main") /\ todo'["event"] = todo["event"]
    BY <1>1, <2>1, <2>4, Layout DEF Transfer, BusInv
  <2>6. ~Drawn
    BY <2>5 DEF Drawn, Idle, Transfer
  <2>7. (Wiping \/ Drawn \/ Drawing)'
    BY <1>1, <2>3, <2>5, <2>6, WipingGoes, DrawingGoes
  <2>8. QED BY <2>3, <2>5, <2>7 DEF Idle
<1>11. CASE UNCHANGED vars
  BY <1>3, <1>11 DEF vars, mainVars, Moving
<1>12. QED BY <1>4, <1>5, <1>6, <1>7, <1>8, <1>9, <1>10, <1>11 DEF Next, MainStep

(* As long as nothing else draws and no I2C transfer is lost, the indicator  *)
(* shows as many pixels as ticks, or one more (sd1306.cpp:355-389).          *)
THEOREM BarIsTicks == Spec => []BarShowsTicks
<1>1. Init => Indicator
  BY DEF Init, Indicator, Moving
<1>2. Spec => []Indicator
  <2>1. BoardInv /\ Indicator /\ [Next]_vars => Indicator'
    BY IndicatorStep
  <2>2. QED BY <1>1, <2>1, BoardHolds, PTL DEF Spec
<1>3. BoardInv /\ Indicator => BarShowsTicks
  <2>1. SUFFICES ASSUME BoardInv, Indicator, dev, Moving, Idle("main"), alone, ticks < TotalPi
        PROVE  Cardinality(Pixels) - ticks \in 0 .. 1
    BY DEF BarShowsTicks
  <2>2. Drawn
    BY <2>1, DrawnWhenIdle DEF Indicator
  <2>3. Progress /\ ticks \in Nat
    BY <2>1 DEF BoardInv, BarInv
  <2>4. QED BY <2>1, <2>2, <2>3, BarCount DEF Drawn
<1>4. QED BY <1>2, <1>3, BoardHolds, PTL

=============================================================================
