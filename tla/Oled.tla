-------------------------------- MODULE Oled --------------------------------
(* The display driver of the bootloader (sd1306.cpp) and the panel behind    *)
(* it.  The panel keeps one address for all who write: the page and column   *)
(* the next data byte goes to.  A task draws by a queue of I2C transfers,    *)
(* each of which is atomic on the bus; two tasks draw at the same time.      *)
EXTENDS Integers, Sequences, FiniteSets

CONSTANTS
    Cols,      \* columns of the panel (128)
    Rows,      \* its pages, the rows of text (8)
    Bits,      \* pixels of a column in a page (8)
    CharCols,  \* columns of a character (6)
    Task       \* tasks that draw

ASSUME PanelAssumption ==
    /\ Cols \in Nat \ {0} /\ Rows \in Nat \ {0} /\ Bits \in Nat \ {0}
    /\ CharCols \in 1 .. Cols

Row == 0 .. Rows - 1
Col == 0 .. Cols - 1

(* What a column of a page shows: nothing, the lowest 1 .. Bits pixels of    *)
(* the progress indicator, or a part of a text.                              *)
Blank == 0
ApText == Bits + 1
StaText == Bits + 2
MsgText == Bits + 3
Cell == 0 .. MsgText

VARIABLES
    dev,     \* whether init has found a panel
    panel,   \* [Row -> [Col -> Cell]]
    page,    \* the panel's address
    col,
    todo,    \* [Task -> transfers it has still to send in its current call]
    piRow,   \* pi_row
    piData,  \* pi_data, as the number of pixels set
    piCount  \* pi_count

piVars == <<piRow, piData, piCount>>
oledVars == <<dev, panel, page, col, todo, piVars>>

BlankRow == [c \in Col |-> Blank]
BlankPanel == [r \in Row |-> BlankRow]

(* Power on: the panel may show anything.                                    *)
PowerOn ==
    /\ dev = FALSE
    /\ \E x \in {Blank, MsgText} : panel = [r \in Row |-> [c \in Col |-> x]]
    /\ page = 0 /\ col = 0
    /\ todo = [t \in Task |-> <<>>]
    /\ piRow = 0 /\ piData = 0 /\ piCount = 0

(* Transfers: set the address to the start of a row, or write columns.       *)
SetPage(r) == [page |-> r, data |-> <<>>]
Data(cells) == [page |-> -1, data |-> cells]
Run(cell, n) == [i \in 1 .. n |-> cell]

(* draw_text_imp: the row's address, each character, blanks up to its end.   *)
DrawRow(r, cell, chars) ==
    <<SetPage(r)>> \o [i \in 1 .. chars |-> Data(Run(cell, CharCols))]
                   \o <<Data(Run(Blank, Cols - chars * CharCols))>>

(* Rows from .. to - 1, each with the same cell and number of characters.    *)
DrawRows(from, to, cell, chars) ==
    LET n == chars + 2
    IN  [i \in 1 .. (to - from) * n |->
           DrawRow(from + (i - 1) \div n, cell, chars)[((i - 1) % n) + 1]]
ClearFrom(r) == DrawRows(r, Rows, Blank, 0)

(* The address wraps to the start of the page it is in.                      *)
Shown(cells, r) ==
    [c \in Col |-> LET i == (c - col) % Cols
                   IN  IF i < Len(cells) THEN cells[i + 1] ELSE panel[r][c]]

Transfer(t) ==
    /\ todo[t] # <<>>
    /\ LET x == Head(todo[t])
       IN  IF x.page >= 0
             THEN page' = x.page /\ col' = 0 /\ UNCHANGED panel
             ELSE /\ panel' = [panel EXCEPT ![page] = Shown(x.data, page)]
                  /\ col' = (col + Len(x.data)) % Cols
                  /\ UNCHANGED page
    /\ todo' = [todo EXCEPT ![t] = Tail(@)]
    /\ UNCHANGED <<dev, piVars>>

(* A transfer that fails is logged, and the next one follows.                *)
TransferFails(t) ==
    /\ todo[t] # <<>> /\ todo' = [todo EXCEPT ![t] = Tail(@)]
    /\ UNCHANGED <<dev, panel, page, col, piVars>>

Idle(t) == todo[t] = <<>>
Calls(t, xs) == Idle(t) /\ todo' = [todo EXCEPT ![t] = xs] /\ UNCHANGED <<panel, page, col>>

(* Without a panel nothing is sent.                                          *)
Draws(t, xs) == Calls(t, IF dev THEN xs ELSE <<>>) /\ UNCHANGED dev

(* init looks for a panel; if there is one it clears the screen, row by row. *)
OledInit(t) ==
    /\ dev' \in BOOLEAN
    /\ Calls(t, IF dev' THEN ClearFrom(0) ELSE <<>>)
    /\ UNCHANGED piVars

(* setup_pi_row: behind the last row the whole screen is cleared and the     *)
(* indicator goes on in the first.                                           *)
PiRowOf_NoWrap(r) == r
PiRowOf(r) == IF r >= Rows THEN 0 ELSE r
SetupPiRow(r) == (IF r >= Rows THEN ClearFrom(0) ELSE <<>>) \o <<SetPage(PiRowOf(r))>>

StartPi(t, before, r) ==
    /\ Draws(t, before \o ClearFrom(r) \o SetupPiRow(r))
    /\ piRow' = PiRowOf(r) /\ piData' = 1 /\ piCount' = 0

(* inc_pi, one tick of the indicator.                                        *)
RowIsFull_Late == piCount + 1 > Cols
RowIsFull == piCount + 1 >= Cols
NextRow_EveryPass == piRow + 1
NextRow == IF piData = Bits THEN piRow + 1 ELSE piRow

IncPi(t) ==
    IF RowIsFull
      THEN /\ piRow' = PiRowOf(NextRow) /\ piCount' = 0
           /\ piData' = IF piData = Bits THEN 1 ELSE piData + 1
           /\ Draws(t, SetupPiRow(NextRow) \o <<Data(<<piData'>>)>>)
      ELSE /\ piCount' = piCount + 1 /\ UNCHANGED <<piRow, piData>>
           /\ Draws(t, <<Data(<<piData>>)>>)
=============================================================================
