--------------------------- MODULE TouchGeometry ---------------------------
(***************************************************************************)
(* Where a touch ends up.  The digitiser reports two 12-bit coordinates;   *)
(* touch_isr turns them by a quarter and scales them to the 800 x 480      *)
(* panel; the main loop paints the point twice, as a stroke where it was   *)
(* touched and as a square in the 28 x 28 thumbnail in the corner of the   *)
(* panel; RECOGNISE turns the thumbnail back into the network's input.     *)
(*                                                                         *)
(* A point is a record of screen coordinates, a cell a pair <<x, y>> of    *)
(* the thumbnail, an input an index into normalized_frame.                 *)
(***************************************************************************)
EXTENDS Integers

Raw == 0 .. 4095
Side == 28
Cells == (0 .. Side - 1) \X (0 .. Side - 1)

\* touch_isr.  touch_x and touch_y are the values of TOUCHX and TOUCHY.
\* y reaches 480, one line below the panel, at touch_x = 0.
ScreenPoint(touch_x, touch_y) ==
    [x |-> (touch_y * 800) \div 4096, y |-> ((4096 - touch_x) * 480) \div 4096]

\* The ten lines and columns of a stroke, four after the point and five before.
TP == 10
InStroke(c, p) == c \in p - TP \div 2 .. p + TP \div 2 - 1

\* The part of a stroke that falls into the thumbnail.
Stroke(p) == {cell \in Cells : InStroke(cell[1], p.x) /\ InStroke(cell[2], p.y)}

mapped_x(p) == (p.x * 7) \div 200
mapped_y(p) == (p.y * 7) \div 120

\* Mistake (mutation runs only): a square of five by five.
WideSquare(p) ==
    {cell \in Cells : /\ cell[1] \in mapped_x(p) - 2 .. mapped_x(p) + 2
                      /\ cell[2] \in mapped_y(p) - 2 .. mapped_y(p) + 2}

Square(p) ==
    {cell \in Cells : /\ cell[1] \in mapped_x(p) - 1 .. mapped_x(p) + 1
                      /\ cell[2] \in mapped_y(p) - 1 .. mapped_y(p) + 1}

\* Rows and columns are exchanged and the rows reversed.
InputIndex(cell) == cell[1] * Side + (Side - 1 - cell[2])

-----------------------------------------------------------------------------
(* The reference: the digitiser's own square divided into 28 x 28.         *)

IdealRow(touch_y) == (touch_y * Side) \div 4096
IdealColumn(touch_x) == (touch_x * Side) \div 4096
IdealInput(touch_x, touch_y) == IdealRow(touch_y) * Side + IdealColumn(touch_x)

Distance(a, b) == IF a < b THEN b - a ELSE a - b

\* How far an input is from a touch, in rows or columns, whichever is more.
Near(index, touch_x, touch_y, d) ==
    /\ Distance(index \div Side, IdealRow(touch_y)) <= d
    /\ Distance(index % Side, IdealColumn(touch_x)) <= d

\* Outside this corner no part of a stroke is in the thumbnail.
InCorner(p) == p.x < Side + TP \div 2 /\ p.y < Side + TP \div 2
=============================================================================
