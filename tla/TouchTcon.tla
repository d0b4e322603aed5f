----------------------------- MODULE TouchTcon -----------------------------
(***************************************************************************)
(* The timing of the panel, touch_tcon.v: two counters, the request for a  *)
(* pixel, and the registers of the sync, enable and colour signals.  One   *)
(* step is one clock of the pixel clock.                                   *)
(***************************************************************************)
EXTENDS Naturals

CONSTANTS
    H_LINE, V_LINE,                            \* 1056, 525
    Hsync_Blank, Hsync_Front_Porch,            \* 216, 40
    Vertical_Back_Porch, Vertical_Front_Porch  \* 35, 10

ASSUME TimingAssumption ==
    /\ {H_LINE, V_LINE, Hsync_Blank, Hsync_Front_Porch,
        Vertical_Back_Porch, Vertical_Front_Porch} \subseteq Nat \ {0}
    /\ Hsync_Blank > 1 /\ Hsync_Blank + Hsync_Front_Porch < H_LINE
    /\ Vertical_Back_Porch + Vertical_Front_Porch < V_LINE

VARIABLES
    x_cnt, y_cnt,
    mvd, mden,     \* the sync and enable signals, registered once
    oVD, oDEN,     \* ... and twice
    oLCD           \* the colour shown, registered once: oLCD_R, _G and _B

tcon == <<x_cnt, y_cnt, mvd, mden, oVD, oDEN, oLCD>>

TconInit(black) ==
    /\ x_cnt = 0 /\ y_cnt = 0
    /\ mvd = TRUE /\ mden = FALSE /\ oVD = FALSE /\ oDEN = FALSE
    /\ oLCD = black

DisplayLine == y_cnt > Vertical_Back_Porch - 1 /\ y_cnt < V_LINE - Vertical_Front_Porch

\* Mistake (mutation runs only): the request starts with the display area.
read_short ==
    /\ x_cnt > Hsync_Blank - 1 /\ x_cnt < H_LINE - Hsync_Front_Porch - 1
    /\ DisplayLine

oREAD_SDRAM_EN ==
    /\ x_cnt > Hsync_Blank - 2 /\ x_cnt < H_LINE - Hsync_Front_Porch - 1
    /\ DisplayLine

display_area ==
    /\ x_cnt > Hsync_Blank - 1 /\ x_cnt < H_LINE - Hsync_Front_Porch
    /\ DisplayLine

CountX == x_cnt' = IF x_cnt = H_LINE - 1 THEN 0 ELSE x_cnt + 1

CountY == y_cnt' = IF x_cnt # H_LINE - 1 THEN y_cnt
                   ELSE IF y_cnt = V_LINE - 1 THEN 0 ELSE y_cnt + 1

Sync(iRGB) ==
    /\ mvd' = (y_cnt # 0) /\ oVD' = mvd
    /\ mden' = display_area /\ oDEN' = mden
    /\ oLCD' = iRGB

PixelClock(iRGB) == CountX /\ CountY /\ Sync(iRGB)
=============================================================================
