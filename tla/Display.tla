------------------------------ MODULE Display ------------------------------
(***************************************************************************)
(* The picture: LtmMaster on the system clock and TouchTcon on the pixel   *)
(* clock, connected through the vertical sync and the FIFO, as LTM_top.v   *)
(* and DE2_70_TOP.v wire them.                                             *)
(*                                                                         *)
(* The picture is right only if the memory is fast enough: the FIFO has no *)
(* underflow check and nothing lines it up again.  MaxStall bounds the     *)
(* clocks a burst may be kept waiting for, altogether.                     *)
(***************************************************************************)
EXTENDS Integers, Sequences, TouchTcon, LtmMaster

CONSTANTS
    ClocksPerPixel,    \* system clocks per pixel clock: 150 / 6.25 = 24
    MaxStall           \* assumption: waiting clocks in one burst

ASSUME ClocksAssumption == ClocksPerPixel \in Nat \ {0} /\ MaxStall \in Nat

VARIABLES
    clocks,    \* system clocks since the last pixel clock
    stalls     \* waiting clocks in this burst

vars == <<tcon, master, clocks, stalls>>

Width == H_LINE - Hsync_Front_Porch - Hsync_Blank
Height == V_LINE - Vertical_Front_Porch - Vertical_Back_Porch

ASSUME FrameIsPicture == BMPLENGTH = Width * Height

\* The memory is fast enough: a burst begun when the FIFO seems to hold one
\* begins to arrive before what can be read of that is used up, it arrives no
\* slower than it is shown, the first one can be read before the first line is
\* over, and so is a burst in which the display is stopped.
ASSUME SpeedAssumption ==
    /\ MaxStall + 3 <= (RD_LENGTH - MaxUnseen - MaxLate) * ClocksPerPixel
    /\ MaxStall + 2 <= RD_LENGTH * (ClocksPerPixel - 1)
    /\ MaxStall + 4 <= (H_LINE - 2 - MaxLate) * ClocksPerPixel
    /\ MaxStall + RD_LENGTH + 3 <= (H_LINE - 2) * ClocksPerPixel

Init ==
    /\ TconInit(Black) /\ MasterInit
    /\ clocks = 0 /\ stalls = 0

MainWrites == (SetBuffer \/ EnableDisplay) /\ UNCHANGED <<tcon, clocks, stalls>>

Software ==
    /\ SetBuffer \/ EnableDisplay \/ DisableDisplay
    /\ UNCHANGED <<tcon, clocks, stalls>>

Waited == state \in {1, 2} /\ state' = state /\ rRDDataCnt' = rRDDataCnt

\* The master compares the sync of the pixel clock's domain directly.
SystemClock ==
    /\ clocks < ClocksPerPixel /\ clocks' = clocks + 1
    /\ MasterClock(oVD)
    /\ \/ Waited /\ stalls < MaxStall /\ stalls' = stalls + 1
       \/ ~Waited /\ stalls' = IF state \in {1, 2} THEN stalls ELSE 0
    /\ UNCHANGED tcon

\* The panel registers what the FIFO shows, and its request for a pixel pops
\* the FIFO, which is held empty while the display is stopped.
RequestPixel ==
    /\ clocks = ClocksPerPixel /\ clocks' = 0
    /\ PixelClock(rddata)
    /\ IF oREAD_SDRAM_EN /\ Readable
         THEN ReadFifo
         ELSE UNCHANGED master
    /\ UNCHANGED stalls

Next == Software \/ SystemClock \/ RequestPixel

Spec == Init /\ [][Next]_vars

\* The clocks run, and main reaches its two writes.
FairSpec == Spec /\ WF_vars(SystemClock \/ RequestPixel) /\ WF_vars(MainWrites)

-----------------------------------------------------------------------------
(* Properties. *)

TypeOK ==
    /\ x_cnt \in 0 .. H_LINE - 1 /\ y_cnt \in 0 .. V_LINE - 1
    /\ {mvd, mden, oVD, oDEN} \subseteq BOOLEAN /\ oLCD \in Words \cup {Black}
    /\ MasterTypeOK
    /\ clocks \in 0 .. ClocksPerPixel /\ stalls \in 0 .. MaxStall

\* A pixel is requested at the next clock.
Requested == clocks = ClocksPerPixel /\ oREAD_SDRAM_EN /\ mStart

\* The word of the frame buffer that belongs at the counters' position.
Here == [base |-> 1,
         word |-> (y_cnt - Vertical_Back_Porch) * Width + x_cnt - (Hsync_Blank - 1)]

\* The columns of the picture come out two clocks after they are counted.
Column == x_cnt - Hsync_Blank - 2

\* The panel gets, for every pixel it requests, the word of that pixel: the
\* bursts of the master, the requests of the panel, and the start and stop of
\* both at a vertical sync agree although neither counts what the other does,
\* and the FIFO always has the pixel when it is due.
RequestInPlace == Requested => Readable /\ Head(fifo) = Here

\* The colours come out two columns before the enable signal that goes with
\* them (a show-ahead FIFO makes one clock of delay, not three): column c of a
\* line is shown the pixel of column c + 2, and no other.
ColourInPlace ==
    mStart /\ Column \in 0 .. Width - 3 =>
        /\ oDEN <=> DisplayLine
        /\ oDEN => oLCD = [base |-> 1,
                           word |-> (y_cnt - Vertical_Back_Porch) * Width + Column + 2]

PixelInPlace == RequestInPlace /\ ColourInPlace

\* The last pixel of the picture is shown again and again, unless the display
\* is stopped again and again.
LastShown == Requested /\ Readable /\ Head(fifo) = [base |-> 1, word |-> BMPLENGTH - 1]
PictureShown == []<>LastShown \/ ([]<>rLcmEn /\ []<>~rLcmEn)
=============================================================================
