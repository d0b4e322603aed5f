------------------------------ MODULE LcdConfig ------------------------------
(***************************************************************************)
(* The start-up configuration of the panel: lcd_3wire_config.v walks a     *)
(* table of LUT_SIZE registers and I2S_Controller.v sends each as a frame  *)
(* of 16 bits, in whose eighth bit the panel answers.  The first works on  *)
(* rising edges of the divided clock mI2S_CLK, the second on falling ones, *)
(* and they meet in a start/ready handshake.  One step is one edge of that *)
(* clock, or a reset (KEY0), which resets the panel as well.               *)
(*                                                                         *)
(* A word of the table is its index; a bit on the wire is the word it is   *)
(* from and its position.                                                  *)
(***************************************************************************)
EXTENDS Integers, Sequences

CONSTANTS
    LUT_SIZE,    \* registers in the table: 21
    MaxResets    \* bound: resets in one behaviour

ASSUME TableAssumption == LUT_SIZE \in Nat /\ LUT_SIZE > 0 /\ MaxResets \in Nat

FrameBits == 16
AckBit == 8       \* position of the answer in the frame
Done == 17        \* the value of mST at the end of a frame

VARIABLES
    mI2S_CLK,
    \* lcd_3wire_config
    lut_index, msetup_st, m3wire_str, m3wire_data, o3WIRE_BUSY_n,
    \* I2S_Controller
    mST, mSEN, mSCLK, mSDATA, mACK,
    \* the panel
    answer,       \* its answer in the current frame
    received,     \* the bits clocked in since it was selected
    accepted,     \* the words it has acknowledged, in order
    resets

config == <<lut_index, msetup_st, m3wire_str, m3wire_data, o3WIRE_BUSY_n>>
shifter == <<mST, mSEN, mSCLK, mSDATA, mACK>>
ltm_panel == <<answer, received, accepted>>
vars == <<mI2S_CLK, config, shifter, ltm_panel, resets>>

NoBit == [word |-> -1, bit |-> 0]

Init ==
    /\ mI2S_CLK = 0
    /\ lut_index = 0 /\ msetup_st = 0 /\ m3wire_str = FALSE /\ m3wire_data = 0
    /\ o3WIRE_BUSY_n = FALSE
    /\ mST = 0 /\ mSEN = TRUE /\ mSCLK = FALSE /\ mSDATA = NoBit /\ mACK = FALSE
    /\ answer = FALSE /\ received = <<>> /\ accepted = <<>>
    /\ resets = 0

m3wire_rdy == mST = Done

-----------------------------------------------------------------------------
(* Rising edges: the walk through the table.  The panel clocks a bit in on *)
(* the gated clock, I2S_CLK = mSCLK & mI2S_CLK.                            *)

\* What the panel sees: its own answer while the controller lets go of the
\* wire.
ShiftIn ==
    /\ received' = IF mSCLK /\ ~mSEN
                     THEN Append(received, IF mST = AckBit THEN NoBit ELSE mSDATA)
                     ELSE received
    /\ UNCHANGED <<answer, accepted>>

Rise ==
    /\ mI2S_CLK = 0 /\ mI2S_CLK' = 1
    /\ ShiftIn
    /\ UNCHANGED <<shifter, resets>>

\* States 0 and 1 give the shifter a falling edge without m3wire_str.
Prepare ==
    /\ lut_index < LUT_SIZE /\ msetup_st \in {0, 1}
    /\ msetup_st' = msetup_st + 1
    /\ o3WIRE_BUSY_n' = FALSE
    /\ UNCHANGED <<lut_index, m3wire_str, m3wire_data>>
    /\ Rise

StartWord ==
    /\ lut_index < LUT_SIZE /\ msetup_st = 2
    /\ m3wire_data' = lut_index
    /\ m3wire_str' = TRUE
    /\ msetup_st' = 3
    /\ o3WIRE_BUSY_n' = FALSE
    /\ UNCHANGED lut_index
    /\ Rise

AwaitReady ==
    /\ lut_index < LUT_SIZE /\ msetup_st = 3 /\ ~m3wire_rdy
    /\ o3WIRE_BUSY_n' = FALSE
    /\ UNCHANGED <<lut_index, msetup_st, m3wire_str, m3wire_data>>
    /\ Rise

\* Mistake (mutation runs only): the answer is not looked at.
EndWordAlways ==
    /\ lut_index < LUT_SIZE /\ msetup_st = 3 /\ m3wire_rdy
    /\ msetup_st' = 4
    /\ m3wire_str' = FALSE
    /\ o3WIRE_BUSY_n' = FALSE
    /\ UNCHANGED <<lut_index, m3wire_data>>
    /\ Rise

\* Mistake (mutation runs only): a refused word leaves the machine waiting.
EndWordStuck ==
    /\ lut_index < LUT_SIZE /\ msetup_st = 3 /\ m3wire_rdy
    /\ msetup_st' = IF mACK THEN 4 ELSE 3
    /\ m3wire_str' = FALSE
    /\ o3WIRE_BUSY_n' = FALSE
    /\ UNCHANGED <<lut_index, m3wire_data>>
    /\ Rise

\* A word the panel has not acknowledged is sent again.
EndWord ==
    /\ lut_index < LUT_SIZE /\ msetup_st = 3 /\ m3wire_rdy
    /\ msetup_st' = IF mACK THEN 4 ELSE 0
    /\ m3wire_str' = FALSE
    /\ o3WIRE_BUSY_n' = FALSE
    /\ UNCHANGED <<lut_index, m3wire_data>>
    /\ Rise

NextWord ==
    /\ lut_index < LUT_SIZE /\ msetup_st = 4
    /\ lut_index' = lut_index + 1
    /\ msetup_st' = 0
    /\ o3WIRE_BUSY_n' = FALSE
    /\ UNCHANGED <<m3wire_str, m3wire_data>>
    /\ Rise

TableSent ==
    /\ lut_index >= LUT_SIZE
    /\ o3WIRE_BUSY_n' = TRUE
    /\ UNCHANGED <<lut_index, msetup_st, m3wire_str, m3wire_data>>
    /\ Rise

-----------------------------------------------------------------------------
(* Falling edges: the shift register.                                      *)

Fall ==
    /\ mI2S_CLK = 1 /\ mI2S_CLK' = 0
    /\ UNCHANGED <<config, resets>>

\* Mistake (mutation runs only): the last bit is dropped.
DataBitShort ==
    mSDATA' = IF mST < FrameBits - 1 THEN [word |-> m3wire_data, bit |-> 15 - mST]
                                     ELSE mSDATA

DataBit ==
    mSDATA' = IF mST < FrameBits THEN [word |-> m3wire_data, bit |-> 15 - mST]
                                 ELSE mSDATA

SelectPanel ==
    /\ m3wire_str /\ mST = 0
    /\ mST' = 1 /\ mSEN' = FALSE /\ mSCLK' = TRUE
    /\ DataBit
    /\ received' = <<>> /\ answer' = FALSE
    /\ UNCHANGED <<mACK, accepted>>
    /\ Fall

ShiftBit ==
    /\ m3wire_str /\ mST \in 1 .. FrameBits - 1 /\ mST # AckBit
    /\ mST' = mST + 1
    /\ DataBit
    /\ UNCHANGED <<mSEN, mSCLK, mACK, ltm_panel>>
    /\ Fall

\* The panel's answer, or its absence, is sampled from the wire.
SampleAnswer(ack) ==
    /\ m3wire_str /\ mST = AckBit
    /\ mST' = mST + 1
    /\ answer' = ack /\ mACK' = ack
    /\ DataBit
    /\ UNCHANGED <<mSEN, mSCLK, received, accepted>>
    /\ Fall

DeselectPanel ==
    /\ m3wire_str /\ mST = FrameBits
    /\ mST' = Done /\ mSEN' = TRUE /\ mSCLK' = FALSE
    /\ accepted' = IF answer THEN Append(accepted, m3wire_data) ELSE accepted
    /\ UNCHANGED <<mSDATA, mACK, answer, received>>
    /\ Fall

\* After a frame: EndWord has cleared m3wire_str on the edge before, so that mST
\* = 17 never meets a falling edge with it set (there is no action for it, and
\* the runs check that nothing stops).
Rest ==
    /\ ~m3wire_str
    /\ mST' = 0 /\ mSEN' = TRUE /\ mSCLK' = FALSE /\ mSDATA' = NoBit /\ mACK' = FALSE
    /\ UNCHANGED ltm_panel
    /\ Fall

-----------------------------------------------------------------------------

\* m3wire_data has no reset.
Reset ==
    /\ resets < MaxResets
    /\ resets' = resets + 1
    /\ mI2S_CLK' = 0
    /\ lut_index' = 0 /\ msetup_st' = 0 /\ m3wire_str' = FALSE
    /\ o3WIRE_BUSY_n' = FALSE
    /\ mST' = 0 /\ mSEN' = TRUE /\ mSCLK' = FALSE /\ mSDATA' = NoBit /\ mACK' = FALSE
    /\ answer' = FALSE /\ received' = <<>> /\ accepted' = <<>>
    /\ UNCHANGED m3wire_data

RisingEdge ==
    Prepare \/ StartWord \/ AwaitReady \/ EndWord \/ NextWord \/ TableSent

FallingEdge ==
    \/ SelectPanel \/ ShiftBit \/ DeselectPanel \/ Rest
    \/ \E ack \in BOOLEAN : SampleAnswer(ack)

Edge == RisingEdge \/ FallingEdge
Next == Edge \/ Reset

Spec == Init /\ [][Next]_vars

\* The clock runs, and a panel that is asked again and again answers at last.
FairSpec == Spec /\ WF_vars(Edge) /\ SF_vars(SampleAnswer(TRUE))

-----------------------------------------------------------------------------
(* Properties. *)

Bits == [word : -1 .. LUT_SIZE - 1, bit : 0 .. 15]

TypeOK ==
    /\ mI2S_CLK \in {0, 1}
    /\ lut_index \in 0 .. LUT_SIZE /\ msetup_st \in 0 .. 4
    /\ m3wire_str \in BOOLEAN /\ m3wire_data \in 0 .. LUT_SIZE - 1
    /\ o3WIRE_BUSY_n \in BOOLEAN
    /\ mST \in 0 .. Done /\ mSEN \in BOOLEAN /\ mSCLK \in BOOLEAN
    /\ mSDATA \in Bits /\ mACK \in BOOLEAN
    /\ answer \in BOOLEAN /\ received \in Seq(Bits)
    /\ accepted \in Seq(0 .. LUT_SIZE - 1)
    /\ resets \in 0 .. MaxResets

\* The frame of a word: fifteen of its bits, the highest first, around the
\* panel's answer.
Frame(word) == [i \in 1 .. FrameBits |->
                  IF i = AckBit THEN NoBit ELSE [word |-> word, bit |-> FrameBits - i]]

\* Whenever the panel is deselected after a frame it has clocked in exactly
\* the frame of one word, although the word, the start signal, the bits and the
\* clock gate change on different edges in two state machines.
FrameIsWhole ==
    [][~mSEN /\ mSEN' /\ resets' = resets => received = Frame(m3wire_data)]_vars

\* The panel has acknowledged the words of the table in order and each once: a
\* refused word is sent again before the next, an acknowledged one never.  And
\* when o3WIRE_BUSY_n gives the shared wire to the touch digitiser's clock
\* (LTM_top.v:152), the panel has them all and is not selected, so that it never
\* takes that clock for its own.
ConfiguredInOrder ==
    /\ accepted = [i \in 1 .. Len(accepted) |-> i - 1]
    /\ Len(accepted) = lut_index + (IF (mACK /\ mST = Done) \/ msetup_st = 4 THEN 1 ELSE 0)
    /\ o3WIRE_BUSY_n => mSEN /\ ~mSCLK /\ Len(accepted) = LUT_SIZE

\* With a panel that answers in the end, the configuration ends for good.
Configured == <>[]o3WIRE_BUSY_n
=============================================================================
