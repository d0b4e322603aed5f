-------------------------- MODULE LcdConfigProofs --------------------------
(***************************************************************************)
(* Proofs about the panel's configuration: the two state machines, on      *)
(* opposite edges, send whole frames, and the panel has every word of the  *)
(* table in order and once, for tables of any length.                      *)
(***************************************************************************)
EXTENDS LcdConfig, TLAPS

\* Where the walk through the table is and where the shifter is.
Handshake ==
    /\ m3wire_str <=> msetup_st = 3
    /\ lut_index = LUT_SIZE => msetup_st = 0
    /\ m3wire_str => m3wire_data = lut_index
    \* A frame ends on a falling edge and is looked at on the rising one.
    /\ m3wire_str /\ mST = Done => mI2S_CLK = 0
    /\ ~m3wire_str => mST = 0 \/ (mST = Done /\ mI2S_CLK = 1)
    /\ mST = Done /\ mACK /\ ~m3wire_str => msetup_st = 4
    /\ ~m3wire_str /\ mST = 0 => ~mACK

\* The panel is selected and clocked while bits are sent; its answer is kept to
\* the end of the frame.
Selection ==
    /\ mSEN <=> mST \in {0, Done}
    /\ mSCLK <=> ~mSEN
    /\ mST > AckBit => mACK = answer

\* The bit on the wire, and the bits the panel has clocked in.
Bit(i) == IF i = AckBit THEN NoBit ELSE [word |-> m3wire_data, bit |-> FrameBits - i]
ClockedIn == IF mI2S_CLK = 1 THEN mST ELSE mST - 1
Shifted ==
    mST \in 1 .. FrameBits =>
        /\ mSDATA = [word |-> m3wire_data, bit |-> FrameBits - mST]
        /\ Len(received) = ClockedIn
        /\ \A i \in 1 .. ClockedIn : received[i] = Bit(i)

\* What the panel has acknowledged.
InOrder ==
    /\ \A i \in 1 .. Len(accepted) : accepted[i] = i - 1
    /\ Len(accepted) = lut_index + (IF (mACK /\ mST = Done) \/ msetup_st = 4 THEN 1 ELSE 0)
    /\ o3WIRE_BUSY_n => lut_index = LUT_SIZE

IInv == TypeOK /\ Handshake /\ Selection /\ Shifted /\ InOrder

-----------------------------------------------------------------------------

LEMMA NoBitIsBit == NoBit \in Bits
<1>1. -1 \in -1 .. LUT_SIZE - 1 /\ 0 \in 0 .. 15
  BY TableAssumption
<1> QED
  BY <1>1 DEF NoBit, Bits

LEMMA AppendInSeq ==
    ASSUME NEW S, NEW s \in Seq(S), NEW e \in S
    PROVE  Append(s, e) \in Seq(S)
OBVIOUS

LEMMA InitIInv == ASSUME Init PROVE IInv
<1>1. TypeOK
  <2>1. {m3wire_str, o3WIRE_BUSY_n, mSEN, mSCLK, mACK, answer} \subseteq BOOLEAN
    BY DEF Init
  <2>2. /\ mI2S_CLK \in {0, 1} /\ lut_index \in 0 .. LUT_SIZE /\ msetup_st \in 0 .. 4
        /\ m3wire_data \in 0 .. LUT_SIZE - 1 /\ mST \in 0 .. Done /\ resets \in 0 .. MaxResets
    BY TableAssumption DEF Init, Done
  <2>3. mSDATA \in Bits /\ received \in Seq(Bits) /\ accepted \in Seq(0 .. LUT_SIZE - 1)
    BY NoBitIsBit DEF Init
  <2> QED
    BY <2>1, <2>2, <2>3 DEF TypeOK
<1>2. Handshake /\ Selection /\ Shifted
  BY TableAssumption DEF Init, Handshake, Selection, Shifted, Done, AckBit, FrameBits
<1>3. InOrder
  <2>1. accepted = <<>> /\ Len(accepted) = 0 /\ 1 .. 0 = {}
    BY DEF Init
  <2> QED
    BY <2>1 DEF Init, InOrder, Done
<1> QED
  BY <1>1, <1>2, <1>3 DEF IInv

LEMMA ResetIInv == ASSUME IInv, Reset PROVE IInv'
<1>1. TypeOK'
  <2>1. {m3wire_str', o3WIRE_BUSY_n', mSEN', mSCLK', mACK', answer'} \subseteq BOOLEAN
    BY DEF Reset, IInv, TypeOK
  <2>2. /\ mI2S_CLK' \in {0, 1} /\ lut_index' \in 0 .. LUT_SIZE /\ msetup_st' \in 0 .. 4
        /\ m3wire_data' \in 0 .. LUT_SIZE - 1 /\ mST' \in 0 .. Done /\ resets' \in 0 .. MaxResets
    BY TableAssumption DEF Reset, Done, IInv, TypeOK
  <2>3. mSDATA' \in Bits /\ received' \in Seq(Bits) /\ accepted' \in Seq(0 .. LUT_SIZE - 1)
    BY NoBitIsBit DEF Reset
  <2> QED
    BY <2>1, <2>2, <2>3 DEF TypeOK
<1>2. Handshake' /\ Selection' /\ Shifted'
  BY TableAssumption DEF Reset, Handshake, Selection, Shifted, Done, AckBit, FrameBits
<1>3. InOrder'
  <2>1. accepted' = <<>> /\ Len(accepted') = 0 /\ 1 .. 0 = {}
    BY DEF Reset
  <2> QED
    BY <2>1 DEF Reset, InOrder, Done
<1> QED
  BY <1>1, <1>2, <1>3 DEF IInv

\* A rising edge: the panel clocks the bit in that is on the wire.
LEMMA RiseShifted ==
    ASSUME IInv, Rise, mST \in 1 .. FrameBits, m3wire_data' = m3wire_data
    PROVE  Shifted'
<1>1. /\ mI2S_CLK = 0 /\ mI2S_CLK' = 1 /\ mSDATA' = mSDATA /\ mST' = mST
      /\ mSCLK /\ ~mSEN
  BY DEF Rise, shifter, IInv, Selection, Done, FrameBits
<1>2. /\ received' = Append(received, IF mST = AckBit THEN NoBit ELSE mSDATA)
      /\ received \in Seq(Bits) /\ mST \in Int
  BY <1>1 DEF Rise, ShiftIn, IInv, TypeOK
<1>3. /\ Len(received) = mST - 1
      /\ \A i \in 1 .. mST - 1 : received[i] = Bit(i)
      /\ mSDATA = [word |-> m3wire_data, bit |-> FrameBits - mST]
  BY <1>1 DEF IInv, Shifted, ClockedIn
<1>4. Len(received') = mST /\ \A i \in 1 .. mST : received'[i] = Bit(i)
  BY <1>2, <1>3 DEF Bit
<1>5. \A i : Bit(i)' = Bit(i)
  BY DEF Bit
<1> QED
  BY <1>1, <1>3, <1>4, <1>5 DEF Shifted, ClockedIn

LEMMA RisingTypes == ASSUME IInv, RisingEdge PROVE TypeOK'
<1> USE DEF RisingEdge, Prepare, StartWord, AwaitReady, EndWord, NextWord, TableSent, Rise,
            ShiftIn, shifter, IInv, TypeOK
<1>1. {m3wire_str', o3WIRE_BUSY_n', mSEN', mSCLK', mACK', answer'} \subseteq BOOLEAN
  OBVIOUS
<1>2. mI2S_CLK' \in {0, 1} /\ mST' \in 0 .. Done /\ resets' \in 0 .. MaxResets
  OBVIOUS
<1>3. lut_index' \in 0 .. LUT_SIZE /\ msetup_st' \in 0 .. 4 /\ m3wire_data' \in 0 .. LUT_SIZE - 1
  BY TableAssumption
<1>4. mSDATA' \in Bits /\ accepted' \in Seq(0 .. LUT_SIZE - 1)
  OBVIOUS
<1>5. received' \in Seq(Bits)
  <2>1. \/ received' = received
        \/ received' = Append(received, IF mST = AckBit THEN NoBit ELSE mSDATA)
    OBVIOUS
  <2>2. received \in Seq(Bits) /\ mSDATA \in Bits
    OBVIOUS
  <2> HIDE DEF RisingEdge, Prepare, StartWord, AwaitReady, EndWord, NextWord, TableSent, Rise,
               ShiftIn, shifter, IInv, TypeOK
  <2> QED
    BY <2>1, <2>2, NoBitIsBit
<1> QED
  BY <1>1, <1>2, <1>3, <1>4, <1>5 DEF TypeOK

LEMMA RisingIInv == ASSUME IInv, RisingEdge PROVE IInv'
<1> USE TableAssumption
<1>1. TypeOK'
  BY RisingTypes
<1>2. /\ mST \in 0 .. Done /\ mI2S_CLK = 0 /\ mI2S_CLK' = 1
      /\ mST' = mST /\ mACK' = mACK /\ mSEN' = mSEN /\ mSCLK' = mSCLK
      /\ answer' = answer /\ accepted' = accepted /\ Rise
  BY DEF RisingEdge, Prepare, StartWord, AwaitReady, EndWord, NextWord, TableSent, Rise, ShiftIn,
         shifter, IInv, TypeOK
<1>3. Handshake'
  BY <1>2 DEF RisingEdge, Prepare, StartWord, AwaitReady, EndWord, NextWord, TableSent,
              m3wire_rdy, IInv, TypeOK, Handshake, Done
<1>4. Selection'
  BY <1>2 DEF IInv, Selection
<1>5. Shifted'
  <2>1. CASE mST \in 1 .. FrameBits
    <3>1. m3wire_str
      BY <2>1 DEF IInv, Handshake, Done, FrameBits
    <3>2. m3wire_data' = m3wire_data
      BY <3>1 DEF RisingEdge, Prepare, StartWord, AwaitReady, EndWord, NextWord, TableSent,
                  IInv, Handshake
    <3> QED
      BY <1>2, <2>1, <3>2, RiseShifted
  <2>2. CASE mST \notin 1 .. FrameBits
    BY <1>2, <2>2 DEF Shifted
  <2> QED
    BY <2>1, <2>2
<1>6. InOrder'
  <2>1. lut_index \in 0 .. LUT_SIZE /\ accepted' = accepted /\ mST' = mST /\ mACK' = mACK
    BY <1>2 DEF IInv, TypeOK
  <2>2. CASE Prepare \/ StartWord \/ AwaitReady
    BY <2>1, <2>2 DEF Prepare, StartWord, AwaitReady, IInv, InOrder
  <2>3. CASE EndWord
    BY <2>1, <2>3 DEF EndWord, m3wire_rdy, IInv, Handshake, InOrder, Done
  <2>4. CASE NextWord
    BY <1>2, <2>1, <2>4 DEF NextWord, IInv, Handshake, InOrder, Done
  <2>5. CASE TableSent
    BY <2>1, <2>5 DEF TableSent, IInv, InOrder
  <2> QED
    BY <2>2, <2>3, <2>4, <2>5 DEF RisingEdge
<1> QED
  BY <1>1, <1>3, <1>4, <1>5, <1>6 DEF IInv

LEMMA FallingTypes == ASSUME IInv, FallingEdge PROVE TypeOK'
<1> USE DEF FallingEdge, SelectPanel, ShiftBit, SampleAnswer, DeselectPanel, Rest, Fall, config,
            ltm_panel, IInv, TypeOK
<1>1. {m3wire_str', o3WIRE_BUSY_n', mSEN', mSCLK', mACK', answer'} \subseteq BOOLEAN
  OBVIOUS
<1>2. mI2S_CLK' \in {0, 1} /\ mST' \in 0 .. Done /\ resets' \in 0 .. MaxResets
  <2>1. mI2S_CLK' = 0 /\ resets' = resets /\ resets \in 0 .. MaxResets
    OBVIOUS
  <2>2. \/ mST' \in {0, 1}
        \/ mST \in 1 .. Done - 1 /\ mST' = mST + 1
        \/ mST' = mST /\ mST \in 0 .. Done
    BY DEF FrameBits, AckBit, Done
  <2> HIDE DEF FallingEdge, SelectPanel, ShiftBit, SampleAnswer, DeselectPanel, Rest, Fall, config,
               ltm_panel, IInv, TypeOK
  <2> QED
    BY <2>1, <2>2 DEF FrameBits, Done
<1>3. /\ lut_index' \in 0 .. LUT_SIZE /\ msetup_st' \in 0 .. 4
      /\ m3wire_data' \in 0 .. LUT_SIZE - 1
  OBVIOUS
<1>4. mSDATA' \in Bits
  <2>1. ASSUME DataBit PROVE mSDATA' \in Bits
    BY <2>1 DEF DataBit, FrameBits, Done, Bits
  <2> QED
    BY <2>1, NoBitIsBit
<1>5. received' \in Seq(Bits)
  <2>1. received' = received \/ received' = <<>>
    OBVIOUS
  <2>2. received \in Seq(Bits)
    OBVIOUS
  <2>3. <<>> \in Seq(Bits)
    OBVIOUS
  <2> HIDE DEF FallingEdge, SelectPanel, ShiftBit, SampleAnswer, DeselectPanel, Rest, Fall, config,
               ltm_panel, IInv, TypeOK
  <2> QED
    BY <2>1, <2>2, <2>3
<1>6. accepted' \in Seq(0 .. LUT_SIZE - 1)
  <2>1. accepted' = accepted \/ accepted' = Append(accepted, m3wire_data)
    OBVIOUS
  <2>2. accepted \in Seq(0 .. LUT_SIZE - 1) /\ m3wire_data \in 0 .. LUT_SIZE - 1
    OBVIOUS
  <2> HIDE DEF FallingEdge, SelectPanel, ShiftBit, SampleAnswer, DeselectPanel, Rest, Fall, config,
               ltm_panel, IInv, TypeOK
  <2> QED
    BY <2>1, <2>2, AppendInSeq
<1> QED
  BY <1>1, <1>2, <1>3, <1>4, <1>5, <1>6 DEF TypeOK

LEMMA FallingIInv == ASSUME IInv, FallingEdge PROVE IInv'
<1> USE TableAssumption
<1>1. TypeOK'
  BY FallingTypes
<1>2. /\ mST \in 0 .. Done /\ mI2S_CLK = 1 /\ mI2S_CLK' = 0
      /\ lut_index' = lut_index /\ msetup_st' = msetup_st /\ m3wire_str' = m3wire_str
      /\ m3wire_data' = m3wire_data /\ o3WIRE_BUSY_n' = o3WIRE_BUSY_n
  BY DEF FallingEdge, SelectPanel, ShiftBit, SampleAnswer, DeselectPanel, Rest, Fall, config,
         IInv, TypeOK
<1>3. Handshake'
  BY <1>2 DEF FallingEdge, SelectPanel, ShiftBit, SampleAnswer, DeselectPanel, Rest,
              IInv, TypeOK, Handshake, Done, FrameBits, AckBit
<1>4. Selection'
  BY <1>1, <1>2 DEF FallingEdge, SelectPanel, ShiftBit, SampleAnswer, DeselectPanel, Rest,
              ltm_panel, IInv, TypeOK, Selection, Done, FrameBits, AckBit
<1>5. Shifted'
  <2>1. \A i : Bit(i)' = Bit(i)
    BY <1>2 DEF Bit
  <2>2. CASE SelectPanel
    BY <1>2, <2>2 DEF SelectPanel, DataBit, Shifted, ClockedIn, FrameBits
  <2>3. CASE ShiftBit \/ \E ack \in BOOLEAN : SampleAnswer(ack)
    <3>1. /\ mST \in 1 .. FrameBits - 1 /\ mST' = mST + 1 /\ received' = received /\ DataBit
      BY <2>3 DEF ShiftBit, SampleAnswer, ltm_panel, AckBit, FrameBits
    <3>2. ClockedIn' = ClockedIn
      BY <1>2, <3>1 DEF ClockedIn, FrameBits
    <3> QED
      BY <1>2, <2>1, <3>1, <3>2 DEF IInv, Shifted, DataBit, FrameBits
  <2>4. CASE DeselectPanel \/ Rest
    BY <2>4 DEF DeselectPanel, Rest, Shifted, FrameBits, Done
  <2> QED
    BY <2>2, <2>3, <2>4 DEF FallingEdge
<1>6. InOrder'
  <2>1. CASE DeselectPanel
    BY <1>2, <2>1 DEF DeselectPanel, IInv, TypeOK, Handshake, Selection, InOrder, Done, AckBit,
                      FrameBits
  <2>2. CASE SelectPanel \/ ShiftBit \/ \E ack \in BOOLEAN : SampleAnswer(ack)
    BY <1>2, <2>2 DEF SelectPanel, ShiftBit, SampleAnswer, ltm_panel, IInv, InOrder, Done,
                      AckBit, FrameBits
  <2>3. CASE Rest
    BY <1>2, <2>3 DEF Rest, ltm_panel, IInv, Handshake, InOrder, Done
  <2> QED
    BY <2>1, <2>2, <2>3 DEF FallingEdge
<1> QED
  BY <1>1, <1>3, <1>4, <1>5, <1>6 DEF IInv

LEMMA StepIInv == ASSUME IInv, [Next]_vars PROVE IInv'
<1>1. CASE UNCHANGED vars
  BY <1>1 DEF vars, config, shifter, ltm_panel, IInv, TypeOK, Handshake, Selection, Shifted, Bit,
              ClockedIn, InOrder
<1> QED
  BY <1>1, ResetIInv, RisingIInv, FallingIInv DEF Next, Edge

\* For tables of any length and however often the panel refuses: every register has
\* its range, and handshake, shifter and panel keep step over both edges.
THEOREM ConfigInvariant == Spec => []IInv
<1>1. Init => IInv
  BY InitIInv
<1>2. IInv /\ [Next]_vars => IInv'
  BY StepIInv
<1> QED
  BY <1>1, <1>2, PTL DEF Spec

\* The panel has the acknowledged words in order and once each, and all of them when
\* it gives up the shared wire.
THEOREM InTableOrder == Spec => []ConfiguredInOrder
<1>1. ASSUME IInv PROVE ConfiguredInOrder
  <2>1. accepted \in Seq(0 .. LUT_SIZE - 1)
    BY <1>1 DEF IInv, TypeOK
  <2>2. accepted = [i \in 1 .. Len(accepted) |-> accepted[i]]
    BY <2>1
  <2>3. accepted = [i \in 1 .. Len(accepted) |-> i - 1]
    BY <1>1, <2>2 DEF IInv, InOrder
  <2>4. o3WIRE_BUSY_n => mSEN /\ ~mSCLK /\ Len(accepted) = LUT_SIZE
    BY <1>1, TableAssumption
       DEF IInv, TypeOK, Handshake, Selection, InOrder, Done
  <2> QED
    BY <1>1, <2>3, <2>4 DEF ConfiguredInOrder, IInv, InOrder
<1> QED
  BY <1>1, ConfigInvariant, PTL

\* Whenever the panel is deselected it has clocked in the whole frame of one word.
THEOREM WholeFrames == Spec => FrameIsWhole
<1>1. ASSUME IInv, [Next]_vars, ~mSEN, mSEN', resets' = resets
      PROVE  received = Frame(m3wire_data)
  <2>1. DeselectPanel
    <3>1. mST \notin {0, Done}
      BY <1>1 DEF IInv, Selection
    <3>2. m3wire_str
      BY <1>1, <3>1 DEF IInv, Handshake
    <3>3. resets \in Nat
      BY <1>1 DEF IInv, TypeOK
    <3>4. mSEN' # mSEN
      BY <1>1 DEF IInv, TypeOK
    <3>5. ~Reset
      BY <1>1, <3>3 DEF Reset
    <3>6. ~RisingEdge
      BY <3>4 DEF RisingEdge, Prepare, StartWord, AwaitReady, EndWord, NextWord, TableSent, Rise,
                  shifter
    <3>7. FallingEdge
      BY <1>1, <3>4, <3>5, <3>6 DEF Next, Edge, vars, shifter
    <3> QED
      BY <1>1, <3>1, <3>2, <3>7 DEF FallingEdge, SelectPanel, ShiftBit, SampleAnswer, Rest
  <2>2. mST = FrameBits /\ mI2S_CLK = 1
    BY <2>1 DEF DeselectPanel, Fall
  <2>3. /\ received \in Seq(Bits) /\ Len(received) = FrameBits
        /\ \A i \in 1 .. FrameBits : received[i] = Bit(i)
    BY <1>1, <2>2 DEF IInv, TypeOK, Shifted, ClockedIn, FrameBits
  <2>4. received = [i \in 1 .. FrameBits |-> received[i]]
    BY <2>3
  <2> QED
    BY <2>3, <2>4 DEF Frame, Bit
<1> QED
  BY <1>1, ConfigInvariant, PTL DEF Spec, FrameIsWhole
=============================================================================
