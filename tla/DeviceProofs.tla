---------------------------- MODULE DeviceProofs ----------------------------
(***************************************************************************)
(* Proofs about the devices of the processor and their drivers: the        *)
(* digitiser's controller (AdcSpi), the hand-over of a sample to touch_isr *)
(* (TouchPort) and the console (JtagConsole).  They do not share state;    *)
(* each has its own invariant.                                             *)
(*                                                                         *)
(* AdcInv ties the serial registers to the frame counter, except from a    *)
(* reset to the end of the next x.  HandOverInv says, whatever the phase   *)
(* of the clocks, that the newest sample asks for an interrupt, or is in   *)
(* the registers before they are read, or has been pushed.  ConsoleInv     *)
(* says that the host, the UART, the ring, the copied slots and the        *)
(* writer's rest hold, in this order, what was written.                    *)
(***************************************************************************)
EXTENDS AdcSpi, TouchPort, JtagConsole, SequenceTheorems, TLAPS

-----------------------------------------------------------------------------
(* THE CONTROLLER.                                                           *)

\* The level of the chip's clock while the frame counter is at c.
Level(c) == IF c \in 1 .. ConversionEnd THEN c % 2 = 0 ELSE c % 2 = 1

\* The bits of a conversion shifted in before the frame counter was at c.
Bits(c) == IF c < 20 THEN 0 ELSE IF c > 41 THEN CoordBits ELSE (c - 18) \div 2

Converting == spi_ctrl_cnt \in 1 .. ConversionEnd

\* A reset was in mid-transmission, perhaps, and x has not been converted since.
Spoilt == resets > 0 /\ rounds = 0 /\ ~y_coordinate_config

\* The divider: dclk is high for the first of its clocks, and not while nothing
\* is transmitted, except after a reset.
DividerInv ==
    /\ transmit_en /\ dclk => dclk_cnt = 0
    /\ ~transmit_en /\ dclk => Spoilt
    /\ eof_transmition => transmit_en /\ ~dclk /\ dclk_cnt = 1 /\ ~y_coordinate_config
    /\ rDval => ~eof_transmition

\* The serial clock and the bits keep step with the frame counter.
FrameInv ==
    ~Spoilt =>
        /\ mdclk = Level(spi_ctrl_cnt)
        /\ Converting => /\ asked = Channel
                         /\ (IF y_coordinate_config THEN my ELSE mx) = Bits(spi_ctrl_cnt)

\* Whether x is whole in the round that is under way.
PairInv ==
    /\ y_coordinate_config /\ (resets = 0 \/ rounds > 0) => mx = CoordBits
    /\ eof_transmition \/ rDval => my = CoordBits /\ rounds > 0
    /\ (eof_transmition \/ rDval) /\ (resets = 0 \/ rounds = 2) => mx = CoordBits

AdcInv == AdcTypeOK /\ DividerInv /\ FrameInv /\ PairInv

-----------------------------------------------------------------------------
(* The frame. *)

LEMMA LevelSteps ==
    \A c \in 0 .. FrameEnd - 1 : c \notin {0, ConversionEnd} => (Level(c + 1) <=> ~Level(c))
  BY DEF Level, FrameEnd, ConversionEnd

LEMMA BitsSteps ==
    /\ Bits(1) = 0 /\ Bits(ConversionEnd) = CoordBits
    /\ \A c \in 1 .. ConversionEnd - 1 :
           /\ Bits(c) \in 0 .. CoordBits
           /\ ~Level(c) /\ c \in 19 .. 41 => Bits(c + 1) = Bits(c) + 1
           /\ ~(~Level(c) /\ c \in 19 .. 41) => Bits(c + 1) = Bits(c)
<1>1. Bits(1) = 0 /\ Bits(ConversionEnd) = CoordBits
  BY DEF Bits, ConversionEnd, CoordBits
<1> SUFFICES ASSUME NEW c \in 1 .. ConversionEnd - 1
             PROVE  /\ Bits(c) \in 0 .. CoordBits
                    /\ ~Level(c) /\ c \in 19 .. 41 => Bits(c + 1) = Bits(c) + 1
                    /\ ~(~Level(c) /\ c \in 19 .. 41) => Bits(c + 1) = Bits(c)
  BY <1>1
<1>2. Level(c) <=> c % 2 = 0
  BY DEF Level, ConversionEnd
<1>3. Bits(c) \in 0 .. CoordBits
  BY DEF Bits, ConversionEnd, CoordBits
<1>4. c % 2 # 0 /\ c \in 19 .. 41 => Bits(c + 1) = Bits(c) + 1
  BY DEF Bits, ConversionEnd, CoordBits
<1>5. ~(c % 2 # 0 /\ c \in 19 .. 41) => Bits(c + 1) = Bits(c)
  BY DEF Bits, ConversionEnd, CoordBits
<1> QED
  BY <1>2, <1>3, <1>4, <1>5

-----------------------------------------------------------------------------
(* One clock. *)

LEMMA AdcType == AdcTypeOK /\ Clock => AdcTypeOK'
<1> SUFFICES ASSUME AdcTypeOK, Clock PROVE AdcTypeOK'
  OBVIOUS
<1>1. /\ PENIRQ_n' \in BOOLEAN /\ d1_PENIRQ_n' \in BOOLEAN /\ d2_PENIRQ_n' \in BOOLEAN
      /\ transmit_en' \in BOOLEAN /\ dclk' \in BOOLEAN /\ pen_seen_up' \in BOOLEAN
      /\ eof_transmition' \in BOOLEAN /\ rDval' \in BOOLEAN
  BY DEF AdcTypeOK, Clock, PenDetect, Transmit, touch_irq, Divide, Publish
<1>2. mcs' \in BOOLEAN /\ mdclk' \in BOOLEAN /\ y_coordinate_config' \in BOOLEAN
      /\ asked' \in {"none", "x", "y"}
  BY DEF AdcTypeOK, Clock, Transfer, serial, SendCommand, EndConversion, ToggleClock, Channel
<1>3. dclk_cnt' \in 0 .. ADC_DCLK_CNT /\ spi_ctrl_cnt' \in 0 .. FrameEnd
  <2>1. dclk_cnt' \in {0, dclk_cnt} \/ (dclk_cnt # ADC_DCLK_CNT /\ dclk_cnt' = dclk_cnt + 1)
    BY DEF Clock, Divide
  <2>2. spi_ctrl_cnt' \in {0, spi_ctrl_cnt} \/ (spi_ctrl_cnt # FrameEnd /\ spi_ctrl_cnt' = spi_ctrl_cnt + 1)
    BY DEF Clock, CountFrame
  <2>3. dclk_cnt \in 0 .. ADC_DCLK_CNT /\ spi_ctrl_cnt \in 0 .. FrameEnd
    BY DEF AdcTypeOK
  <2> QED
    BY <2>1, <2>2, <2>3, DividerAssumption DEF FrameEnd
<1>4. mx' \in 0 .. CoordBits + 1 /\ my' \in 0 .. CoordBits + 1
  <2>1. mx' \in {0, mx, Shift(mx)} /\ my' \in {0, my, Shift(my)}
    BY DEF Clock, Transfer, serial, SendCommand, EndConversion, ToggleClock
  <2>2. mx \in 0 .. CoordBits + 1 /\ my \in 0 .. CoordBits + 1
    BY DEF AdcTypeOK
  <2> QED
    BY <2>1, <2>2 DEF Shift, CoordBits
<1>5. resets' \in 0 .. MaxResets /\ rounds' \in 0 .. 2
  BY DEF AdcTypeOK, Clock
<1> QED
  BY <1>1, <1>2, <1>3, <1>4, <1>5 DEF AdcTypeOK

\* Outside the exempted time after a reset the slow clock steps the frame counter
\* and the serial registers together.
LEMMA DividerStep ==
    ASSUME AdcTypeOK, DividerInv, Clock
    PROVE  /\ DividerInv'
           /\ eof_transmition => ~dclk /\ ~eof_transmition'
           /\ eof_transmition' => transmit_en /\ dclk /\ EndConversion
<1>1. /\ eof_transmition' <=> (y_coordinate_config /\ spi_ctrl_cnt = ConversionEnd /\ dclk)
      /\ rDval' => eof_transmition
  BY DEF Clock, Publish
<1>2. eof_transmition => ~dclk /\ ~eof_transmition'
  BY <1>1 DEF DividerInv
<1>3. eof_transmition' => transmit_en /\ dclk /\ EndConversion
  <2>1. eof_transmition' => transmit_en /\ dclk /\ spi_ctrl_cnt = ConversionEnd
    BY <1>1 DEF DividerInv, Spoilt
  <2> QED
    BY <2>1 DEF Clock, Transfer, SendCommand, ToggleClock, ConversionEnd
<1>4. transmit_en' /\ dclk' => dclk_cnt' = 0
  BY DEF Clock, Divide
<1>5. ~transmit_en' /\ dclk' => Spoilt'
  <2> SUFFICES ASSUME ~transmit_en', dclk' PROVE Spoilt'
    OBVIOUS
  <2>1. ~transmit_en
    <3> SUFFICES ASSUME transmit_en PROVE FALSE
      OBVIOUS
    <3>1. eof_transmition
      BY DEF Clock, Transmit
    <3>2. dclk_cnt = 1 /\ 1 # ADC_DCLK_CNT
      BY <3>1, DividerAssumption DEF DividerInv
    <3> QED
      BY <3>2 DEF Clock, Divide
  <2>2. dclk /\ Spoilt
    BY <2>1 DEF Clock, Divide, DividerInv
  <2>3. ~eof_transmition' /\ UNCHANGED <<resets, y_coordinate_config>>
    BY <2>1, <2>2, <1>1 DEF Spoilt, Clock, Transfer, serial
  <2> QED
    BY <2>2, <2>3 DEF Spoilt, Clock
<1>6. eof_transmition' => transmit_en' /\ ~dclk' /\ dclk_cnt' = 1 /\ ~y_coordinate_config'
  <2> SUFFICES ASSUME eof_transmition'
               PROVE  transmit_en' /\ ~dclk' /\ dclk_cnt' = 1 /\ ~y_coordinate_config'
    OBVIOUS
  <2>1. transmit_en /\ dclk /\ dclk_cnt = 0 /\ 0 # ADC_DCLK_CNT
    BY <1>3, DividerAssumption DEF DividerInv
  <2>2. dclk_cnt' = 1 /\ ~dclk'
    BY <2>1 DEF Clock, Divide
  <2>3. transmit_en'
    BY <1>2, <2>1 DEF Clock, Transmit
  <2>4. ~y_coordinate_config'
    BY <1>1, <1>3 DEF EndConversion
  <2> QED
    BY <2>2, <2>3, <2>4
<1>7. rDval' => ~eof_transmition'
  BY <1>1, <1>2
<1> QED
  BY <1>2, <1>3, <1>4, <1>5, <1>6, <1>7 DEF DividerInv

LEMMA FrameStep == AdcTypeOK /\ DividerInv /\ FrameInv /\ Clock => FrameInv'
<1> SUFFICES ASSUME AdcTypeOK, DividerInv, FrameInv, Clock, ~Spoilt'
             PROVE  /\ mdclk' = Level(spi_ctrl_cnt)'
                    /\ Converting' =>
                         /\ asked' = Channel'
                         /\ (IF y_coordinate_config' THEN my' ELSE mx') = Bits(spi_ctrl_cnt)'
  BY DEF FrameInv
<1>1. spi_ctrl_cnt \in 0 .. FrameEnd /\ mdclk \in BOOLEAN /\ y_coordinate_config \in BOOLEAN
  BY DEF AdcTypeOK
<1>2. CASE ~dclk
  <2>1. UNCHANGED <<serial, spi_ctrl_cnt>> /\ ~eof_transmition'
    BY <1>2 DEF Clock, Transfer, CountFrame, Publish
  <2>2. ~Spoilt
    BY <2>1 DEF Spoilt, Clock, serial
  <2> QED
    BY <2>1, <2>2 DEF FrameInv, Level, Bits, Converting, Channel, serial
<1>3. CASE ~transmit_en /\ dclk
  <2>1. UNCHANGED serial /\ Spoilt
    BY <1>3 DEF Clock, Transfer, DividerInv
  <2>2. ~eof_transmition'
    BY <2>1 DEF Spoilt, Clock, Publish
  <2> QED
    BY <2>1, <2>2 DEF Spoilt, Clock, serial
<1>4. CASE transmit_en /\ dclk
  <2>1. spi_ctrl_cnt' = IF spi_ctrl_cnt = FrameEnd THEN 0 ELSE spi_ctrl_cnt + 1
    BY <1>4 DEF Clock, CountFrame
  <2>2. resets' = resets /\ (eof_transmition' <=> y_coordinate_config /\ spi_ctrl_cnt = ConversionEnd)
    BY <1>4 DEF Clock, Publish
  <2>3. CASE SendCommand
    <3>1. spi_ctrl_cnt = 0 /\ spi_ctrl_cnt' = 1
      BY <2>1, <2>3 DEF SendCommand, FrameEnd
    <3>2. ~Spoilt
      BY <2>2, <2>3, <3>1 DEF Spoilt, SendCommand, ConversionEnd, Clock
    <3>3. mdclk' = mdclk /\ mdclk = Level(0)
      BY <2>3, <3>1, <3>2 DEF SendCommand, FrameInv
    <3>4. mdclk' = FALSE /\ Level(spi_ctrl_cnt)' = FALSE /\ Bits(spi_ctrl_cnt)' = 0
      <4>1. Level(0) = FALSE /\ Level(spi_ctrl_cnt)' = FALSE
        BY <3>1 DEF Level, ConversionEnd
      <4>2. Bits(spi_ctrl_cnt)' = 0
        BY <3>1 DEF Bits
      <4> QED
        BY <4>1, <4>2, <3>3
    <3>5. asked' = Channel' /\ (IF y_coordinate_config' THEN my' ELSE mx') = 0
      BY <2>3, <3>3, <3>4 DEF SendCommand, Channel
    <3> QED
      BY <3>4, <3>5
  <2>4. CASE EndConversion
    <3>1. spi_ctrl_cnt = 49 /\ spi_ctrl_cnt' = 50
      BY <2>1, <2>4 DEF EndConversion, FrameEnd, ConversionEnd
    <3>2. mdclk' = FALSE /\ Level(spi_ctrl_cnt)' = FALSE
      BY <2>4, <3>1 DEF EndConversion, Level, ConversionEnd
    <3>3. ~Converting'
      BY <3>1 DEF Converting, ConversionEnd
    <3> QED
      BY <3>2, <3>3
  <2>5. CASE ToggleClock
    <3>1. spi_ctrl_cnt \notin {0, ConversionEnd} /\ mdclk' = ~mdclk
      BY <2>5 DEF ToggleClock
    <3>2. ~Spoilt
      BY <2>2, <2>5, <3>1 DEF Spoilt, ToggleClock, Clock
    <3>3. mdclk = Level(spi_ctrl_cnt)
      BY <3>2 DEF FrameInv
    <3>4. mdclk' = Level(spi_ctrl_cnt)'
      <4>1. CASE spi_ctrl_cnt = FrameEnd
        <5>1. spi_ctrl_cnt' = 0 /\ spi_ctrl_cnt = 65
          BY <4>1, <2>1 DEF FrameEnd
        <5>2. Level(spi_ctrl_cnt) = TRUE /\ Level(spi_ctrl_cnt)' = FALSE
          BY <5>1 DEF Level, ConversionEnd
        <5> QED
          BY <5>2, <3>1, <3>3
      <4>2. CASE spi_ctrl_cnt # FrameEnd
        <5>1. spi_ctrl_cnt' = spi_ctrl_cnt + 1 /\ spi_ctrl_cnt \in 0 .. FrameEnd - 1
          BY <4>2, <2>1, <1>1 DEF FrameEnd
        <5>2. Level(spi_ctrl_cnt + 1) <=> ~Level(spi_ctrl_cnt)
          BY <5>1, <3>1, LevelSteps
        <5>3. Level(spi_ctrl_cnt)' = Level(spi_ctrl_cnt + 1)
          BY <5>1 DEF Level
        <5>4. Level(spi_ctrl_cnt) \in BOOLEAN /\ Level(spi_ctrl_cnt + 1) \in BOOLEAN
          BY DEF Level
        <5> QED
          BY <5>2, <5>3, <5>4, <3>1, <3>3
      <4> QED
        BY <4>1, <4>2
    <3>5. ASSUME Converting'
          PROVE  /\ asked' = Channel'
                 /\ (IF y_coordinate_config' THEN my' ELSE mx') = Bits(spi_ctrl_cnt)'
      <4>1. spi_ctrl_cnt \in 1 .. ConversionEnd - 1 /\ spi_ctrl_cnt' = spi_ctrl_cnt + 1
        BY <3>5, <3>1, <2>1, <1>1 DEF Converting, ConversionEnd, FrameEnd
      <4>2. asked = Channel /\ (IF y_coordinate_config THEN my ELSE mx) = Bits(spi_ctrl_cnt)
        BY <4>1, <3>2 DEF FrameInv, Converting, ConversionEnd
      <4>3. asked' = asked /\ y_coordinate_config' = y_coordinate_config /\ Channel' = Channel
        BY <2>5 DEF ToggleClock, Channel
      <4>4. Bits(spi_ctrl_cnt)' = Bits(spi_ctrl_cnt + 1)
        BY <4>1 DEF Bits
      <4>5. Bits(spi_ctrl_cnt) \in 0 .. CoordBits
        BY <4>1, BitsSteps
      <4>6. Shift(Bits(spi_ctrl_cnt)) = Bits(spi_ctrl_cnt) + 1
        BY <4>2, <4>5 DEF Shift, CoordBits
      <4> DEFINE strobe == ~mdclk /\ rd_coord_strob
      <4>7. (IF y_coordinate_config' THEN my' ELSE mx')
              = IF strobe THEN Shift(Bits(spi_ctrl_cnt)) ELSE Bits(spi_ctrl_cnt)
        BY <2>5, <4>2, <4>3 DEF ToggleClock, Channel
      <4>8. strobe <=> (~Level(spi_ctrl_cnt) /\ spi_ctrl_cnt \in 19 .. 41)
        BY <3>3 DEF rd_coord_strob
      <4>9. (IF strobe THEN Bits(spi_ctrl_cnt) + 1 ELSE Bits(spi_ctrl_cnt)) = Bits(spi_ctrl_cnt + 1)
        BY <4>1, <4>8, BitsSteps
      <4> QED
        BY <4>2, <4>3, <4>4, <4>6, <4>7, <4>9
    <3> QED
      BY <3>4, <3>5
  <2> QED
    BY <1>4, <2>3, <2>4, <2>5 DEF Clock, Transfer
<1> QED
  BY <1>2, <1>3, <1>4 DEF AdcTypeOK

LEMMA PairStep == AdcTypeOK /\ DividerInv /\ FrameInv /\ PairInv /\ Clock => PairInv'
<1> SUFFICES ASSUME AdcTypeOK, DividerInv, FrameInv, PairInv, Clock PROVE PairInv'
  OBVIOUS
<1>1. /\ resets' = resets /\ rounds \in 0 .. 2 /\ resets \in Nat
      /\ rounds' = IF eof_transmition' /\ rounds < 2 THEN rounds + 1 ELSE rounds
  BY DividerAssumption DEF AdcTypeOK, Clock
<1>2. ASSUME eof_transmition'
      PROVE  /\ rounds' > 0 /\ my' = CoordBits
             /\ resets = 0 \/ rounds' = 2 => mx' = CoordBits
             /\ ~y_coordinate_config'
  <2>1. y_coordinate_config /\ spi_ctrl_cnt = ConversionEnd /\ EndConversion
    BY <1>2, DividerStep DEF Clock, Publish
  <2>2. my = Bits(ConversionEnd)
    BY <2>1 DEF FrameInv, Spoilt, Converting, ConversionEnd
  <2>3. rounds' > 0 /\ (rounds' = 2 => rounds > 0)
    BY <1>1, <1>2
  <2>4. mx' = mx /\ my' = my /\ ~y_coordinate_config'
    BY <2>1 DEF EndConversion
  <2> QED
    BY <2>1, <2>2, <2>3, <2>4, BitsSteps DEF PairInv
<1>3. ASSUME ~eof_transmition', eof_transmition
      PROVE  /\ rounds' > 0 /\ my' = CoordBits
             /\ resets = 0 \/ rounds' = 2 => mx' = CoordBits
             /\ ~y_coordinate_config'
  <2>1. UNCHANGED serial
    BY <1>3, DividerStep DEF Clock, Transfer
  <2>2. rounds' = rounds
    BY <1>1, <1>3
  <2> QED
    BY <1>3, <2>1, <2>2 DEF PairInv, DividerInv, serial
<1>4. ASSUME y_coordinate_config', resets = 0 \/ rounds' > 0 PROVE mx' = CoordBits
  <2>1. ~eof_transmition' /\ rounds' = rounds
    BY <1>1, <1>2, <1>4
  <2>2. CASE UNCHANGED serial
    BY <2>1, <2>2, <1>4 DEF PairInv, serial
  <2>3. CASE SendCommand \/ ToggleClock
    <3>1. y_coordinate_config' = y_coordinate_config /\ mx' = mx
      BY <2>3, <1>4 DEF SendCommand, ToggleClock, Channel
    <3> QED
      BY <3>1, <2>1, <1>4 DEF PairInv
  <2>4. CASE EndConversion
    <3>1. ~y_coordinate_config /\ spi_ctrl_cnt = ConversionEnd /\ mx' = mx
      BY <2>4, <1>4 DEF EndConversion
    <3>2. ~Spoilt
      BY <1>1, <1>4, <2>1 DEF Spoilt
    <3>3. mx = Bits(ConversionEnd)
      BY <3>1, <3>2 DEF FrameInv, Converting, ConversionEnd
    <3> QED
      BY <3>1, <3>3, BitsSteps
  <2> QED
    BY <2>2, <2>3, <2>4 DEF Clock, Transfer
<1>5. rDval' => eof_transmition
  BY DEF Clock, Publish
<1> QED
  BY <1>1, <1>2, <1>3, <1>4, <1>5 DEF PairInv

-----------------------------------------------------------------------------

LEMMA ResetStep == AdcTypeOK /\ Reset => AdcInv'
<1> SUFFICES ASSUME AdcTypeOK, Reset PROVE AdcInv'
  OBVIOUS
<1>1. resets' > 0 /\ resets' \in 0 .. MaxResets
  BY DividerAssumption DEF AdcTypeOK, Reset
<1>2. Spoilt'
  BY <1>1 DEF Spoilt, Reset
<1>3. AdcTypeOK'
  <2>1. 0 \in 0 .. ADC_DCLK_CNT /\ 0 \in 0 .. FrameEnd /\ 0 \in 0 .. CoordBits + 1
    BY DividerAssumption DEF FrameEnd, CoordBits
  <2>2. 0 \in 0 .. 2
    OBVIOUS
  <2> QED
    BY <1>1, <2>1, <2>2 DEF AdcTypeOK, Reset
<1>4. DividerInv' /\ FrameInv' /\ PairInv'
  BY <1>2 DEF DividerInv, FrameInv, PairInv, Reset
<1> QED
  BY <1>3, <1>4 DEF AdcInv

\* The inductive invariant of the controller.
THEOREM ControllerInvariant == AdcSpec => []AdcInv
<1>1. AdcInit => AdcInv
  <2> SUFFICES ASSUME AdcInit PROVE AdcInv
    OBVIOUS
  <2>1. AdcTypeOK
    <3>1. 0 \in 0 .. ADC_DCLK_CNT /\ 0 \in 0 .. FrameEnd /\ 0 \in 0 .. CoordBits + 1
      BY DividerAssumption DEF FrameEnd, CoordBits
    <3>2. 0 \in 0 .. MaxResets /\ 0 \in 0 .. 2
      BY DividerAssumption
    <3> QED
      BY <3>1, <3>2 DEF AdcInit, AdcTypeOK
  <2>2. DividerInv /\ PairInv
    BY DEF AdcInit, DividerInv, PairInv
  <2>3. FrameInv
    <3>1. Level(0) = FALSE
      BY DEF Level, ConversionEnd
    <3>2. ~Converting
      BY DEF AdcInit, Converting
    <3> QED
      BY <3>1, <3>2 DEF AdcInit, FrameInv
  <2> QED
    BY <2>1, <2>2, <2>3 DEF AdcInv
<1>2. AdcInv /\ [AdcNext]_adc_vars => AdcInv'
  <2>1. ASSUME AdcInv, Clock PROVE AdcInv'
    BY <2>1, AdcType, DividerStep, FrameStep, PairStep DEF AdcInv
  <2>2. ASSUME AdcInv, Reset PROVE AdcInv'
    BY <2>2, ResetStep DEF AdcInv
  <2>3. ASSUME AdcInv, UNCHANGED adc_vars PROVE AdcInv'
    BY <2>3 DEF adc_vars, pen, divider, serial, outputs, history, AdcInv, AdcTypeOK, DividerInv,
                FrameInv, PairInv, Spoilt, Converting, Channel, Level, Bits
  <2> QED
    BY <2>1, <2>2, <2>3 DEF AdcNext
<1> QED
  BY <1>1, <1>2, PTL DEF AdcSpec

\* A published pair is whole, for every division of the clock.
THEOREM PublishedPairIsWhole == AdcSpec => []PairIsWhole
<1>1. AdcInv => PairIsWhole
  BY DEF AdcInv, PairInv, PairIsWhole
<1> QED
  BY <1>1, ControllerInvariant, PTL

\* At most the first pair after a reset is spoilt, whatever the reset left behind
\* and however many there are.
THEOREM AtMostOneSpoilt == AdcSpec => []WholeAfterOneRound
<1>1. AdcInv => WholeAfterOneRound
  BY DEF AdcInv, PairInv, WholeAfterOneRound
<1> QED
  BY <1>1, ControllerInvariant, PTL

\* The pulse that the capture port waits for lasts one clock and is not repeated
\* in the next, which TouchPort takes for granted of the controller.
THEOREM PulseLastsOneClock == AdcSpec => [][rDval => ~rDval']_adc_vars
<1>1. AdcInv /\ [AdcNext]_adc_vars => [rDval => ~rDval']_adc_vars
  BY DEF AdcInv, DividerInv, AdcNext, Clock, Reset, Publish
<1> QED
  BY <1>1, ControllerInvariant, PTL DEF AdcSpec

-----------------------------------------------------------------------------
(* THE HAND-OVER.                                                            *)

(* The capture port: no interrupt is taken for nothing. *)

\* A pending line is still high when the next instruction is fetched, and stays
\* high until a handler lowers it.
LinesInv ==
    /\ pc \in {"irq_entry", "irq_first"} => ipending # {} /\ (uart \/ irq)
    /\ pc \in {"enable", "clear", "main"} /\ fetched /\ ipending # {} => uart \/ irq
    /\ NoSpuriousInterrupt

-----------------------------------------------------------------------------
(* The coordinates. *)

\* The edge of a new sample is captured, or will be unless it is cleared.
Asking == edge_capture \/ edge_detect \/ (oNEW_COORD /\ ~d1)

\* The registers hold the sample before the newest while that is announced.
RegistersInv ==
    /\ oX_COORD = oY_COORD
    /\ sample = IF oNEW_COORD THEN oX_COORD + 1 ELSE oX_COORD
    /\ oNEW_COORD /\ d1 => phase > 0
    /\ y <= sample /\ pushed[2] <= sample

\* A sample whose edge was cleared is in the registers before they are read.
ReadInv ==
    /\ pc = "isr_x" /\ oNEW_COORD /\ ~Asking => gap + phase >= Ratio
    /\ pc = "isr_y" /\ oNEW_COORD => Asking

\* The newest sample asks for an interrupt, or is about to be read, or has been.
NewestInv ==
    sample > armed /\ ~Asking =>
        /\ pc = "isr_y" => x = sample
        /\ pc = "isr_push" => x = sample /\ y = sample
        /\ pc \notin {"isr_x", "isr_y", "isr_push"} => pushed = <<sample, sample>>

\* What has torn a pair has set the capture bit.
TornInv ==
    /\ pc = "clear" => irq_mask
    /\ pc \notin {"enable", "clear", "main"} /\ ret = "clear" => irq_mask
    /\ ~irq_mask => armed = MaxSamples
    /\ pc = "isr_y" /\ x # oX_COORD /\ oX_COORD > armed => edge_capture \/ edge_detect
    /\ pc = "isr_push" /\ x # y /\ y > armed => edge_capture
    /\ /\ pushed[1] # pushed[2] /\ pushed[2] > armed
       /\ pc \notin {"isr_x", "isr_y", "isr_push"}
       => edge_capture

HandOverInv == TypeOK /\ LinesInv /\ RegistersInv /\ ReadInv /\ NewestInv /\ TornInv

\* The clocks of the port, whatever the processor does in them.
LEMMA ClockSteps ==
    ASSUME TypeOK, Next
    PROVE  /\ Controller /\ Synchronise /\ SampleLines
           /\ ClockPort \/ (WriteEdgeCapture /\ (ClearOld \/ IsrClear))
           /\ NoAccess \/ (Works /\ pc' # pc)
<1>1. Controller /\ Processor
  BY DEF Next
<1>2. CASE NoAccess
  BY <1>1, <1>2 DEF NoAccess, Lines, ClockPort
<1>3. CASE EnableMask
  BY <1>1, <1>3 DEF EnableMask, Lines, ClockPort, Access, Works
<1>4. CASE ClearOld
  BY <1>1, <1>4 DEF ClearOld, Lines, WriteEdgeCapture, Access, Works
<1>5. CASE TakeInterrupt
  BY <1>1, <1>5 DEF TakeInterrupt, Lines, ClockPort, Works
<1>6. CASE Dispatch
  BY <1>1, <1>6 DEF Dispatch, Look, Handler, Lines, ClockPort, Access, Works, TypeOK
<1>7. CASE Isr
  BY <1>1, <1>7 DEF Isr, IsrUart, IsrClear, IsrReadX, IsrReadY, IsrPush, Lines, ClockPort,
                    WriteEdgeCapture, Access, Works
<1> QED
  BY <1>1, <1>2, <1>3, <1>4, <1>5, <1>6, <1>7 DEF Processor, Works

LEMMA PortType == TypeOK /\ Next => TypeOK'
<1> SUFFICES ASSUME TypeOK, Next PROVE TypeOK'
  OBVIOUS
<1>1. /\ phase' \in 0 .. Ratio - 1 /\ sample' \in 0 .. MaxSamples /\ oNEW_COORD' \in BOOLEAN
      /\ oX_COORD' \in 0 .. MaxSamples /\ oY_COORD' \in 0 .. MaxSamples
  <2>1. ControllerHolds \/ ControllerIdle \/ ConversionDone \/ CopyCoordinates
    BY ClockSteps DEF Controller
  <2>2. phase' \in 0 .. Ratio - 1 /\ sample' \in 0 .. MaxSamples
    BY <2>1, ClockAssumption DEF TypeOK, ControllerHolds, ControllerIdle, ConversionDone,
                                 CopyCoordinates
  <2>3. /\ oNEW_COORD' \in BOOLEAN
        /\ oX_COORD' \in 0 .. MaxSamples /\ oY_COORD' \in 0 .. MaxSamples
    BY <2>1 DEF TypeOK, ControllerHolds, ControllerIdle, ConversionDone, CopyCoordinates
  <2> QED
    BY <2>2, <2>3
<1>2. d1' \in BOOLEAN /\ d2' \in BOOLEAN /\ edge_capture' \in BOOLEAN
  BY ClockSteps DEF TypeOK, Synchronise, ClockPort, WriteEdgeCapture, edge_detect
<1>3. ipending' \subseteq {"uart", "touch"}
  BY ClockSteps DEF SampleLines
<1>4. gap - 1 \in 0 .. AccessGap - 1 \/ gap = 0
  BY ClockAssumption DEF TypeOK
<1>5. AccessGap - 1 \in 0 .. AccessGap - 1
  BY ClockAssumption
<1>6. <<x, y>> \in (0 .. MaxSamples) \X (0 .. MaxSamples)
  BY DEF TypeOK
<1>7. \/ UNCHANGED <<uart, uarts>>
      \/ uart' = FALSE /\ uarts' = uarts
      \/ uarts < MaxUarts /\ uart' = TRUE /\ uarts' = uarts + 1
  BY DEF Next, Processor, NoAccess, Works, EnableMask, ClearOld, TakeInterrupt, Dispatch, Look,
         Isr, IsrUart, IsrClear, IsrReadX, IsrReadY, IsrPush, Lines, UartRises
<1>8. uart' \in BOOLEAN /\ uarts' \in 0 .. MaxUarts
  <2>1. uart' \in BOOLEAN
    BY <1>7 DEF TypeOK
  <2>2. uarts \in 0 .. MaxUarts /\ MaxUarts \in Nat
    BY ClockAssumption DEF TypeOK
  <2>3. uarts' = uarts \/ (uarts < MaxUarts /\ uarts' = uarts + 1)
    BY <1>7
  <2> QED
    BY <2>1, <2>2, <2>3
<1>9. /\ irq_mask' \in BOOLEAN
      /\ pc' \in {"enable", "clear", "main", "irq_entry", "irq_first", "irq_again",
                  "isr_uart", "isr_clear", "isr_x", "isr_y", "isr_push", "break", "spin"}
      /\ ret' \in {"enable", "clear", "main"} /\ gap' \in 0 .. AccessGap - 1
      /\ x' \in 0 .. MaxSamples /\ y' \in 0 .. MaxSamples
      /\ pushed' \in (0 .. MaxSamples) \X (0 .. MaxSamples)
      /\ armed' \in 0 .. MaxSamples
  <2>1. CASE NoAccess
    BY <2>1, <1>4, <1>5 DEF NoAccess, TypeOK
  <2>2. CASE EnableMask
    BY <2>2, <1>5 DEF EnableMask, Access, TypeOK
  <2>3. CASE ClearOld
    BY <2>3, <1>5 DEF ClearOld, Access, TypeOK
  <2>4. CASE TakeInterrupt
    BY <2>4, <1>5 DEF TakeInterrupt, TypeOK
  <2>5. CASE Dispatch
    BY <2>5, <1>5 DEF Dispatch, Look, Handler, Access, TypeOK
  <2>6. CASE Isr
    BY <2>6, <1>5, <1>6 DEF Isr, IsrUart, IsrClear, IsrReadX, IsrReadY, IsrPush, Access, TypeOK
  <2> QED
    BY <2>1, <2>2, <2>3, <2>4, <2>5, <2>6 DEF Next, Processor, Works
<1> QED
  BY <1>1, <1>2, <1>3, <1>8, <1>9 DEF TypeOK

\* A handler lowers a line at an access, and then nothing is fetched for a clock.
LEMMA LinesStep == TypeOK /\ LinesInv /\ Next => LinesInv'
<1> SUFFICES ASSUME TypeOK, LinesInv, Next PROVE LinesInv'
  OBVIOUS
<1>1. ~fetched' \/ gap' # AccessGap - 1
  BY TimingAssumption, ClockAssumption, PortType DEF fetched, TypeOK
<1>2. (ipending' # {}) <=> (uart \/ irq)
  BY ClockSteps DEF SampleLines
<1>3. pc \in {"irq_entry", "irq_first"} => ipending # {} /\ ipending' # {}
  BY <1>2 DEF LinesInv
<1>4. ASSUME Lines, ClockPort, irq_mask => irq_mask'
      PROVE  uart \/ irq => uart' \/ irq'
  BY <1>4, PortType DEF Lines, UartRises, ClockPort, irq, TypeOK
<1>5. CASE NoAccess
  <2>1. uart \/ irq => uart' \/ irq'
    BY <1>4, <1>5 DEF NoAccess
  <2> QED
    BY <2>1, <1>2, <1>5 DEF NoAccess, LinesInv, NoSpuriousInterrupt
<1>6. CASE EnableMask
  <2>1. uart \/ irq => uart' \/ irq'
    BY <1>4, <1>6 DEF EnableMask
  <2> QED
    BY <2>1, <1>2, <1>6 DEF EnableMask, Access, LinesInv, NoSpuriousInterrupt
<1>7. CASE ClearOld
  BY <1>1, <1>7 DEF ClearOld, Access, LinesInv, NoSpuriousInterrupt
<1>8. CASE TakeInterrupt
  <2>1. uart \/ irq => uart' \/ irq'
    BY <1>4, <1>8 DEF TakeInterrupt
  <2>2. uart \/ irq
    BY <1>8 DEF TakeInterrupt, LinesInv
  <2> QED
    BY <2>1, <2>2, <1>2, <1>8 DEF TakeInterrupt, LinesInv, NoSpuriousInterrupt
<1>9. CASE Dispatch
  <2>1. uart \/ irq => uart' \/ irq'
    BY <1>4, <1>9 DEF Dispatch, Look
  <2> QED
    BY <2>1, <1>2, <1>3, <1>9 DEF Dispatch, Look, Handler, Access, LinesInv, NoSpuriousInterrupt, TypeOK
<1>10. CASE Isr
  BY <1>10 DEF Isr, IsrUart, IsrClear, IsrReadX, IsrReadY, IsrPush, Access, LinesInv,
               NoSpuriousInterrupt
<1> QED
  BY <1>5, <1>6, <1>7, <1>8, <1>9, <1>10 DEF Next, Processor, Works

\* What one clock of the controller may do.
LEMMA RegisterSteps ==
    ASSUME TypeOK, RegistersInv, Next
    PROVE  /\ \/ phase' = phase + 1 /\ phase + 1 < Ratio /\ UNCHANGED <<sample, oNEW_COORD, oX_COORD, oY_COORD>>
              \/ phase' = 0 /\ ~oNEW_COORD /\ UNCHANGED <<sample, oNEW_COORD, oX_COORD, oY_COORD>>
              \/ /\ phase' = 0 /\ ~oNEW_COORD /\ oNEW_COORD'
                 /\ sample' = sample + 1 /\ UNCHANGED <<oX_COORD, oY_COORD>>
              \/ /\ phase' = 0 /\ oNEW_COORD /\ ~oNEW_COORD' /\ phase + 1 = Ratio
                 /\ sample' = sample /\ oX_COORD' = sample /\ oY_COORD' = sample
           /\ d1' = oNEW_COORD /\ d2' = d1
<1>1. Controller /\ Synchronise
  BY ClockSteps
<1>2. phase \in 0 .. Ratio - 1 /\ Ratio \in Nat
  BY ClockAssumption DEF TypeOK
<1>3. phase < Ratio - 1 => phase + 1 < Ratio
  BY <1>2
<1>4. phase = Ratio - 1 => phase + 1 = Ratio
  BY <1>2
<1> QED
  BY <1>1, <1>3, <1>4 DEF Controller, ControllerHolds, ControllerIdle, ConversionDone, CopyCoordinates,
                    Synchronise

LEMMA RegistersStep == TypeOK /\ RegistersInv /\ Next => RegistersInv'
<1> SUFFICES ASSUME TypeOK, RegistersInv, Next PROVE RegistersInv'
  OBVIOUS
<1>1. sample \in Nat /\ oX_COORD \in Nat /\ y \in Nat /\ pushed[2] \in Nat /\ phase \in Nat
  BY ClockAssumption DEF TypeOK
<1>2. sample' \in Nat /\ sample <= sample' /\ oX_COORD <= sample
  BY <1>1, RegisterSteps DEF RegistersInv
<1>3. oX_COORD' = oY_COORD'
  BY RegisterSteps DEF RegistersInv
<1>4. sample' = IF oNEW_COORD' THEN oX_COORD' + 1 ELSE oX_COORD'
  BY RegisterSteps DEF RegistersInv
<1>5. oNEW_COORD' /\ d1' => phase' > 0
  <2>1. oNEW_COORD' /\ d1' => phase' = phase + 1
    BY RegisterSteps
  <2> QED
    BY <1>1, <2>1
<1>6. y' \in {y, oX_COORD} /\ pushed' \in {pushed, <<x, y>>}
  BY DEF Next, Processor, NoAccess, Works, EnableMask, ClearOld, TakeInterrupt, Dispatch, Look,
         Isr, IsrUart, IsrClear, IsrReadX, IsrReadY, IsrPush
<1>7. pushed'[2] \in {pushed[2], y}
  BY <1>6
<1>8. y <= sample /\ pushed[2] <= sample
  BY DEF RegistersInv
<1>9. y' <= sample'
  BY <1>1, <1>2, <1>6, <1>8
<1>10. pushed'[2] <= sample'
  BY <1>1, <1>2, <1>7, <1>8
<1> QED
  BY <1>3, <1>4, <1>5, <1>9, <1>10 DEF RegistersInv

\* An edge goes on asking until register 3 is written.
LEMMA AskingSteps ==
    ASSUME TypeOK, RegistersInv, Next
    PROVE  /\ ClockPort /\ Asking => Asking'
           /\ ClockPort /\ (edge_capture \/ edge_detect) => edge_capture'
           /\ ~Asking' => sample' = sample
           /\ oNEW_COORD' /\ ~Asking' => oNEW_COORD /\ d1 /\ phase' = phase + 1 /\ phase > 0
           /\ oNEW_COORD /\ ~oNEW_COORD' /\ ClockPort /\ Asking
                => edge_capture' \/ edge_detect'
<1>1. ClockPort => edge_capture' = (edge_capture \/ edge_detect)
  BY DEF ClockPort
<1>2. edge_capture' \in BOOLEAN /\ oNEW_COORD \in BOOLEAN /\ d1 \in BOOLEAN /\ d2 \in BOOLEAN
  BY PortType DEF TypeOK
<1>3. edge_detect' = (oNEW_COORD /\ ~d1)
  BY RegisterSteps DEF edge_detect
<1> QED
  BY <1>1, <1>2, <1>3, RegisterSteps DEF Asking, edge_detect, RegistersInv

\* An access finds the processor at rest and leaves it busy for AccessGap clocks.
LEMMA ReadStep == TypeOK /\ RegistersInv /\ ReadInv /\ Next => ReadInv'
<1> SUFFICES ASSUME TypeOK, RegistersInv, ReadInv, Next PROVE ReadInv'
  OBVIOUS
<1>1. phase \in 0 .. Ratio - 1 /\ gap \in 0 .. AccessGap - 1 /\ Ratio \in Nat /\ AccessGap \in Nat
  BY ClockAssumption DEF TypeOK
<1>2. gap' \in 0 .. AccessGap - 1 /\ phase' \in 0 .. Ratio - 1
  BY PortType DEF TypeOK
<1>3. ASSUME pc' = "isr_x", oNEW_COORD', ~Asking' PROVE gap' + phase' >= Ratio
  <2>1. oNEW_COORD /\ phase' = phase + 1 /\ phase > 0
    BY <1>3, AskingSteps
  <2>2. CASE IsrClear
    <3>1. gap' = AccessGap - 1
      BY <2>2 DEF IsrClear, Access
    <3> QED
      BY <3>1, <2>1, <1>1, TimingAssumption
  <2>3. CASE NoAccess
    <3>1. ClockPort /\ pc = "isr_x" /\ gap' = IF gap > 0 THEN gap - 1 ELSE 0
      BY <2>3, <1>3 DEF NoAccess
    <3>2. ~Asking
      BY <3>1, <1>3, AskingSteps
    <3>3. gap + phase >= Ratio
      BY <3>1, <3>2, <2>1 DEF ReadInv
    <3> QED
      BY <3>1, <3>3, <2>1, <1>1
  <2> QED
    BY <2>2, <2>3, <1>3 DEF Next, Processor, Works, EnableMask, ClearOld, TakeInterrupt, Dispatch,
          Look, Handler, Isr, IsrUart, IsrReadX, IsrReadY, IsrPush, Access, TypeOK
<1>4. ASSUME pc' = "isr_y", oNEW_COORD' PROVE Asking'
  <2>1. SUFFICES ASSUME ~Asking' PROVE FALSE
    OBVIOUS
  <2>2. oNEW_COORD
    BY <1>4, <2>1, AskingSteps
  <2>3. CASE IsrReadX
    <3>1. pc = "isr_x" /\ gap = 0 /\ ClockPort
      BY <2>3 DEF IsrReadX, Access
    <3>2. ~Asking
      BY <2>1, <3>1, AskingSteps
    <3> QED
      BY <3>1, <3>2, <2>2, <1>1 DEF ReadInv
  <2>4. CASE NoAccess
    <3>1. pc = "isr_y" /\ ClockPort
      BY <2>4, <1>4 DEF NoAccess
    <3> QED
      BY <3>1, <2>1, <2>2, AskingSteps DEF ReadInv
  <2> QED
    BY <2>3, <2>4, <1>4 DEF Next, Processor, Works, EnableMask, ClearOld, TakeInterrupt, Dispatch,
          Look, Handler, Isr, IsrUart, IsrClear, IsrReadY, IsrPush, Access, TypeOK
<1> QED
  BY <1>3, <1>4 DEF ReadInv

LEMMA NewestStep == TypeOK /\ RegistersInv /\ ReadInv /\ NewestInv /\ Next => NewestInv'
<1> SUFFICES ASSUME TypeOK, RegistersInv, ReadInv, NewestInv, Next,
                    sample' > armed', ~Asking'
             PROVE  /\ pc' = "isr_y" => x' = sample'
                    /\ pc' = "isr_push" => x' = sample' /\ y' = sample'
                    /\ pc' \notin {"isr_x", "isr_y", "isr_push"} => pushed' = <<sample', sample'>>
  BY DEF NewestInv
<1>1. sample' = sample /\ sample \in Nat /\ armed \in Nat
  BY AskingSteps, ClockAssumption DEF TypeOK
<1>2. CASE ClearOld
  BY <1>1, <1>2 DEF ClearOld
<1>3. CASE IsrClear
  BY <1>3 DEF IsrClear, Access
<1>4. CASE ClockPort
  <2>1. ~Asking
    BY <1>4, AskingSteps
  <2>2. CASE ClearOld \/ IsrClear
    BY <2>2, <1>2, <1>3
  <2>3. CASE ~ClearOld /\ ~IsrClear
    <3>1. armed' = armed
      BY <2>3 DEF Next, Processor, NoAccess, Works, EnableMask, TakeInterrupt, Dispatch, Look,
                  Isr, IsrUart, IsrReadX, IsrReadY, IsrPush
    <3>2. /\ pc = "isr_y" => x = sample
          /\ pc = "isr_push" => x = sample /\ y = sample
          /\ pc \notin {"isr_x", "isr_y", "isr_push"} => pushed = <<sample, sample>>
      BY <2>1, <3>1, <1>1 DEF NewestInv
    <3>3. CASE IsrReadX
      <4>1. pc = "isr_x" /\ gap = 0 /\ x' = oY_COORD /\ pc' = "isr_y"
        BY <3>3 DEF IsrReadX, Access
      <4>2. gap + phase < Ratio
        BY <4>1, ClockAssumption DEF TypeOK
      <4>3. ~oNEW_COORD
        BY <4>1, <4>2, <2>1, ClockAssumption DEF ReadInv, TypeOK
      <4> QED
        BY <4>1, <4>3, <1>1 DEF RegistersInv
    <3>4. CASE IsrReadY
      <4>1. pc = "isr_y" /\ y' = oX_COORD /\ pc' = "isr_push" /\ x' = x
        BY <3>4 DEF IsrReadY, Access
      <4>2. ~oNEW_COORD
        BY <4>1, <2>1 DEF ReadInv
      <4> QED
        BY <4>1, <4>2, <1>1, <3>2 DEF RegistersInv
    <3>5. CASE IsrPush
      BY <3>5, <3>2, <1>1 DEF IsrPush, Access
    <3>6. CASE NoAccess
      BY <3>6, <3>2, <1>1 DEF NoAccess
    <3>7. CASE EnableMask \/ TakeInterrupt \/ Dispatch \/ IsrUart
      <4>1. /\ pc \notin {"isr_x", "isr_y", "isr_push"}
            /\ pc' \notin {"isr_x", "isr_y", "isr_push"}
            /\ pushed' = pushed
        BY <3>7 DEF EnableMask, TakeInterrupt, Dispatch, Look, Handler, IsrUart, Access, TypeOK
      <4> QED
        BY <4>1, <3>2, <1>1
    <3> QED
      BY <2>3, <3>3, <3>4, <3>5, <3>6, <3>7 DEF Next, Processor, Works, Isr
  <2> QED
    BY <2>2, <2>3
<1> QED
  BY <1>2, <1>3, <1>4, ClockSteps

LEMMA TornStep == TypeOK /\ RegistersInv /\ ReadInv /\ TornInv /\ Next => TornInv'
<1> SUFFICES ASSUME TypeOK, RegistersInv, ReadInv, TornInv, Next PROVE TornInv'
  OBVIOUS
<1> DEFINE Reading == {"isr_x", "isr_y", "isr_push"}
<1>1. sample \in Nat /\ y \in Nat /\ pushed[2] \in Nat /\ armed \in Nat
  BY ClockAssumption DEF TypeOK
<1>2. /\ pc' = "clear" => irq_mask'
      /\ pc' \notin {"enable", "clear", "main"} /\ ret' = "clear" => irq_mask'
      /\ ~irq_mask' => armed' = MaxSamples
  BY DEF Next, Processor, NoAccess, Works, EnableMask, ClearOld, TakeInterrupt, Dispatch,
         Look, Handler, Isr, IsrUart, IsrClear, IsrReadX, IsrReadY, IsrPush, Access, TypeOK, TornInv
<1>3. ~ClearOld => armed' = armed
  BY DEF Next, Processor, NoAccess, Works, EnableMask, TakeInterrupt, Dispatch, Look,
         Isr, IsrUart, IsrClear, IsrReadX, IsrReadY, IsrPush
<1>4. ASSUME pc' = "isr_y", x' # oX_COORD', oX_COORD' > armed'
      PROVE  edge_capture' \/ edge_detect'
  <2>1. ClockPort /\ armed' = armed /\ (IsrReadX \/ (NoAccess /\ pc = "isr_y" /\ x' = x))
    BY <1>3, <1>4, ClockSteps DEF Next, Processor, NoAccess, Works, EnableMask, ClearOld, TakeInterrupt,
         Dispatch, Look, Handler, Isr, IsrUart, IsrClear, IsrReadX, IsrReadY, IsrPush, Access, TypeOK
  <2>2. CASE oX_COORD' = oX_COORD
    <3>1. ~IsrReadX
      BY <2>2, <1>4 DEF IsrReadX, RegistersInv
    <3>2. edge_capture \/ edge_detect
      BY <2>1, <2>2, <3>1, <1>4 DEF TornInv
    <3> QED
      BY <2>1, <3>2, AskingSteps
  <2>3. CASE oX_COORD' # oX_COORD
    <3>1. oNEW_COORD /\ ~oNEW_COORD' /\ phase + 1 = Ratio
      BY <2>3, RegisterSteps
    <3>2. Asking
      <4>1. CASE IsrReadX
        <5>1. pc = "isr_x" /\ gap = 0
          BY <4>1 DEF IsrReadX, Access
        <5>2. gap + phase < Ratio
          BY <5>1, ClockAssumption DEF TypeOK
        <5> QED
          BY <5>1, <5>2, <3>1, ClockAssumption DEF ReadInv, TypeOK
      <4>2. CASE pc = "isr_y"
        BY <4>2, <3>1 DEF ReadInv
      <4> QED
        BY <4>1, <4>2, <2>1
    <3> QED
      BY <2>1, <3>1, <3>2, AskingSteps
  <2> QED
    BY <2>2, <2>3
<1>5. ASSUME pc' = "isr_push", x' # y', y' > armed' PROVE edge_capture'
  <2>1. /\ ClockPort /\ armed' = armed
        /\ \/ pc = "isr_y" /\ y' = oX_COORD /\ x' = x
           \/ pc = "isr_push" /\ y' = y /\ x' = x
    BY <1>3, <1>5, ClockSteps DEF Next, Processor, NoAccess, Works, EnableMask, ClearOld, TakeInterrupt,
         Dispatch, Look, Handler, Isr, IsrUart, IsrClear, IsrReadX, IsrReadY, IsrPush, Access, TypeOK
  <2>2. edge_capture \/ edge_detect
    BY <2>1, <1>5 DEF TornInv
  <2> QED
    BY <2>1, <2>2, AskingSteps
<1>6. ASSUME pushed'[1] # pushed'[2], pushed'[2] > armed', pc' \notin Reading
      PROVE  edge_capture'
  <2>1. ~ClearOld
    BY <1>6, <1>1 DEF ClearOld, RegistersInv
  <2>2. ~IsrClear
    BY <1>6 DEF IsrClear, Access
  <2>3. ClockPort /\ armed' = armed
    BY <2>1, <2>2, <1>3, ClockSteps
  <2>4. CASE IsrPush
    <3>1. pc = "isr_push" /\ pushed' = <<x, y>>
      BY <2>4 DEF IsrPush, Access
    <3>2. edge_capture
      BY <3>1, <2>3, <1>6 DEF TornInv
    <3> QED
      BY <3>2, <2>3, AskingSteps
  <2>5. CASE ~IsrPush
    <3>1. pushed' = pushed /\ pc \notin Reading
      BY <2>5, <1>6 DEF Next, Processor, NoAccess, Works, EnableMask, ClearOld, TakeInterrupt,
         Dispatch, Look, Handler, Isr, IsrUart, IsrClear, IsrReadX, IsrReadY, Access, TypeOK
    <3>2. edge_capture
      BY <3>1, <2>3, <1>6 DEF TornInv
    <3> QED
      BY <3>2, <2>3, AskingSteps
  <2> QED
    BY <2>4, <2>5
<1> QED
  BY <1>2, <1>4, <1>5, <1>6 DEF TornInv

\* The inductive invariant of the hand-over.
THEOREM HandOverInvariant == Spec => []HandOverInv
<1>1. Init => HandOverInv
  <2> SUFFICES ASSUME Init PROVE HandOverInv
    OBVIOUS
  <2>1. TypeOK
    <3>1. 0 \in 0 .. Ratio - 1 /\ 0 \in 0 .. AccessGap - 1
      BY ClockAssumption
    <3>2. 0 \in 0 .. MaxSamples /\ 0 \in 0 .. MaxUarts /\ MaxSamples \in 0 .. MaxSamples
      BY ClockAssumption
    <3>3. <<0, 0>> \in (0 .. MaxSamples) \X (0 .. MaxSamples)
      BY <3>2
    <3> QED
      BY <3>1, <3>2, <3>3 DEF Init, TypeOK
  <2>2. LinesInv /\ ReadInv
    BY DEF Init, LinesInv, NoSpuriousInterrupt, ReadInv
  <2>3. RegistersInv
    BY DEF Init, RegistersInv
  <2>4. NewestInv
    BY ClockAssumption DEF Init, NewestInv
  <2>5. TornInv
    BY ClockAssumption DEF Init, TornInv
  <2> QED
    BY <2>1, <2>2, <2>3, <2>4, <2>5 DEF HandOverInv
<1>2. HandOverInv /\ [Next]_vars => HandOverInv'
  <2>1. ASSUME HandOverInv, Next PROVE HandOverInv'
    BY <2>1, PortType, LinesStep, RegistersStep, ReadStep, NewestStep, TornStep DEF HandOverInv
  <2>2. ASSUME HandOverInv, UNCHANGED vars PROVE HandOverInv'
    <3>1. TypeOK' /\ LinesInv'
      BY <2>2 DEF vars, controller, port, lines, cpu, HandOverInv, TypeOK, LinesInv, fetched, irq,
                  NoSpuriousInterrupt
    <3>2. RegistersInv' /\ ReadInv' /\ NewestInv' /\ TornInv'
      BY <2>2 DEF vars, controller, port, lines, cpu, HandOverInv, RegistersInv, ReadInv, NewestInv,
                  TornInv, Asking, edge_detect
    <3> QED
      BY <3>1, <3>2 DEF HandOverInv
  <2> QED
    BY <2>1, <2>2
<1> QED
  BY <1>1, <1>2, PTL DEF Spec

\* Whenever the program is quiet, the point pushed last is the newest sample, at
\* any ratio of the clocks and any duration of the processor's accesses that
\* meet TimingAssumption.
THEOREM NewestSample == Spec => []NewestSampleWins
<1>1. HandOverInv => NewestSampleWins
  BY DEF HandOverInv, NewestInv, NewestSampleWins, Quiet, Asking
<1> QED
  BY <1>1, HandOverInvariant, PTL

\* A torn pair never stays: the capture bit that brings the next interrupt is set.
THEOREM TornPairReplaced == Spec => []TornPairIsFollowed
<1>1. HandOverInv => TornPairIsFollowed
  <2> SUFFICES ASSUME HandOverInv, pushed[1] # pushed[2], pushed[2] > armed,
                      pc \notin {"isr_x", "isr_y", "isr_push"}
               PROVE  irq
    BY DEF TornPairIsFollowed
  <2>1. pushed[2] <= sample /\ sample <= MaxSamples /\ pushed[2] \in Nat /\ sample \in Nat
    BY ClockAssumption DEF HandOverInv, RegistersInv, TypeOK
  <2>2. armed # MaxSamples
    BY <2>1, ClockAssumption DEF HandOverInv, TypeOK
  <2> QED
    BY <2>2 DEF HandOverInv, TornInv, irq
<1> QED
  BY <1>1, HandOverInvariant, PTL

\* No interrupt is dispatched with nothing pending, however the lines of the two
\* devices rise and fall.
THEOREM NoneSpurious == Spec => []NoSpuriousInterrupt
<1>1. HandOverInv => NoSpuriousInterrupt
  BY DEF HandOverInv, LinesInv
<1> QED
  BY <1>1, HandOverInvariant, PTL

-----------------------------------------------------------------------------
(* THE CONSOLE.                                                              *)

\* The slot of the j-th character that waits in the ring.
WaitingSlot(o, j) == IF o + j - 1 < BUF_LEN THEN o + j - 1 ELSE o + j - 1 - BUF_LEN

\* How many wait, with the indices at i and o.
InRing(i, o) == IF i < o THEN i - o + BUF_LEN ELSE i - o

\* The characters that have left the ring.
Gone == Len(sent) + Len(hw)

\* c is the character that is due as the i-th.
Due(f, s, i, c) == i > f => c = i + s

\* What the host, the UART and the ring hold is what was written, in order.
OrderInv ==
    /\ from <= Gone + InRing(tx_in, tx_out)
    /\ \A i \in 1 .. Len(sent) : Due(from, shift, i, sent[i])
    /\ \A i \in 1 .. Len(hw) : Due(from, shift, Len(sent) + i, hw[i])
    /\ \A j \in 1 .. InRing(tx_in, tx_out) :
           Due(from, shift, Gone + j, tx_buf[WaitingSlot(tx_out, j)])

\* What writer w still has to copy, and what it has copied, is the rest of it.
WriterInv(w) ==
    LET rest == Len(todo[w])
        room == BUF_LEN - 1 - InRing(tx_in, tx_out)
        mine == IF step[w] = "publish" THEN n[w] ELSE 0
    IN  /\ step[w] = "idle" => todo[w] = <<>>
        /\ step[w] \in {"space", "copy", "wait"} => rest > 0
        /\ \A j \in 1 .. rest : todo[w][j] = written - rest + j
        /\ step[w] # "idle" => Gone + InRing(tx_in, tx_out) + mine + rest + shift = written
        /\ step[w] \in {"copy", "publish"} =>
               /\ in[w] = tx_in /\ n[w] > 0 /\ n[w] <= room /\ in[w] + n[w] <= BUF_LEN
        /\ step[w] = "copy" => n[w] <= rest
        /\ step[w] = "publish" =>
               \A i \in 1 .. n[w] :
                   tx_buf[in[w] + i - 1] = Gone + InRing(tx_in, tx_out) + i + shift

\* One writer at a time.
WritersInv ==
    /\ \A w \in Writers : WriterInv(w)
    /\ \E w \in Writers : step[w] = "idle"
    /\ (\A w \in Writers : step[w] = "idle") => Gone + InRing(tx_in, tx_out) + shift = written

\* All of this holds while the writers do not meet,
Orderly == ConsoleTypeOK /\ OrderInv /\ WritersInv

\* and they do not in the loop; but a writer never copies more than it was given.
LocalInv ==
    \A w \in Writers : /\ step[w] = "idle" => todo[w] = <<>>
                       /\ step[w] = "copy" => n[w] <= Len(todo[w])
StageInv == stage = "loop" => orderly /\ step["main"] = "idle"

ConsoleInv == ConsoleTypeOK /\ LocalInv /\ StageInv /\ (orderly => OrderInv /\ WritersInv)

-----------------------------------------------------------------------------
(* The ring's indices. *)

LEMMA RingWrap ==
    ASSUME NEW a \in 0 .. 2 * BUF_LEN - 1
    PROVE  a % BUF_LEN = IF a < BUF_LEN THEN a ELSE a - BUF_LEN
<1>1. CASE a < BUF_LEN
  BY <1>1, ConsoleAssumption
<1>2. CASE a >= BUF_LEN
  BY <1>2, ConsoleAssumption
<1> QED
  BY <1>1, <1>2, ConsoleAssumption

LEMMA InRingProperties ==
    ASSUME NEW i \in Slots, NEW o \in Slots
    PROVE  /\ InRing(i, o) \in 0 .. BUF_LEN - 1
           /\ (i - o + BUF_LEN) % BUF_LEN = InRing(i, o)
<1>1. i - o + BUF_LEN \in 0 .. 2 * BUF_LEN - 1
  BY ConsoleAssumption DEF Slots
<1>2. (i - o + BUF_LEN) % BUF_LEN = IF i - o + BUF_LEN < BUF_LEN THEN i - o + BUF_LEN ELSE i - o
  BY <1>1, RingWrap, ConsoleAssumption DEF Slots
<1> QED
  BY <1>2, ConsoleAssumption DEF Slots, InRing

\* The k characters in front leave, or l are added behind.
LEMMA MovedOut ==
    ASSUME NEW i \in Slots, NEW o \in Slots, NEW k \in 0 .. InRing(i, o)
    PROVE  LET p == (o + k) % BUF_LEN
           IN  /\ p \in Slots /\ InRing(i, p) = InRing(i, o) - k
               /\ \A j \in 1 .. InRing(i, o) - k : WaitingSlot(p, j) = WaitingSlot(o, k + j)
               /\ \A j \in 1 .. k : (o + j - 1) % BUF_LEN = WaitingSlot(o, j)
<1> DEFINE p == (o + k) % BUF_LEN
<1>1. BUF_LEN \in Nat /\ BUF_LEN > 1 /\ i \in 0 .. BUF_LEN - 1 /\ o \in 0 .. BUF_LEN - 1
  BY ConsoleAssumption DEF Slots
<1>2. InRing(i, o) \in 0 .. BUF_LEN - 1
  BY InRingProperties
<1>3. p = IF o + k < BUF_LEN THEN o + k ELSE o + k - BUF_LEN
  <2> DEFINE a == o + k
  <2>1. a \in 0 .. 2 * BUF_LEN - 1
    BY <1>1, <1>2
  <2> HIDE DEF a
  <2>2. a % BUF_LEN = IF a < BUF_LEN THEN a ELSE a - BUF_LEN
    BY <2>1, RingWrap
  <2> QED
    BY <1>1, <1>2, <2>2 DEF a
<1>4. ASSUME NEW j \in 1 .. k PROVE (o + j - 1) % BUF_LEN = WaitingSlot(o, j)
  <2> DEFINE a == o + j - 1
  <2>1. a \in 0 .. 2 * BUF_LEN - 1
    BY <1>1, <1>2
  <2> HIDE DEF a
  <2>2. a % BUF_LEN = IF a < BUF_LEN THEN a ELSE a - BUF_LEN
    BY <2>1, RingWrap
  <2> QED
    BY <1>1, <2>2 DEF WaitingSlot, a
<1> HIDE DEF p
<1>5. p \in Slots /\ InRing(i, p) = InRing(i, o) - k
  BY <1>1, <1>2, <1>3 DEF InRing, Slots
<1>6. \A j \in 1 .. InRing(i, o) - k : WaitingSlot(p, j) = WaitingSlot(o, k + j)
  BY <1>1, <1>2, <1>3 DEF WaitingSlot
<1> QED
  BY <1>4, <1>5, <1>6 DEF p

LEMMA MovedIn ==
    ASSUME NEW i \in Slots, NEW o \in Slots, NEW l \in 1 .. BUF_LEN - 1 - InRing(i, o),
           i + l <= BUF_LEN
    PROVE  LET q == (i + l) % BUF_LEN
           IN  /\ q \in Slots /\ InRing(q, o) = InRing(i, o) + l
               /\ \A j \in 1 .. InRing(i, o) : WaitingSlot(o, j) \in Slots \ (i .. i + l - 1)
               /\ \A j \in 1 .. l : WaitingSlot(o, InRing(i, o) + j) = i + j - 1
<1> DEFINE q == (i + l) % BUF_LEN
<1>1. BUF_LEN \in Nat /\ BUF_LEN > 1 /\ i \in 0 .. BUF_LEN - 1 /\ o \in 0 .. BUF_LEN - 1
  BY ConsoleAssumption DEF Slots
<1>2. InRing(i, o) \in 0 .. BUF_LEN - 1
  BY InRingProperties
<1>3. q = IF i + l < BUF_LEN THEN i + l ELSE i + l - BUF_LEN
  <2> DEFINE a == i + l
  <2>1. a \in 0 .. 2 * BUF_LEN - 1
    BY <1>1, <1>2
  <2> HIDE DEF a
  <2>2. a % BUF_LEN = IF a < BUF_LEN THEN a ELSE a - BUF_LEN
    BY <2>1, RingWrap
  <2> QED
    BY <1>1, <1>2, <2>2 DEF a
<1> HIDE DEF q
<1>4. q \in Slots /\ InRing(q, o) = InRing(i, o) + l
  BY <1>1, <1>2, <1>3 DEF InRing, Slots
<1>5. \A j \in 1 .. InRing(i, o) : WaitingSlot(o, j) \in Slots \ (i .. i + l - 1)
  BY <1>1, <1>2 DEF WaitingSlot, Slots, InRing
<1>6. \A j \in 1 .. l : WaitingSlot(o, InRing(i, o) + j) = i + j - 1
  BY <1>1, <1>2 DEF WaitingSlot, InRing
<1> QED
  BY <1>4, <1>5, <1>6 DEF q

\* What FindSpace finds is free, and in one piece.
LEMMA SpaceIsFree ==
    ASSUME NEW i \in Slots, NEW o \in Slots
    PROVE  /\ Space(i, o) \in 0 .. BUF_LEN - 1 - InRing(i, o)
           /\ i + Space(i, o) <= BUF_LEN
  BY ConsoleAssumption DEF Space, Slots, InRing

-----------------------------------------------------------------------------
(* The driver's interrupt and the host. *)

LEMMA Sizes ==
    ASSUME ConsoleTypeOK
    PROVE  /\ Len(sent) \in Nat /\ Len(hw) \in Nat /\ Gone \in Nat /\ written \in Nat
           /\ tx_in \in Slots /\ tx_out \in Slots
           /\ InRing(tx_in, tx_out) \in 0 .. BUF_LEN - 1 /\ BUF_LEN \in Nat
           /\ \A w \in Writers : Len(todo[w]) \in Nat /\ n[w] \in Nat /\ in[w] \in Slots
           /\ from \in Nat /\ shift \in Int
<1>1. Len(sent) \in Nat /\ Len(hw) \in Nat
  BY LenProperties DEF ConsoleTypeOK
<1>2. written \in Nat /\ BUF_LEN \in Nat /\ from \in Nat /\ shift \in Int
  BY ConsoleAssumption DEF ConsoleTypeOK, Chars
<1>3. tx_in \in Slots /\ tx_out \in Slots
  BY DEF ConsoleTypeOK
<1>4. InRing(tx_in, tx_out) \in 0 .. BUF_LEN - 1
  BY <1>3, InRingProperties
<1>5. ASSUME NEW w \in Writers PROVE Len(todo[w]) \in Nat /\ n[w] \in Nat /\ in[w] \in Slots
  <2>1. todo[w] \in Seq(Chars) /\ n[w] \in Slots /\ in[w] \in Slots
    BY DEF ConsoleTypeOK
  <2>2. n[w] \in Nat
    BY <2>1, ConsoleAssumption DEF Slots
  <2> QED
    BY <2>1, <2>2, LenProperties
<1> QED
  BY <1>1, <1>2, <1>3, <1>4, <1>5 DEF Gone

\* The interrupt takes a piece off the front of the ring.
LEMMA IrqStep ==
    ASSUME ConsoleTypeOK, OrderInv, JtagIrq
    PROVE  /\ OrderInv' /\ tx_out' \in Slots /\ hw' \in Seq(Chars)
           /\ Gone' + InRing(tx_in', tx_out') = Gone + InRing(tx_in, tx_out)
           /\ InRing(tx_in', tx_out') <= InRing(tx_in, tx_out)
<1> DEFINE S == Len(sent)
           H == Len(hw)
           W == InRing(tx_in, tx_out)
           k == Least(HwDepth - H, W)
           more == [i \in 1 .. k |-> tx_buf[(tx_out + i - 1) % BUF_LEN]]
<1>1. /\ S \in Nat /\ H \in Nat /\ W \in 0 .. BUF_LEN - 1 /\ BUF_LEN \in Nat
      /\ tx_in \in Slots /\ tx_out \in Slots
  BY Sizes
<1>14. from' = from /\ shift' = shift /\ from <= Gone + W
  BY DEF JtagIrq, order, OrderInv
<1>2. Waiting = W
  BY <1>1, InRingProperties DEF Waiting
<1>3. k \in 0 .. W
  BY <1>1, ConsoleAssumption DEF Least, JtagIrq
<1>4. /\ hw' = hw \o more /\ tx_out' = (tx_out + k) % BUF_LEN
      /\ UNCHANGED <<sent, tx_in, tx_buf>>
  BY <1>2 DEF JtagIrq
<1> HIDE DEF k, W
<1>5. /\ tx_out' \in Slots /\ InRing(tx_in, tx_out') = W - k
      /\ \A j \in 1 .. W - k : WaitingSlot(tx_out', j) = WaitingSlot(tx_out, k + j)
      /\ \A j \in 1 .. k : (tx_out + j - 1) % BUF_LEN = WaitingSlot(tx_out, j)
  BY <1>1, <1>3, <1>4, MovedOut DEF W
<1>6. \A j \in 1 .. W : /\ Due(from, shift, S + H + j, tx_buf[WaitingSlot(tx_out, j)])
                        /\ WaitingSlot(tx_out, j) \in Slots
  <2>1. \A j \in 1 .. W : WaitingSlot(tx_out, j) \in Slots
    BY <1>1 DEF WaitingSlot, Slots
  <2> QED
    BY <2>1 DEF OrderInv, Gone, W
<1>7. more \in Seq(Chars) /\ Len(more) = k
      /\ \A j \in 1 .. k : Due(from, shift, S + H + j, more[j])
  <2>1. \A j \in 1 .. k : j \in 1 .. W
    BY <1>1, <1>3
  <2>2. \A j \in 1 .. k : more[j] = tx_buf[WaitingSlot(tx_out, j)]
    BY <1>5
  <2>3. \A j \in 1 .. k : Due(from, shift, S + H + j, more[j])
    BY <2>1, <2>2, <1>6
  <2>4. \A j \in 1 .. k : more[j] \in Chars
    BY <2>1, <2>2, <1>6 DEF ConsoleTypeOK
  <2>5. more \in [1 .. k -> Chars]
    BY <2>4
  <2>6. k \in Nat
    BY <1>1, <1>3
  <2>7. more \in Seq(Chars) /\ Len(more) = k
    <3> HIDE DEF more
    <3> QED
      BY <2>5, <2>6, LenProperties
  <2> QED
    BY <2>3, <2>7
<1> HIDE DEF more
<1>8. /\ hw' \in Seq(Chars) /\ Len(hw') = H + k
      /\ \A i \in 1 .. H + k : hw'[i] = IF i <= H THEN hw[i] ELSE more[i - H]
  BY <1>4, <1>7, ConcatProperties DEF ConsoleTypeOK
<1>9. Gone' = S + (H + k)
  BY <1>4, <1>8 DEF Gone
<1>10. \A i \in 1 .. H + k : Due(from, shift, S + i, hw'[i])
  <2> SUFFICES ASSUME NEW i \in 1 .. H + k PROVE Due(from, shift, S + i, hw'[i])
    OBVIOUS
  <2>1. CASE i <= H
    <3>1. i \in 1 .. H
      BY <2>1, <1>1, <1>3
    <3> QED
      BY <3>1, <2>1, <1>8 DEF OrderInv
  <2>2. CASE ~(i <= H)
    <3>1. i - H \in 1 .. k /\ S + H + (i - H) = S + i
      BY <2>2, <1>1, <1>3
    <3> QED
      BY <3>1, <2>2, <1>7, <1>8
  <2> QED
    BY <2>1, <2>2
<1>11. \A j \in 1 .. W - k : Due(from, shift, S + (H + k) + j, tx_buf[WaitingSlot(tx_out', j)])
  <2> SUFFICES ASSUME NEW j \in 1 .. W - k
               PROVE  Due(from, shift, S + (H + k) + j, tx_buf[WaitingSlot(tx_out', j)])
    OBVIOUS
  <2>1. k + j \in 1 .. W /\ S + H + (k + j) = S + (H + k) + j
    BY <1>1, <1>3
  <2> QED
    BY <2>1, <1>5, <1>6
<1>13. /\ Gone' + InRing(tx_in', tx_out') = Gone + W
       /\ InRing(tx_in', tx_out') <= W
  <2>1. InRing(tx_in', tx_out') = W - k
    BY <1>4, <1>5
  <2>2. Gone = S + H
    BY DEF Gone
  <2> QED
    BY <2>1, <2>2, <1>1, <1>3, <1>9
<1>12. OrderInv'
  <2>1. \A i \in 1 .. Len(sent') : Due(from, shift, i, sent'[i])
    BY <1>4 DEF OrderInv
  <2>2. \A i \in 1 .. Len(hw') : Due(from, shift, Len(sent') + i, hw'[i])
    BY <1>4, <1>8, <1>10
  <2>3. \A j \in 1 .. InRing(tx_in', tx_out') :
            Due(from, shift, Gone' + j, tx_buf'[WaitingSlot(tx_out', j)])
    BY <1>4, <1>5, <1>9, <1>11
  <2>4. from <= Gone' + InRing(tx_in', tx_out')
    BY <1>13, <1>14
  <2> QED
    BY <1>14, <2>1, <2>2, <2>3, <2>4 DEF OrderInv
<1> QED
  BY <1>5, <1>8, <1>12, <1>13 DEF W

\* The host takes the character whose turn it is.
LEMMA HostStep ==
    ASSUME ConsoleTypeOK, OrderInv, HostReads
    PROVE  OrderInv' /\ Gone' = Gone /\ hw' \in Seq(Chars) /\ sent' \in Seq(Chars)
<1> DEFINE S == Len(sent)
           H == Len(hw)
<1>1. S \in Nat /\ H \in Nat /\ sent \in Seq(Chars) /\ hw \in Seq(Chars)
  BY Sizes DEF ConsoleTypeOK
<1>2. hw # <<>> /\ sent' = Append(sent, Head(hw)) /\ hw' = Tail(hw) /\ UNCHANGED ring
      /\ from' = from /\ shift' = shift
  BY DEF HostReads, order
<1>3. H > 0 /\ Head(hw) = hw[1] /\ Head(hw) \in Chars
  <2>1. H > 0
    BY <1>1, <1>2, EmptySeq
  <2>2. Head(hw) = hw[1]
    BY <1>1, <1>2
  <2> QED
    BY <2>1, <2>2, <1>1, <1>2, HeadTailProperties
<1>4. Due(from, shift, S + 1, hw[1])
  BY <1>1, <1>3 DEF OrderInv
<1>5. /\ sent' \in Seq(Chars) /\ Len(sent') = S + 1
      /\ \A i \in 1 .. S : sent'[i] = sent[i]
      /\ Due(from, shift, S + 1, sent'[S + 1])
  BY <1>1, <1>2, <1>3, <1>4, AppendProperties
<1>6. /\ hw' \in Seq(Chars) /\ Len(hw') = H - 1
      /\ \A i \in 1 .. H - 1 : hw'[i] = hw[i + 1]
  BY <1>1, <1>2, HeadTailProperties
<1>7. Gone' = Gone
  BY <1>1, <1>5, <1>6 DEF Gone
<1>8. \A i \in 1 .. Len(sent') : Due(from, shift, i, sent'[i])
  <2> SUFFICES ASSUME NEW i \in 1 .. S + 1 PROVE Due(from, shift, i, sent'[i])
    BY <1>5
  <2>1. i \in 1 .. S \/ i = S + 1
    BY <1>1
  <2> QED
    BY <2>1, <1>5 DEF OrderInv
<1>9. \A i \in 1 .. Len(hw') : Due(from, shift, Len(sent') + i, hw'[i])
  <2> SUFFICES ASSUME NEW i \in 1 .. H - 1 PROVE Due(from, shift, S + 1 + i, hw'[i])
    BY <1>5, <1>6
  <2>1. i + 1 \in 1 .. H /\ S + (i + 1) = S + 1 + i
    BY <1>1
  <2> QED
    BY <2>1, <1>6 DEF OrderInv
<1>10. OrderInv'
  BY <1>2, <1>7, <1>8, <1>9 DEF OrderInv, ring
<1> QED
  BY <1>5, <1>6, <1>7, <1>10

-----------------------------------------------------------------------------
(* The writers. *)

\* A call starts when everything written before is in the ring or gone.
LEMMA CallStep ==
    ASSUME Orderly, NEW w \in Writers, Call(w), \A u \in Writers : step[u] = "idle"
    PROVE  OrderInv' /\ WriterInv(w)' /\ step'[w] # "idle"
<1>1. PICK count \in 1 .. MaxCount :
          /\ written + count <= MaxChars
          /\ todo' = [todo EXCEPT ![w] = [i \in 1 .. count |-> written + i]]
          /\ written' = written + count
  BY DEF Call
<1>2. count \in Nat /\ count > 0 /\ MaxChars \in Nat /\ written \in Nat
  BY Sizes, ConsoleAssumption DEF Orderly
<1> DEFINE more == [i \in 1 .. count |-> written + i]
<1>3. more \in Seq(Chars) /\ Len(more) = count /\ \A i \in 1 .. count : more[i] = written + i
  <2>1. \A i \in 1 .. count : more[i] = written + i /\ written + i \in Chars
    BY <1>1, <1>2 DEF Chars
  <2>2. more \in [1 .. count -> Chars]
    BY <2>1
  <2> QED
    BY <2>1, <2>2, <1>2
<1> HIDE DEF more
<1>4. /\ UNCHANGED <<ring, write_irq, hw, in, out, n, sent, from, shift>>
      /\ step' = [step EXCEPT ![w] = "space"]
      /\ todo' = [todo EXCEPT ![w] = more]
  BY <1>1 DEF Call, more
<1>5. step'[w] = "space" /\ todo'[w] = more /\ Gone' = Gone
  BY <1>4 DEF Orderly, ConsoleTypeOK, Gone
<1>6. OrderInv'
  BY <1>4, <1>5 DEF ring, Orderly, OrderInv
<1>7. Gone + InRing(tx_in, tx_out) + shift = written
  BY DEF Orderly, WritersInv
<1>8. WriterInv(w)'
  <2>1. Gone' + InRing(tx_in', tx_out') + 0 + count + shift' = written'
    BY <1>1, <1>2, <1>4, <1>5, <1>7, Sizes DEF ring, Orderly
  <2>2. \A j \in 1 .. count : more[j] = written' - count + j
    BY <1>1, <1>2, <1>3
  <2> QED
    BY <2>1, <2>2, <1>2, <1>3, <1>5 DEF WriterInv
<1> QED
  BY <1>5, <1>6, <1>8

LEMMA FindSpaceStep ==
    ASSUME Orderly, NEW w \in Writers, FindSpace(w)
    PROVE  OrderInv' /\ WriterInv(w)' /\ step'[w] # "idle"
<1> DEFINE rest == Len(todo[w])
           m == Least(Space(tx_in, tx_out), rest)
<1>1. /\ UNCHANGED <<ring, write_irq, hw, todo, written, sent>>
      /\ from' = from /\ shift' = shift
      /\ step[w] = "space" /\ m = n'[w]
      /\ in' = [in EXCEPT ![w] = tx_in] /\ out' = [out EXCEPT ![w] = tx_out]
      /\ n' = [n EXCEPT ![w] = m]
      /\ step' = [step EXCEPT ![w] = IF m = 0 THEN "kick" ELSE "copy"]
  BY DEF FindSpace, order, Orderly, ConsoleTypeOK
<1>2. /\ rest \in Nat /\ rest > 0 /\ tx_in \in Slots /\ tx_out \in Slots
      /\ InRing(tx_in, tx_out) \in 0 .. BUF_LEN - 1 /\ BUF_LEN \in Nat
  BY <1>1, Sizes DEF Orderly, WritersInv, WriterInv
<1>3. /\ m \in 0 .. BUF_LEN - 1 - InRing(tx_in, tx_out) /\ m <= rest /\ tx_in + m <= BUF_LEN
      /\ m \in Slots
  <2>1. /\ Space(tx_in, tx_out) \in 0 .. BUF_LEN - 1 - InRing(tx_in, tx_out)
        /\ tx_in + Space(tx_in, tx_out) <= BUF_LEN
    BY <1>2, SpaceIsFree
  <2> QED
    BY <2>1, <1>2 DEF Least, Slots
<1> HIDE DEF m
<1>4. /\ in'[w] = tx_in /\ n'[w] = m /\ step'[w] = IF m = 0 THEN "kick" ELSE "copy"
      /\ Gone' = Gone
  BY <1>1 DEF Orderly, ConsoleTypeOK, Gone
<1>5. OrderInv'
  BY <1>1, <1>4 DEF ring, Orderly, OrderInv
<1>6. /\ \A j \in 1 .. rest : todo[w][j] = written - rest + j
      /\ Gone + InRing(tx_in, tx_out) + 0 + rest + shift = written
  BY <1>1 DEF Orderly, WritersInv, WriterInv
<1>7. WriterInv(w)'
  <2>1. step'[w] \in {"kick", "copy"} /\ (step'[w] = "copy" => m > 0)
    BY <1>3, <1>4
  <2>2. step'[w] = "copy" =>
            /\ in'[w] = tx_in' /\ n'[w] > 0 /\ n'[w] <= BUF_LEN - 1 - InRing(tx_in', tx_out')
            /\ in'[w] + n'[w] <= BUF_LEN /\ n'[w] <= rest
    BY <2>1, <1>1, <1>2, <1>3, <1>4 DEF ring
  <2> QED
    BY <2>1, <2>2, <1>1, <1>2, <1>4, <1>6 DEF ring, WriterInv
<1> QED
  BY <1>4, <1>5, <1>7

\* The copy goes to slots in which nothing waits.
LEMMA CopyStep ==
    ASSUME Orderly, NEW w \in Writers, Copy(w)
    PROVE  OrderInv' /\ WriterInv(w)' /\ step'[w] # "idle"
<1> DEFINE T == Len(todo[w])
           m == n[w]
           L == InRing(tx_in, tx_out)
           G == Gone
<1>1. /\ tx_buf' = [i \in Slots |-> IF i \in in[w] .. in[w] + n[w] - 1
                                      THEN todo[w][i - in[w] + 1] ELSE tx_buf[i]]
      /\ todo' = [todo EXCEPT ![w] = SubSeq(@, n[w] + 1, Len(@))]
      /\ step' = [step EXCEPT ![w] = "publish"] /\ step[w] = "copy"
      /\ UNCHANGED <<tx_in, tx_out, write_irq, hw, in, out, n, written, sent, from, shift>>
  BY DEF Copy, order
<1>2. /\ T \in Nat /\ m \in Nat /\ L \in 0 .. BUF_LEN - 1 /\ BUF_LEN \in Nat /\ G \in Nat
      /\ written \in Nat /\ tx_in \in Slots /\ tx_out \in Slots /\ todo[w] \in Seq(Chars)
      /\ shift \in Int
  BY Sizes DEF Orderly, ConsoleTypeOK
<1>3. /\ in[w] = tx_in /\ m > 0 /\ m <= BUF_LEN - 1 - L /\ tx_in + m <= BUF_LEN /\ m <= T
      /\ \A j \in 1 .. T : todo[w][j] = written - T + j
      /\ G + L + 0 + T + shift = written
  BY <1>1 DEF Orderly, WritersInv, WriterInv
<1>4. step'[w] = "publish" /\ todo'[w] = SubSeq(todo[w], m + 1, T) /\ Gone' = G
  BY <1>1 DEF Orderly, ConsoleTypeOK, Gone
<1>5. /\ todo'[w] \in Seq(Chars) /\ Len(todo'[w]) = T - m
      /\ \A j \in 1 .. T - m : todo'[w][j] = todo[w][m + j]
  <2>1. m + 1 \in Int /\ T \in Int
    BY <1>2
  <2>2. \A i \in m + 1 .. T : todo[w][i] \in Chars
    <3>1. \A i \in m + 1 .. T : i \in 1 .. T
      BY <1>2
    <3> QED
      BY <3>1, <1>2, ElementOfSeq
  <2>3. /\ SubSeq(todo[w], m + 1, T) \in Seq(Chars)
        /\ Len(SubSeq(todo[w], m + 1, T)) = IF m + 1 <= T THEN T - (m + 1) + 1 ELSE 0
        /\ \A j \in 1 .. T - (m + 1) + 1 : SubSeq(todo[w], m + 1, T)[j] = todo[w][m + 1 + j - 1]
    BY <2>1, <2>2, SubSeqProperties
  <2>4. (IF m + 1 <= T THEN T - (m + 1) + 1 ELSE 0) = T - m /\ T - (m + 1) + 1 = T - m
    <3>1. m <= T /\ m \in Nat /\ T \in Nat
      BY <1>2, <1>3
    <3> HIDE DEF T, m
    <3> QED
      BY <3>1
  <2>5. \A j \in 1 .. T - m : m + 1 + j - 1 = m + j
    BY <1>2
  <2> QED
    BY <2>3, <2>4, <2>5, <1>4
<1> HIDE DEF L, G
<1>14. G + L + T + shift = written /\ tx_in \in 0 .. BUF_LEN - 1
  <2> HIDE DEF T, m
  <2>1. L \in Nat /\ G + L + 0 + T + shift = written
    BY <1>2, <1>3
  <2> QED
    BY <2>1, <1>2 DEF Slots
<1>6. \A j \in 1 .. L : WaitingSlot(tx_out, j) \in Slots \ (tx_in .. tx_in + m - 1)
  <2>1. m \in 1 .. BUF_LEN - 1 - InRing(tx_in, tx_out)
    BY <1>2, <1>3 DEF L
  <2> QED
    BY <2>1, <1>2, <1>3, MovedIn DEF L
<1>7. \A j \in 1 .. L : Due(from, shift, G + j, tx_buf'[WaitingSlot(tx_out, j)])
  <2> SUFFICES ASSUME NEW j \in 1 .. L
               PROVE  Due(from, shift, G + j, tx_buf'[WaitingSlot(tx_out, j)])
    OBVIOUS
  <2>1. tx_buf'[WaitingSlot(tx_out, j)] = tx_buf[WaitingSlot(tx_out, j)]
    BY <1>1, <1>3, <1>6
  <2> QED
    BY <2>1 DEF Orderly, OrderInv, L, G
<1>8. OrderInv'
  <2>1. \A i \in 1 .. Len(sent') : Due(from, shift, i, sent'[i])
    BY <1>1 DEF Orderly, OrderInv
  <2>2. \A i \in 1 .. Len(hw') : Due(from, shift, Len(sent') + i, hw'[i])
    BY <1>1 DEF Orderly, OrderInv
  <2>3. \A j \in 1 .. InRing(tx_in', tx_out') :
            Due(from, shift, Gone' + j, tx_buf'[WaitingSlot(tx_out', j)])
    BY <1>1, <1>4, <1>7 DEF L
  <2>4. from <= Gone' + InRing(tx_in', tx_out')
    BY <1>1, <1>4 DEF G, Orderly, OrderInv
  <2> QED
    BY <1>1, <2>1, <2>2, <2>3, <2>4 DEF OrderInv
<1>9. \A i \in 1 .. m : tx_buf'[tx_in + i - 1] = G + L + i + shift
  <2> SUFFICES ASSUME NEW i \in 1 .. m PROVE tx_buf'[tx_in + i - 1] = G + L + i + shift
    OBVIOUS
  <2>1. /\ tx_in + i - 1 \in Slots /\ tx_in + i - 1 \in tx_in .. tx_in + m - 1
        /\ (tx_in + i - 1) - tx_in + 1 = i /\ i \in 1 .. T /\ written - T + i = G + L + i + shift
    <3> HIDE DEF T, m
    <3> QED
      BY <1>2, <1>3, <1>14 DEF Slots
  <2>2. tx_buf'[tx_in + i - 1] = todo[w][i]
    BY <2>1, <1>1, <1>3
  <2> QED
    BY <2>1, <2>2, <1>3
<1>10. \A j \in 1 .. T - m : todo'[w][j] = written - (T - m) + j
  <2> SUFFICES ASSUME NEW j \in 1 .. T - m PROVE todo'[w][j] = written - (T - m) + j
    OBVIOUS
  <2>1. m + j \in 1 .. T /\ written - T + (m + j) = written - (T - m) + j
    BY <1>2, <1>3
  <2> QED
    BY <2>1, <1>3, <1>5
<1>11. G + L + m + (T - m) + shift = written
  <2> HIDE DEF T, m
  <2> QED
    BY <1>2, <1>14
<1>12. WriterInv(w)'
  <2>1. InRing(tx_in', tx_out') = L /\ in'[w] = tx_in /\ n'[w] = m /\ tx_in' = tx_in /\ written' = written
    BY <1>1, <1>3 DEF L
  <2>2. Gone' + InRing(tx_in', tx_out') + n'[w] + Len(todo'[w]) + shift' = written'
    BY <2>1, <1>1, <1>4, <1>5, <1>11
  <2>3. \A j \in 1 .. Len(todo'[w]) : todo'[w][j] = written' - Len(todo'[w]) + j
    BY <2>1, <1>5, <1>10
  <2>4. /\ in'[w] = tx_in' /\ n'[w] > 0 /\ n'[w] <= BUF_LEN - 1 - InRing(tx_in', tx_out')
        /\ in'[w] + n'[w] <= BUF_LEN
    BY <2>1, <1>3
  <2>5. \A i \in 1 .. n'[w] :
            tx_buf'[in'[w] + i - 1] = Gone' + InRing(tx_in', tx_out') + i + shift'
    BY <2>1, <1>1, <1>4, <1>9
  <2> QED
    BY <2>2, <2>3, <2>4, <2>5, <1>4 DEF WriterInv
<1> QED
  BY <1>4, <1>8, <1>12

\* The new index makes what was copied wait.
LEMMA PublishStep ==
    ASSUME Orderly, NEW w \in Writers, PublishIn(w)
    PROVE  OrderInv' /\ WriterInv(w)' /\ step'[w] # "idle"
<1> DEFINE T == Len(todo[w])
           m == n[w]
           L == InRing(tx_in, tx_out)
           G == Gone
<1>1. /\ tx_in' = (in[w] + n[w]) % BUF_LEN /\ step[w] = "publish"
      /\ step' = [step EXCEPT ![w] = IF todo[w] = <<>> THEN "kick" ELSE "space"]
      /\ UNCHANGED <<tx_buf, tx_out, write_irq, hw, in, out, n, todo, written, sent, from, shift>>
  BY DEF PublishIn, order
<1>2. /\ T \in Nat /\ m \in Nat /\ L \in 0 .. BUF_LEN - 1 /\ BUF_LEN \in Nat /\ G \in Nat
      /\ written \in Nat /\ tx_in \in Slots /\ tx_out \in Slots /\ todo[w] \in Seq(Chars)
      /\ shift \in Int
  BY Sizes DEF Orderly, ConsoleTypeOK
<1>3. /\ in[w] = tx_in /\ m > 0 /\ m <= BUF_LEN - 1 - L /\ tx_in + m <= BUF_LEN
      /\ \A j \in 1 .. T : todo[w][j] = written - T + j
      /\ \A i \in 1 .. m : tx_buf[tx_in + i - 1] = G + L + i + shift
      /\ G + L + m + T + shift = written
  BY <1>1 DEF Orderly, WritersInv, WriterInv
<1>4. step'[w] = (IF todo[w] = <<>> THEN "kick" ELSE "space") /\ Gone' = G
  BY <1>1 DEF Orderly, ConsoleTypeOK, Gone
<1> HIDE DEF L, G
<1>5. /\ tx_in' \in Slots /\ InRing(tx_in', tx_out) = L + m
      /\ \A j \in 1 .. m : WaitingSlot(tx_out, L + j) = tx_in + j - 1
  <2>1. m \in 1 .. BUF_LEN - 1 - InRing(tx_in, tx_out)
    BY <1>2, <1>3 DEF L
  <2> QED
    BY <2>1, <1>1, <1>2, <1>3, MovedIn DEF L
<1>6. \A j \in 1 .. L + m : Due(from, shift, G + j, tx_buf[WaitingSlot(tx_out, j)])
  <2> SUFFICES ASSUME NEW j \in 1 .. L + m
               PROVE  Due(from, shift, G + j, tx_buf[WaitingSlot(tx_out, j)])
    OBVIOUS
  <2>1. CASE j <= L
    <3>1. j \in 1 .. L
      BY <2>1, <1>2
    <3> QED
      BY <3>1 DEF Orderly, OrderInv, L, G
  <2>2. CASE ~(j <= L)
    <3> DEFINE i == j - L
    <3>1. i \in 1 .. m /\ L + i = j /\ G + L + i = G + j
      BY <2>2, <1>2
    <3> HIDE DEF i
    <3>2. WaitingSlot(tx_out, j) = tx_in + i - 1
      BY <3>1, <1>5
    <3> QED
      BY <3>1, <3>2, <1>3 DEF Due
  <2> QED
    BY <2>1, <2>2
<1>7. OrderInv'
  <2>1. \A i \in 1 .. Len(sent') : Due(from, shift, i, sent'[i])
    BY <1>1 DEF Orderly, OrderInv
  <2>2. \A i \in 1 .. Len(hw') : Due(from, shift, Len(sent') + i, hw'[i])
    BY <1>1 DEF Orderly, OrderInv
  <2>3. \A j \in 1 .. InRing(tx_in', tx_out') :
            Due(from, shift, Gone' + j, tx_buf'[WaitingSlot(tx_out', j)])
    BY <1>1, <1>4, <1>5, <1>6
  <2>4. from <= Gone' + InRing(tx_in', tx_out')
    <3>1. from <= G + L /\ from \in Nat
      BY Sizes DEF G, L, Orderly, OrderInv
    <3>2. Gone' + InRing(tx_in', tx_out') = G + (L + m)
      BY <1>1, <1>4, <1>5
    <3> HIDE DEF m
    <3> QED
      BY <1>2, <3>1, <3>2
  <2> QED
    BY <1>1, <2>1, <2>2, <2>3, <2>4 DEF OrderInv
<1>8. T = 0 <=> todo[w] = <<>>
  BY <1>2, EmptySeq
<1>9. WriterInv(w)'
  <2>1. InRing(tx_in', tx_out') = L + m /\ todo' = todo /\ written' = written
    BY <1>1, <1>5
  <2>2. G + (L + m) + 0 + T + shift' = written
    BY <1>1, <1>2, <1>3
  <2>3. step'[w] \in {"kick", "space"} /\ (step'[w] = "space" => T > 0)
    BY <1>2, <1>4, <1>8
  <2> QED
    BY <2>1, <2>2, <2>3, <1>1, <1>3, <1>4 DEF WriterInv
<1> QED
  BY <1>4, <1>7, <1>9

LEMMA KickStep ==
    ASSUME Orderly, NEW w \in Writers, Kick(w) \/ Wait(w)
    PROVE  /\ OrderInv' /\ WriterInv(w)'
           /\ Gone' = Gone /\ UNCHANGED <<tx_in, tx_out, written, shift>>
           /\ step'[w] = "idle" => todo[w] = <<>> /\ step[w] = "kick"
<1>1. /\ UNCHANGED <<ring, hw, in, out, n, todo, written, sent, from, shift>>
      /\ \/ step[w] = "kick" /\ step' = [step EXCEPT ![w] = IF todo[w] = <<>> THEN "idle" ELSE "wait"]
         \/ step[w] = "wait" /\ step' = [step EXCEPT ![w] = "space"]
  BY DEF Kick, Wait, order
<1>2. /\ Gone' = Gone
      /\ \/ step[w] = "kick" /\ step'[w] = (IF todo[w] = <<>> THEN "idle" ELSE "wait")
         \/ step[w] = "wait" /\ step'[w] = "space"
  BY <1>1 DEF Orderly, ConsoleTypeOK, Gone
<1>3. OrderInv'
  BY <1>1, <1>2 DEF ring, Orderly, OrderInv
<1>4. todo[w] # <<>> => Len(todo[w]) > 0
  <2>1. todo[w] \in Seq(Chars)
    BY DEF Orderly, ConsoleTypeOK
  <2>2. todo[w] # <<>> => Len(todo[w]) \in Nat \ {0}
    BY <2>1, EmptySeq
  <2> QED
    BY <2>2
<1>5. WriterInv(w)'
  BY <1>1, <1>2, <1>4 DEF ring, Orderly, WritersInv, WriterInv
<1> QED
  BY <1>1, <1>2, <1>3, <1>5 DEF ring

\* A writer that is not writing has nothing to copy.
LEMMA IdleWriter ==
    ASSUME NEW u \in Writers, step'[u] = "idle", todo'[u] = <<>>
    PROVE  WriterInv(u)'
  BY DEF WriterInv

\* One step of a writer, when writers do not meet.
LEMMA WriterStep ==
    ASSUME Orderly, NEW w \in Writers, Call(w) \/ Step(w), orderly'
    PROVE  OrderInv' /\ WritersInv'
<1>1. \A u \in Writers \ {w} : step[u] = "idle"
  <2>1. CASE Call(w)
    BY <2>1 DEF Call
  <2>2. CASE Step(w)
    <3>1. step[w] # "idle"
      BY <2>2 DEF Step, FindSpace, Copy, PublishIn, Kick, Wait
    <3> QED
      BY <3>1 DEF Orderly, WritersInv, Writers
  <2> QED
    BY <2>1, <2>2
<1>2. \A u \in Writers \ {w} : step'[u] = step[u] /\ todo'[u] = todo[u]
  BY DEF Call, Step, FindSpace, Copy, PublishIn, Kick, Wait, Orderly, ConsoleTypeOK
<1>3. \A u \in Writers \ {w} : WriterInv(u)'
  <2> SUFFICES ASSUME NEW u \in Writers \ {w} PROVE WriterInv(u)'
    OBVIOUS
  <2>1. WriterInv(u)
    BY DEF Orderly, WritersInv
  <2>2. step'[u] = "idle" /\ todo'[u] = <<>>
    BY <1>1, <1>2, <2>1 DEF WriterInv
  <2> QED
    BY <2>2, IdleWriter
<1>4. /\ OrderInv' /\ WriterInv(w)'
      /\ step'[w] = "idle" => Gone' + InRing(tx_in', tx_out') + shift' = written'
  <2>1. CASE Call(w)
    <3>1. \A u \in Writers : step[u] = "idle"
      BY <1>1, <2>1 DEF Call
    <3> QED
      BY <3>1, <2>1, CallStep
  <2>2. CASE FindSpace(w)
    BY <2>2, FindSpaceStep
  <2>3. CASE Copy(w)
    BY <2>3, CopyStep
  <2>4. CASE PublishIn(w)
    BY <2>4, PublishStep
  <2>5. CASE Kick(w) \/ Wait(w)
    <3>1. /\ OrderInv' /\ WriterInv(w)'
          /\ Gone' = Gone /\ UNCHANGED <<tx_in, tx_out, written, shift>>
          /\ step'[w] = "idle" => todo[w] = <<>> /\ step[w] = "kick"
      BY <2>5, KickStep
    <3>2. ASSUME todo[w] = <<>>, step[w] = "kick" PROVE Gone + InRing(tx_in, tx_out) + shift = written
      <4>1. Gone + InRing(tx_in, tx_out) + 0 + Len(todo[w]) + shift = written
        BY <3>2 DEF Orderly, WritersInv, WriterInv
      <4>2. Len(todo[w]) = 0
        BY <3>2
      <4> QED
        BY <4>1, <4>2, Sizes DEF Orderly
    <3> QED
      BY <3>1, <3>2
  <2> QED
    BY <2>1, <2>2, <2>3, <2>4, <2>5 DEF Step
<1>5. WritersInv'
  <2>1. \A u \in Writers : WriterInv(u)'
    BY <1>3, <1>4
  <2>2. \E u \in Writers : step'[u] = "idle"
    BY <1>1, <1>2 DEF Writers
  <2> QED
    BY <2>1, <2>2, <1>4 DEF WritersInv
<1> QED
  BY <1>4, <1>5

-----------------------------------------------------------------------------

\* A step that leaves the writers alone and drops nothing.
LEMMA WritersUndisturbed ==
    ASSUME Orderly, UNCHANGED <<writers, tx_buf, tx_in, written, shift>>, tx_out' \in Slots,
           Gone' + InRing(tx_in', tx_out') = Gone + InRing(tx_in, tx_out),
           InRing(tx_in', tx_out') <= InRing(tx_in, tx_out), Gone' \in Nat
    PROVE  WritersInv'
<1> DEFINE L == InRing(tx_in, tx_out)
           M == InRing(tx_in', tx_out')
           F == Gone'
<1>1. /\ L \in Nat /\ Gone \in Nat /\ BUF_LEN \in Nat /\ written \in Nat /\ shift \in Int
      /\ \A w \in Writers : Len(todo[w]) \in Nat /\ n[w] \in Nat
  BY Sizes DEF Orderly
<1>2. M \in Nat /\ F \in Nat
  BY InRingProperties, Sizes DEF Orderly
<1>3. F + M = Gone + L /\ M <= L
  OBVIOUS
<1>4. ASSUME NEW w \in Writers PROVE WriterInv(w)'
  <2>1. WriterInv(w)
    BY DEF Orderly, WritersInv
  <2>2. /\ step' = step /\ todo' = todo /\ in' = in /\ n' = n
        /\ tx_buf' = tx_buf /\ tx_in' = tx_in /\ written' = written /\ shift' = shift
    BY DEF writers
  <2>3. ASSUME NEW m \in Nat, NEW t \in Nat
        PROVE  F + M + m + t + shift = Gone + L + m + t + shift
    BY <1>1, <1>2, <1>3
  <2>4. ASSUME NEW m \in Nat, m <= BUF_LEN - 1 - L PROVE m <= BUF_LEN - 1 - M
    BY <2>4, <1>1, <1>2, <1>3
  <2>5. F + M + 0 + Len(todo[w]) + shift = Gone + L + 0 + Len(todo[w]) + shift
    BY <2>3, <1>1
  <2>6. F + M + n[w] + Len(todo[w]) + shift = Gone + L + n[w] + Len(todo[w]) + shift
    BY <2>3, <1>1
  <2>7. n[w] <= BUF_LEN - 1 - L => n[w] <= BUF_LEN - 1 - M
    BY <2>4, <1>1
  <2> HIDE DEF L, M, F
  <2>8. step[w] # "idle" =>
            F + M + (IF step[w] = "publish" THEN n[w] ELSE 0) + Len(todo[w]) + shift = written
    BY <2>1, <2>5, <2>6 DEF WriterInv, L
  <2>9. step[w] \in {"copy", "publish"} =>
            in[w] = tx_in /\ n[w] > 0 /\ n[w] <= BUF_LEN - 1 - M /\ in[w] + n[w] <= BUF_LEN
    BY <2>1, <2>7 DEF WriterInv, L
  <2>10. step[w] = "publish" => \A i \in 1 .. n[w] : tx_buf[in[w] + i - 1] = F + M + i + shift
    BY <2>1, <1>3 DEF WriterInv, L
  <2> QED
    BY <2>1, <2>2, <2>8, <2>9, <2>10 DEF WriterInv, M, F
<1>5. step' = step /\ written' = written /\ shift' = shift
  BY DEF writers
<1> QED
  BY <1>4, <1>5 DEF Orderly, WritersInv

-----------------------------------------------------------------------------
(* What holds whether the writers met or not. *)

\* The steps of a writer keep the types, and it never copies more than it has.
LEMMA WriterType ==
    ASSUME ConsoleTypeOK, LocalInv, NEW w \in Writers, Call(w) \/ Step(w)
    PROVE  ConsoleTypeOK' /\ LocalInv'
<1> DEFINE T == Len(todo[w])
<1>1. /\ T \in Nat /\ n[w] \in Nat /\ in[w] \in Slots /\ tx_in \in Slots /\ tx_out \in Slots
      /\ BUF_LEN \in Nat /\ written \in Nat /\ todo[w] \in Seq(Chars)
  BY Sizes DEF ConsoleTypeOK
<1>2. CASE Call(w)
  <2>1. PICK count \in 1 .. MaxCount :
            /\ written + count <= MaxChars
            /\ todo' = [todo EXCEPT ![w] = [i \in 1 .. count |-> written + i]]
            /\ written' = written + count
    BY <1>2 DEF Call
  <2>2. count \in Nat /\ MaxChars \in Nat /\ written' \in Chars
    BY <1>1, <2>1, ConsoleAssumption DEF Chars
  <2>3. \A i \in 1 .. count : written + i \in Chars
    BY <1>1, <2>1, <2>2 DEF Chars
  <2> DEFINE more == [i \in 1 .. count |-> written + i]
  <2>4. more \in Seq(Chars)
    BY <2>2, <2>3
  <2> HIDE DEF more
  <2>5. /\ UNCHANGED <<ring, write_irq, hw, in, out, n, stage, sent, from, shift>>
        /\ step' = [step EXCEPT ![w] = "space"] /\ orderly' \in BOOLEAN
        /\ todo' = [todo EXCEPT ![w] = more]
    BY <1>2, <2>1 DEF Call, more
  <2>6. ConsoleTypeOK'
    BY <2>2, <2>4, <2>5 DEF ring, ConsoleTypeOK
  <2>7. LocalInv'
    BY <2>5 DEF ConsoleTypeOK, LocalInv
  <2> QED
    BY <2>6, <2>7
<1>3. CASE FindSpace(w)
  <2> DEFINE m == Least(Space(tx_in, tx_out), T)
  <2>1. /\ UNCHANGED <<ring, write_irq, hw, todo, stage, written, sent, orderly, from, shift>>
        /\ in' = [in EXCEPT ![w] = tx_in] /\ out' = [out EXCEPT ![w] = tx_out]
        /\ n' = [n EXCEPT ![w] = m]
        /\ step' = [step EXCEPT ![w] = IF m = 0 THEN "kick" ELSE "copy"]
    BY <1>3 DEF FindSpace, order, ConsoleTypeOK
  <2>2. m \in Slots /\ m <= T
    <3>1. /\ Space(tx_in, tx_out) \in 0 .. BUF_LEN - 1 - InRing(tx_in, tx_out)
          /\ InRing(tx_in, tx_out) \in 0 .. BUF_LEN - 1
      BY <1>1, SpaceIsFree, InRingProperties
    <3> QED
      BY <3>1, <1>1 DEF Least, Slots
  <2> HIDE DEF m
  <2>3. ConsoleTypeOK'
    BY <1>1, <2>1, <2>2 DEF ring, ConsoleTypeOK
  <2>4. LocalInv'
    BY <2>1, <2>2 DEF ConsoleTypeOK, LocalInv
  <2> QED
    BY <2>3, <2>4
<1>4. CASE Copy(w)
  <2>1. /\ tx_buf' = [i \in Slots |-> IF i \in in[w] .. in[w] + n[w] - 1
                                        THEN todo[w][i - in[w] + 1] ELSE tx_buf[i]]
        /\ todo' = [todo EXCEPT ![w] = SubSeq(@, n[w] + 1, Len(@))]
        /\ step' = [step EXCEPT ![w] = "publish"] /\ step[w] = "copy"
        /\ UNCHANGED <<tx_in, tx_out, write_irq, hw, in, out, n, stage, written, sent,
                       orderly, from, shift>>
    BY <1>4 DEF Copy, order
  <2>2. n[w] <= T
    BY <2>1 DEF LocalInv
  <2>3. tx_buf' \in [Slots -> Chars]
    <3> SUFFICES ASSUME NEW i \in Slots, i \in in[w] .. in[w] + n[w] - 1
                 PROVE  todo[w][i - in[w] + 1] \in Chars
      BY <2>1 DEF ConsoleTypeOK
    <3>1. i - in[w] + 1 \in 1 .. T
      <4>1. PICK a \in Nat, m \in Nat, t \in Nat, j \in Nat :
                a = in[w] /\ m = n[w] /\ t = T /\ j = i
        BY <1>1 DEF Slots
      <4>2. m <= t /\ j \in a .. a + m - 1
        BY <4>1, <2>2
      <4>3. j - a + 1 \in 1 .. t
        BY <4>2
      <4> QED
        BY <4>1, <4>3
    <3> QED
      BY <3>1, <1>1, ElementOfSeq
  <2>4. SubSeq(todo[w], n[w] + 1, T) \in Seq(Chars)
    BY <1>1, <2>2, SubSeqProperties
  <2>5. todo' \in [Writers -> Seq(Chars)]
    BY <2>1, <2>4 DEF ConsoleTypeOK
  <2>6. ConsoleTypeOK'
    BY <2>1, <2>3, <2>5 DEF ConsoleTypeOK
  <2>7. LocalInv'
    BY <2>1 DEF ConsoleTypeOK, LocalInv
  <2> QED
    BY <2>6, <2>7
<1>5. CASE PublishIn(w)
  <2>1. /\ tx_in' = (in[w] + n[w]) % BUF_LEN
        /\ step' = [step EXCEPT ![w] = IF todo[w] = <<>> THEN "kick" ELSE "space"]
        /\ UNCHANGED <<tx_buf, tx_out, write_irq, hw, in, out, n, todo, stage, written, sent,
                       orderly, from, shift>>
    BY <1>5 DEF PublishIn, order
  <2>2. tx_in' \in Slots
    <3>1. PICK a \in Nat : a = in[w] + n[w]
      BY <1>1 DEF Slots
    <3> QED
      BY <3>1, <2>1, ConsoleAssumption DEF Slots
  <2>3. ConsoleTypeOK'
    BY <2>1, <2>2 DEF ConsoleTypeOK
  <2>4. LocalInv'
    BY <2>1 DEF ConsoleTypeOK, LocalInv
  <2> QED
    BY <2>3, <2>4
<1>6. CASE Kick(w) \/ Wait(w)
  <2>1. /\ UNCHANGED <<ring, hw, in, out, n, todo, stage, written, sent, orderly, from, shift>>
        /\ write_irq' \in {write_irq, TRUE}
        /\ \/ todo[w] = <<>> /\ step' = [step EXCEPT ![w] = "idle"]
           \/ step' = [step EXCEPT ![w] = "wait"]
           \/ step' = [step EXCEPT ![w] = "space"]
    BY <1>6 DEF Kick, Wait, order
  <2>2. ConsoleTypeOK'
    BY <2>1 DEF ring, ConsoleTypeOK
  <2>3. LocalInv'
    BY <2>1 DEF ConsoleTypeOK, LocalInv
  <2> QED
    BY <2>2, <2>3
<1> QED
  BY <1>2, <1>3, <1>4, <1>5, <1>6 DEF Step

\* What the interrupt moves and what the host takes are characters.
LEMMA OthersType ==
    ASSUME ConsoleTypeOK, JtagIrq \/ HostReads
    PROVE  ConsoleTypeOK'
<1>1. /\ Len(hw) \in Nat /\ tx_in \in Slots /\ tx_out \in Slots /\ BUF_LEN \in Nat
      /\ InRing(tx_in, tx_out) \in Nat /\ BUF_LEN > 0
  BY Sizes, ConsoleAssumption
<1>2. CASE JtagIrq
  <2> DEFINE k == Least(HwDepth - Len(hw), Waiting)
             more == [i \in 1 .. k |-> tx_buf[(tx_out + i - 1) % BUF_LEN]]
  <2>1. Waiting \in Nat
    BY <1>1, InRingProperties DEF Waiting
  <2>2. k \in Nat
    BY <1>1, <1>2, <2>1, ConsoleAssumption DEF Least, JtagIrq
  <2>3. /\ hw' = hw \o more /\ tx_out' = (tx_out + k) % BUF_LEN /\ write_irq' \in BOOLEAN
        /\ UNCHANGED <<tx_buf, tx_in, writers, stage, written, sent, orderly, from, shift>>
    BY <1>2 DEF JtagIrq, order
  <2> HIDE DEF k
  <2>4. tx_out' \in Slots /\ \A i \in 1 .. k : (tx_out + i - 1) % BUF_LEN \in Slots
    BY <1>1, <2>2, <2>3 DEF Slots
  <2>5. more \in Seq(Chars)
    BY <2>2, <2>4 DEF ConsoleTypeOK
  <2> HIDE DEF more
  <2>6. hw' \in Seq(Chars)
    BY <2>3, <2>5, ConcatProperties DEF ConsoleTypeOK
  <2> QED
    BY <2>3, <2>4, <2>6 DEF writers, ConsoleTypeOK
<1>3. CASE HostReads
  <2>1. /\ hw # <<>> /\ sent' = Append(sent, Head(hw)) /\ hw' = Tail(hw)
        /\ UNCHANGED <<ring, write_irq, writers, stage, written, orderly, from, shift>>
    BY <1>3 DEF HostReads, order
  <2>2. hw' \in Seq(Chars) /\ sent' \in Seq(Chars)
    BY <2>1, HeadTailProperties, AppendProperties DEF ConsoleTypeOK
  <2> QED
    BY <2>1, <2>2 DEF ring, writers, ConsoleTypeOK
<1> QED
  BY <1>2, <1>3

\* In the loop main prints nothing, so touch_isr starts when all is idle.
LEMMA LoopCall ==
    ASSUME ConsoleTypeOK, StageInv, NEW w \in Writers, Call(w) \/ Step(w)
    PROVE  StageInv'
<1>1. stage' = stage
  BY DEF Call, Step, FindSpace, Copy, PublishIn, Kick, Wait
<1> SUFFICES ASSUME stage = "loop" PROVE orderly' /\ step'["main"] = "idle"
  BY <1>1 DEF StageInv
<1>2. orderly /\ step["main"] = "idle"
  BY DEF StageInv
<1>3. CASE Call(w)
  <2>1. w = "touch_isr" /\ step[w] = "idle"
    BY <1>3 DEF Call, MayPrint, Writers
  <2> QED
    BY <1>2, <1>3, <2>1 DEF Call, Writers, ConsoleTypeOK
<1>4. CASE Step(w)
  <2>1. w # "main" /\ step' = [step EXCEPT ![w] = step'[w]] /\ orderly' = orderly
    BY <1>2, <1>4 DEF Step, FindSpace, Copy, PublishIn, Kick, Wait, order, ConsoleTypeOK
  <2> QED
    BY <1>2, <2>1 DEF ConsoleTypeOK, Writers
<1> QED
  BY <1>3, <1>4

\* Where the loop is entered, both writers are idle: whatever the ring holds
\* then, what is written from there on follows it in order.
LEMMA LoopStep ==
    ASSUME ConsoleInv, EnterLoop
    PROVE  ConsoleInv'
<1> DEFINE L == InRing(tx_in, tx_out)
<1>1. /\ Len(sent) \in Nat /\ Len(hw) \in Nat /\ Gone \in Nat /\ L \in Nat
      /\ written \in Nat /\ tx_in \in Slots /\ tx_out \in Slots
  BY Sizes DEF ConsoleInv
<1>2. Waiting = L
  BY <1>1, InRingProperties DEF Waiting
<1>3. /\ UNCHANGED <<ring, write_irq, hw, writers, written, sent>>
      /\ stage' = "loop" /\ orderly' = TRUE
      /\ from' = IF orderly THEN from ELSE Gone + L
      /\ shift' = IF orderly THEN shift ELSE written - from'
      /\ \A w \in Writers : step[w] = "idle"
  BY <1>2 DEF EnterLoop, Runs, Writers, Gone
<1> HIDE DEF L
<1>4. from' \in Nat /\ shift' \in Int
  BY <1>1, <1>3 DEF ConsoleInv, ConsoleTypeOK
<1>5. /\ UNCHANGED <<tx_buf, tx_in, tx_out, hw, sent, step, in, out, n, todo, written>>
      /\ Gone' = Gone
  BY <1>3 DEF ring, writers, Gone
<1>6. ConsoleTypeOK'
  BY <1>3, <1>4, <1>5 DEF ConsoleInv, ConsoleTypeOK
<1>7. LocalInv' /\ StageInv'
  BY <1>3, <1>5 DEF ConsoleInv, LocalInv, StageInv, Writers
<1>8. CASE orderly
  <2>1. OrderInv /\ WritersInv /\ from' = from /\ shift' = shift
    BY <1>8, <1>3 DEF ConsoleInv
  <2>2. OrderInv'
    BY <2>1, <1>5 DEF OrderInv
  <2>3. WritersInv'
    BY <2>1, <1>5 DEF WritersInv, WriterInv
  <2> QED
    BY <2>2, <2>3, <1>6, <1>7 DEF ConsoleInv
<1>9. CASE ~orderly
  <2>1. from' = Gone + L /\ shift' = written - (Gone + L)
    BY <1>9, <1>3
  <2>2. OrderInv'
    <3>1. \A i \in 1 .. Len(sent) : Due(from', shift', i, sent[i])
      BY <2>1, <1>1 DEF Due, Gone
    <3>2. \A i \in 1 .. Len(hw) : Due(from', shift', Len(sent) + i, hw[i])
      BY <2>1, <1>1 DEF Due, Gone
    <3>3. \A j \in 1 .. L : Due(from', shift', Gone + j, tx_buf[WaitingSlot(tx_out, j)])
      BY <2>1, <1>1 DEF Due
    <3>4. from' <= Gone + L
      BY <2>1, <1>1
    <3> QED
      BY <3>1, <3>2, <3>3, <3>4, <1>5 DEF OrderInv, L
  <2>3. WritersInv'
    <3>1. Gone + L + shift' = written
      BY <2>1, <1>1
    <3>2. \A w \in Writers : WriterInv(w)'
      <4> SUFFICES ASSUME NEW w \in Writers PROVE WriterInv(w)'
        OBVIOUS
      <4>1. step'[w] = "idle" /\ todo'[w] = <<>> /\ Len(todo'[w]) = 0
        BY <1>3, <1>5 DEF ConsoleInv, LocalInv
      <4> QED
        BY <4>1 DEF WriterInv
    <3> QED
      BY <3>1, <3>2, <1>3, <1>5 DEF WritersInv, L, Writers
  <2> QED
    BY <2>2, <2>3, <1>6, <1>7 DEF ConsoleInv
<1> QED
  BY <1>8, <1>9

-----------------------------------------------------------------------------

\* The inductive invariant of the console.
THEOREM ConsoleInvariant == ConsoleSpec => []ConsoleInv
<1>1. ConsoleInit => ConsoleInv
  <2> SUFFICES ASSUME ConsoleInit PROVE ConsoleInv
    OBVIOUS
  <2>1. 0 \in Slots /\ 0 \in Chars /\ InRing(0, 0) = 0
    BY ConsoleAssumption DEF Slots, Chars, InRing
  <2>2. <<>> \in Seq(Chars) /\ Len(<<>>) = 0
    BY EmptySeq
  <2>3. ConsoleTypeOK
    BY <2>1, <2>2 DEF ConsoleInit, ConsoleTypeOK
  <2>4. OrderInv
    BY <2>1, <2>2 DEF ConsoleInit, OrderInv, Gone
  <2>5. \A w \in Writers : WriterInv(w)
    BY <2>2 DEF ConsoleInit, WriterInv
  <2>6. Gone = 0 /\ written = 0 /\ InRing(tx_in, tx_out) = 0 /\ shift = 0
    BY <2>1, <2>2 DEF ConsoleInit, Gone
  <2>7. \E w \in Writers : step[w] = "idle"
    BY DEF ConsoleInit, Writers
  <2>8. LocalInv /\ StageInv
    BY DEF ConsoleInit, LocalInv, StageInv
  <2> QED
    BY <2>3, <2>4, <2>5, <2>6, <2>7, <2>8 DEF ConsoleInv, WritersInv
<1>2. ConsoleInv /\ [ConsoleNext]_console_vars => ConsoleInv'
  <2> SUFFICES ASSUME ConsoleInv, [ConsoleNext]_console_vars PROVE ConsoleInv'
    OBVIOUS
  <2>1. ASSUME NEW w \in Writers, Call(w) \/ Step(w) PROVE ConsoleInv'
    <3>1. ConsoleTypeOK' /\ LocalInv'
      BY <2>1, WriterType DEF ConsoleInv
    <3>2. StageInv'
      BY <2>1, LoopCall DEF ConsoleInv
    <3>3. orderly' => orderly
      BY <2>1 DEF Call, Step, FindSpace, Copy, PublishIn, Kick, Wait, order
    <3>4. orderly' => OrderInv' /\ WritersInv'
      BY <2>1, <3>3, WriterStep DEF ConsoleInv, Orderly
    <3> QED
      BY <3>1, <3>2, <3>4 DEF ConsoleInv
  <2>2. CASE JtagIrq
    <3>1. /\ UNCHANGED <<tx_buf, tx_in, writers, written, sent, shift>>
          /\ UNCHANGED <<step, n, todo, stage, orderly>>
      BY <2>2 DEF JtagIrq, writers, order
    <3>2. ConsoleTypeOK'
      BY <2>2, OthersType DEF ConsoleInv
    <3>3. LocalInv' /\ StageInv'
      BY <3>1 DEF ConsoleInv, LocalInv, StageInv
    <3>4. ASSUME orderly PROVE OrderInv' /\ WritersInv'
      <4>1. /\ OrderInv' /\ tx_out' \in Slots
            /\ Gone' + InRing(tx_in', tx_out') = Gone + InRing(tx_in, tx_out)
            /\ InRing(tx_in', tx_out') <= InRing(tx_in, tx_out)
        BY <2>2, <3>4, IrqStep DEF ConsoleInv
      <4>2. Gone' \in Nat
        BY <3>2, LenProperties DEF Gone, ConsoleTypeOK
      <4>3. Orderly
        BY <3>4 DEF ConsoleInv, Orderly
      <4>4. WritersInv'
        BY <3>1, <4>1, <4>2, <4>3, WritersUndisturbed
      <4> QED
        BY <4>1, <4>4
    <3> QED
      BY <3>1, <3>2, <3>3, <3>4 DEF ConsoleInv
  <2>3. CASE HostReads
    <3>1. /\ UNCHANGED <<tx_buf, tx_in, tx_out, write_irq, written, shift>>
          /\ UNCHANGED <<step, in, n, todo, stage, orderly>>
      BY <2>3 DEF HostReads, ring, writers, order
    <3>2. ConsoleTypeOK'
      BY <2>3, OthersType DEF ConsoleInv
    <3>3. LocalInv' /\ StageInv'
      BY <3>1 DEF ConsoleInv, LocalInv, StageInv
    <3>4. ASSUME orderly PROVE OrderInv' /\ WritersInv'
      <4>1. OrderInv' /\ Gone' = Gone
        BY <2>3, <3>4, HostStep DEF ConsoleInv
      <4>2. WritersInv'
        BY <3>1, <3>4, <4>1 DEF ConsoleInv, WritersInv, WriterInv
      <4> QED
        BY <4>1, <4>2
    <3> QED
      BY <3>1, <3>2, <3>3, <3>4 DEF ConsoleInv
  <2>4. CASE EnterLoop
    BY <2>4, LoopStep
  <2>5. CASE EnableTouch
    <3>1. /\ UNCHANGED <<tx_buf, tx_in, tx_out, write_irq, hw, written, sent>>
          /\ UNCHANGED <<step, in, out, n, todo, orderly, from, shift>>
          /\ stage' = "start-up"
      BY <2>5 DEF EnableTouch, ring, writers, order
    <3>2. ConsoleTypeOK' /\ LocalInv' /\ StageInv'
      BY <3>1 DEF ConsoleInv, ConsoleTypeOK, LocalInv, StageInv
    <3>3. orderly => OrderInv' /\ WritersInv'
      BY <3>1 DEF ConsoleInv, OrderInv, WritersInv, WriterInv, Gone
    <3> QED
      BY <3>1, <3>2, <3>3 DEF ConsoleInv
  <2>6. CASE UNCHANGED console_vars
    BY <2>6 DEF console_vars, ring, writers, order, ConsoleInv, ConsoleTypeOK, OrderInv,
                WritersInv, WriterInv, LocalInv, StageInv, Gone
  <2> QED
    BY <2>1, <2>2, <2>3, <2>4, <2>5, <2>6 DEF ConsoleNext, AllDone
<1> QED
  BY <1>1, <1>2, PTL DEF ConsoleSpec

\* For every size of the ring, of the UART's FIFO and of the calls: the host gets
\* what was written, in order and once each, until touch_isr prints inside a
\* write of main; this ends with the start-up, and from the loop on what is
\* written comes in order again, whatever happened before.
THEOREM HostGetsWhatWasWritten == ConsoleSpec => []SentInOrder
<1>1. ConsoleInv => SentInOrder
  <2> SUFFICES ASSUME ConsoleInv PROVE SentInOrder
    OBVIOUS
  <2>1. stage = "loop" => orderly
    BY DEF ConsoleInv, StageInv
  <2>2. ASSUME orderly, NEW i \in 1 .. Len(sent), i > from PROVE sent[i] = i + shift
    BY <2>2 DEF ConsoleInv, OrderInv, Due
  <2> QED
    BY <2>1, <2>2 DEF SentInOrder
<1> QED
  BY <1>1, ConsoleInvariant, PTL
=============================================================================
