------------------------------- MODULE AdcSpi -------------------------------
(***************************************************************************)
(* The touch digitiser's controller, adc_spi_controller.v.  One step is    *)
(* one 50 MHz clock, or a clock in reset (KEY0).  A pen-down edge starts   *)
(* the transmission; the frame counter spi_ctrl_cnt, stepped by the slow   *)
(* dclk, sends the command for x, shifts 12 bits in, does the same for y,  *)
(* and publishes the pair; the transmission goes on until a pair ends with *)
(* the pen up.                                                             *)
(*                                                                         *)
(* A coordinate register is represented by how many bits of the conversion *)
(* asked for last it holds.                                                *)
(***************************************************************************)
EXTENDS Naturals

CONSTANTS
    ADC_DCLK_CNT,  \* clocks per dclk, less one (2083 in the design)
    MaxResets      \* bound: resets in one behaviour

ASSUME DividerAssumption == ADC_DCLK_CNT \in Nat /\ ADC_DCLK_CNT > 1 /\ MaxResets \in Nat

FrameEnd == 65        \* last value of spi_ctrl_cnt
ConversionEnd == 49   \* value at which a conversion ends
CoordBits == 12

VARIABLES
    PENIRQ_n,                   \* the digitiser's pen-interrupt pin
    d1_PENIRQ_n, d2_PENIRQ_n,   \* the pin one and two clocks ago
    transmit_en, dclk_cnt, dclk, spi_ctrl_cnt,
    mcs, mdclk, y_coordinate_config,
    asked,                      \* the channel of the command sent last
    mx, my,                     \* bits of that conversion shifted in
    eof_transmition, rDval,
    \* history, read by no action
    resets,
    pen_seen_up,                \* the pen was up at a clock since the reset
    rounds                      \* pairs finished since the reset, up to 2

pen == <<PENIRQ_n, d1_PENIRQ_n, d2_PENIRQ_n, transmit_en>>
divider == <<dclk_cnt, dclk, spi_ctrl_cnt>>
serial == <<mcs, mdclk, y_coordinate_config, asked, mx, my>>
outputs == <<eof_transmition, rDval>>
history == <<resets, pen_seen_up, rounds>>
adc_vars == <<pen, divider, serial, outputs, history>>

AdcInit ==
    /\ PENIRQ_n \in BOOLEAN /\ d1_PENIRQ_n = FALSE /\ d2_PENIRQ_n = FALSE
    /\ transmit_en = FALSE /\ dclk_cnt = 0 /\ dclk = FALSE /\ spi_ctrl_cnt = 0
    /\ mcs = TRUE /\ mdclk = FALSE /\ y_coordinate_config = FALSE
    /\ asked = "none" /\ mx = 0 /\ my = 0
    /\ eof_transmition = FALSE /\ rDval = FALSE
    /\ resets = 0 /\ pen_seen_up = FALSE /\ rounds = 0

-----------------------------------------------------------------------------
(* The always blocks, one operator each. *)

touch_irq == d2_PENIRQ_n /\ ~d1_PENIRQ_n

PenDetect ==
    /\ PENIRQ_n' \in BOOLEAN
    /\ d1_PENIRQ_n' = PENIRQ_n
    /\ d2_PENIRQ_n' = d1_PENIRQ_n

\* Stop at the end of a pair if the pen is up; start on the pen's edge.
Transmit ==
    transmit_en' = IF eof_transmition /\ PENIRQ_n THEN FALSE
                                                  ELSE touch_irq \/ transmit_en

\* dclk has no reset and keeps its value while nothing is transmitted.
Divide ==
    \/ /\ transmit_en /\ dclk_cnt = ADC_DCLK_CNT
       /\ dclk_cnt' = 0 /\ dclk' = TRUE
    \/ /\ transmit_en /\ dclk_cnt # ADC_DCLK_CNT
       /\ dclk_cnt' = dclk_cnt + 1 /\ dclk' = FALSE
    \/ /\ ~transmit_en
       /\ dclk_cnt' = 0 /\ UNCHANGED dclk

\* Mistake (mutation runs only): the frame never wraps.
CountFrameStops ==
    spi_ctrl_cnt' = IF dclk /\ spi_ctrl_cnt < FrameEnd THEN spi_ctrl_cnt + 1
                                                       ELSE spi_ctrl_cnt

\* The frame counter looks at dclk alone.
CountFrame ==
    spi_ctrl_cnt' = IF ~dclk THEN spi_ctrl_cnt
                    ELSE IF spi_ctrl_cnt = FrameEnd THEN 0 ELSE spi_ctrl_cnt + 1

\* Mistake (mutation runs only): the strobe is one bit short.
strobe_short == spi_ctrl_cnt \in 19 .. 39

rd_coord_strob == spi_ctrl_cnt \in 19 .. 41

Channel == IF y_coordinate_config THEN "y" ELSE "x"

\* One more bit in a coordinate register: of the conversion asked for, or not.
Shift(bits) == IF asked # Channel THEN 0
               ELSE IF bits > CoordBits THEN bits ELSE bits + 1

\* With mdclk high, as a reset may leave it here, the shift of mdata_in wins over
\* the load and no command is sent.
SendCommand ==
    /\ spi_ctrl_cnt = 0
    /\ mcs' = FALSE
    /\ asked' = IF mdclk THEN "none" ELSE Channel
    /\ mx' = IF Channel = "x" THEN 0 ELSE mx
    /\ my' = IF Channel = "y" THEN 0 ELSE my
    /\ UNCHANGED <<mdclk, y_coordinate_config>>

\* The chip stays selected between x and y, not between two pairs.
EndConversion ==
    /\ spi_ctrl_cnt = ConversionEnd
    /\ mdclk' = FALSE
    /\ y_coordinate_config' = ~y_coordinate_config
    /\ mcs' = y_coordinate_config
    /\ UNCHANGED <<asked, mx, my>>

ToggleClock ==
    /\ spi_ctrl_cnt \notin {0, ConversionEnd}
    /\ mdclk' = ~mdclk
    /\ UNCHANGED <<mcs, y_coordinate_config, asked>>
    /\ LET strobe == ~mdclk /\ rd_coord_strob IN
       /\ mx' = IF strobe /\ Channel = "x" THEN Shift(mx) ELSE mx
       /\ my' = IF strobe /\ Channel = "y" THEN Shift(my) ELSE my

Transfer ==
    \/ transmit_en /\ dclk /\ (SendCommand \/ EndConversion \/ ToggleClock)
    \/ ~(transmit_en /\ dclk) /\ UNCHANGED serial

\* The pair is published if its y is not zero.
Publish ==
    /\ eof_transmition' = (y_coordinate_config /\ spi_ctrl_cnt = ConversionEnd /\ dclk)
    /\ \E nonzero \in BOOLEAN : rDval' = (eof_transmition /\ nonzero)

-----------------------------------------------------------------------------

Clock ==
    /\ PenDetect /\ Transmit /\ Divide /\ CountFrame /\ Transfer /\ Publish
    /\ pen_seen_up' = (pen_seen_up \/ PENIRQ_n)
    /\ rounds' = IF eof_transmition' /\ rounds < 2 THEN rounds + 1 ELSE rounds
    /\ UNCHANGED resets

\* KEY0: every register but dclk.
Reset ==
    /\ resets < MaxResets
    /\ resets' = resets + 1
    /\ PENIRQ_n' \in BOOLEAN /\ d1_PENIRQ_n' = FALSE /\ d2_PENIRQ_n' = FALSE
    /\ transmit_en' = FALSE /\ dclk_cnt' = 0 /\ spi_ctrl_cnt' = 0
    /\ mcs' = TRUE /\ mdclk' = FALSE /\ y_coordinate_config' = FALSE
    /\ mx' = 0 /\ my' = 0
    /\ eof_transmition' = FALSE /\ rDval' = FALSE
    /\ pen_seen_up' = FALSE /\ rounds' = 0
    /\ UNCHANGED <<dclk, asked>>

AdcNext == Clock \/ Reset

AdcSpec == AdcInit /\ [][AdcNext]_adc_vars
AdcFairSpec == AdcSpec /\ WF_adc_vars(Clock)

-----------------------------------------------------------------------------
(* Properties. *)

AdcTypeOK ==
    /\ {PENIRQ_n, d1_PENIRQ_n, d2_PENIRQ_n, transmit_en, dclk, mcs, mdclk,
        y_coordinate_config, eof_transmition, rDval, pen_seen_up} \subseteq BOOLEAN
    /\ dclk_cnt \in 0 .. ADC_DCLK_CNT /\ spi_ctrl_cnt \in 0 .. FrameEnd
    /\ asked \in {"none", "x", "y"}
    /\ mx \in 0 .. CoordBits + 1 /\ my \in 0 .. CoordBits + 1
    /\ resets \in 0 .. MaxResets /\ rounds \in 0 .. 2

\* A published pair is whole: each register holds the twelve bits, neither
\* more nor fewer, of a conversion of its own channel, both of this round.
\* Stated for a controller that is not reset in mid-transmission.
PairIsWhole == rDval /\ resets = 0 => mx = CoordBits /\ my = CoordBits

\* A reset may leave dclk high and the frame counter running free; whatever
\* counter value the next transmission then starts from, at most the first
\* pair it publishes is spoilt.
WholeAfterOneRound == rDval /\ rounds = 2 => mx = CoordBits /\ my = CoordBits

\* While the pen stays down pairs keep being converted.
SamplingContinues == []<>(eof_transmition \/ PENIRQ_n \/ ~pen_seen_up)
=============================================================================
