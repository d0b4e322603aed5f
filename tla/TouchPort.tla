----------------------------- MODULE TouchPort -----------------------------
(***************************************************************************)
(* From the touch digitiser to touch_isr: the coordinate registers of      *)
(* adc_spi_controller.v on the 50 MHz clock, the edge-capture port         *)
(* NiosSoc_touchirq.v on the 150 MHz clock, and the processor, which       *)
(* enables the interrupt (DoEnablePIOint), dispatches it (alt_irq_entry.S, *)
(* alt_irq_handler.c) and in touch_isr clears the capture bit, reads one   *)
(* coordinate and then the other.  The interrupt of the JTAG UART, which   *)
(* goes first, comes at any time and is cleared by its handler.            *)
(*                                                                         *)
(* One step is one 150 MHz clock.  The interrupt is one step for the main  *)
(* loop but not for the hardware: new coordinates may be published between *)
(* any two of its accesses.  A coordinate is the number of its sample.     *)
(***************************************************************************)
EXTENDS Naturals

CONSTANTS
    Ratio,        \* clocks of the port per clock of the controller: 3
    AccessGap,    \* clocks between two accesses of the processor, at least
    FetchGap,     \* clocks from an access to the fetch that an interrupt replaces
    MaxSamples,   \* bound: samples published in one behaviour
    MaxUarts      \* bound: interrupts of the UART in one behaviour

ASSUME ClockAssumption ==
    /\ Ratio \in Nat \ {0} /\ AccessGap \in Nat \ {0} /\ FetchGap \in 1 .. AccessGap
    /\ MaxSamples \in Nat /\ MaxUarts \in Nat

\* A line cleared by an access is seen low at the next fetch, and new coordinates
\* are in place by the access after the one that may have cleared their edge.
ASSUME TimingAssumption == FetchGap > 1 /\ AccessGap + 1 >= Ratio

VARIABLES
    phase,               \* clocks of the port since the controller's last clock
    sample,              \* number of the sample converted last
    oNEW_COORD,          \* the new-coordinate pulse
    oX_COORD, oY_COORD,  \* the coordinate registers
    d1, d2,              \* the two input registers of the port
    edge_capture, irq_mask,
    uart, uarts,         \* the interrupt line of the UART, how often it rose
    ipending,            \* W_ipending_reg: the lines that were high last clock
    pc,                  \* the next access of the processor
    ret,                 \* where the interrupt returns to
    gap,                 \* clocks until the processor can make its next access
    x, y,                \* the coordinates read by the interrupt
    pushed,              \* the pair of the last finished interrupt
    armed                \* history: sample when DoEnablePIOint had finished

controller == <<phase, sample, oNEW_COORD, oX_COORD, oY_COORD>>
port == <<d1, d2, edge_capture, irq_mask>>
lines == <<uart, uarts, ipending>>
cpu == <<pc, ret, gap, x, y, pushed, armed>>
vars == <<controller, port, lines, cpu>>

Init ==
    /\ phase = 0 /\ sample = 0 /\ oNEW_COORD = FALSE /\ oX_COORD = 0 /\ oY_COORD = 0
    /\ d1 = FALSE /\ d2 = FALSE /\ edge_capture = FALSE /\ irq_mask = FALSE
    /\ uart = FALSE /\ uarts = 0 /\ ipending = {}
    /\ pc = "enable" /\ ret = "main" /\ gap = 0 /\ x = 0 /\ y = 0 /\ pushed = <<0, 0>>
    /\ armed = MaxSamples

-----------------------------------------------------------------------------
(* The controller: a finished conversion raises oNEW_COORD for one of its  *)
(* clocks; the coordinates are copied at the end of that clock.            *)

ControllerHolds ==
    /\ phase < Ratio - 1
    /\ phase' = phase + 1
    /\ UNCHANGED <<sample, oNEW_COORD, oX_COORD, oY_COORD>>

ControllerIdle ==
    /\ phase = Ratio - 1 /\ ~oNEW_COORD
    /\ phase' = 0
    /\ UNCHANGED <<sample, oNEW_COORD, oX_COORD, oY_COORD>>

ConversionDone ==
    /\ phase = Ratio - 1 /\ ~oNEW_COORD
    /\ sample < MaxSamples
    /\ phase' = 0
    /\ sample' = sample + 1
    /\ oNEW_COORD' = TRUE
    /\ UNCHANGED <<oX_COORD, oY_COORD>>

CopyCoordinates ==
    /\ phase = Ratio - 1 /\ oNEW_COORD
    /\ phase' = 0
    /\ oNEW_COORD' = FALSE
    /\ oX_COORD' = sample /\ oY_COORD' = sample
    /\ UNCHANGED sample

Controller == ControllerHolds \/ ControllerIdle \/ ConversionDone \/ CopyCoordinates

-----------------------------------------------------------------------------
(* The port. *)

edge_detect == d1 /\ ~d2

irq == edge_capture /\ irq_mask

Synchronise == d1' = oNEW_COORD /\ d2' = d1

\* A clock in which the processor does not write the port.
ClockPort ==
    /\ Synchronise
    /\ edge_capture' = (edge_capture \/ edge_detect)

\* A clock in which register 3 is written: an edge detected now is lost.
WriteEdgeCapture ==
    /\ Synchronise
    /\ edge_capture' = FALSE

-----------------------------------------------------------------------------
(* The interrupt lines.  Those of other devices are not used.              *)

UartRises ==
    \/ UNCHANGED <<uart, uarts>>
    \/ /\ ~uart /\ uarts < MaxUarts
       /\ uart' = TRUE /\ uarts' = uarts + 1

SampleLines == ipending' = (IF uart THEN {"uart"} ELSE {}) \cup
                           (IF irq THEN {"touch"} ELSE {})

Lines == UartRises /\ SampleLines

-----------------------------------------------------------------------------
(* The processor. *)

Access(from, to) ==
    /\ pc = from /\ gap = 0
    /\ pc' = to /\ gap' = AccessGap - 1

\* Mistake (mutation runs only): the mask is not written.
EnableNothing ==
    /\ Lines /\ Access("enable", "clear")
    /\ ClockPort
    /\ UNCHANGED <<irq_mask, ret, x, y, pushed, armed>>

\* DoEnablePIOint: enable the interrupt, then clear what was captured so far.
EnableMask ==
    /\ Lines /\ Access("enable", "clear")
    /\ irq_mask' = TRUE
    /\ ClockPort
    /\ UNCHANGED <<ret, x, y, pushed, armed>>

ClearOld ==
    /\ Lines /\ Access("clear", "main")
    /\ WriteEdgeCapture
    /\ armed' = sample
    /\ UNCHANGED <<irq_mask, ret, x, y, pushed>>

\* Mistake (mutation runs only): the next fetch comes a clock earlier.
fetched_early == gap < AccessGap

\* The next instruction may be fetched, or replaced by the interrupt.
fetched == gap <= AccessGap - FetchGap

\* Interrupts are enabled at the processor before DoEnablePIOint writes the
\* mask, so the first one may come between its two writes.
TakeInterrupt ==
    /\ ipending # {} /\ fetched
    /\ pc \in {"enable", "clear", "main"} /\ ret' = pc
    /\ pc' = "irq_entry" /\ gap' = AccessGap - 1
    /\ Lines /\ ClockPort
    /\ UNCHANGED <<irq_mask, x, y, pushed, armed>>

\* The handler of the highest-priority line.
Handler == IF "uart" \in ipending THEN "isr_uart" ELSE "isr_clear"

\* The three places where the pending lines are read.  With nothing pending
\* alt_irq_entry takes it for an unknown exception (break), the first look of
\* alt_irq_handler for a set bit that it goes on looking for (spin), and the
\* later ones return.
Look(from, idle) ==
    /\ Access(from, IF ipending = {} THEN idle
                    ELSE IF from = "irq_entry" THEN "irq_first" ELSE Handler)
    /\ Lines /\ ClockPort
    /\ UNCHANGED <<irq_mask, ret, x, y, pushed, armed>>

Dispatch ==
    \/ Look("irq_entry", "break")
    \/ Look("irq_first", "spin")
    \/ Look("irq_again", ret)

\* The UART's handler ends with a dummy read, by which its line is low.
IsrUart ==
    /\ Access("isr_uart", "irq_again")
    /\ uart' = FALSE /\ UNCHANGED uarts /\ SampleLines /\ ClockPort
    /\ UNCHANGED <<irq_mask, ret, x, y, pushed, armed>>

IsrClear ==
    /\ Lines /\ Access("isr_clear", "isr_x")
    /\ WriteEdgeCapture
    /\ UNCHANGED <<irq_mask, ret, x, y, pushed, armed>>

\* x comes from the port of the other axis: the panel is turned by 90 degrees.
IsrReadX ==
    /\ Lines /\ Access("isr_x", "isr_y")
    /\ x' = oY_COORD
    /\ ClockPort
    /\ UNCHANGED <<irq_mask, ret, y, pushed, armed>>

IsrReadY ==
    /\ Lines /\ Access("isr_y", "isr_push")
    /\ y' = oX_COORD
    /\ ClockPort
    /\ UNCHANGED <<irq_mask, ret, x, pushed, armed>>

\* Mistake (mutation runs only): the capture bit is cleared on the way out.
IsrPushClears ==
    /\ Lines /\ Access("isr_push", "irq_again")
    /\ pushed' = <<x, y>>
    /\ WriteEdgeCapture
    /\ UNCHANGED <<irq_mask, ret, x, y, armed>>

IsrPush ==
    /\ Lines /\ Access("isr_push", "irq_again")
    /\ pushed' = <<x, y>>
    /\ ClockPort
    /\ UNCHANGED <<irq_mask, ret, x, y, armed>>

\* The processor is between two accesses.
NoAccess ==
    /\ Lines
    /\ gap' = IF gap > 0 THEN gap - 1 ELSE 0
    /\ ClockPort
    /\ UNCHANGED <<irq_mask, pc, ret, x, y, pushed, armed>>

Isr == IsrUart \/ IsrClear \/ IsrReadX \/ IsrReadY \/ IsrPush

Works == EnableMask \/ ClearOld \/ TakeInterrupt \/ Dispatch \/ Isr

Processor == NoAccess \/ Works

Next == Controller /\ Processor

Spec == Init /\ [][Next]_vars

\* The clocks run and the processor makes its next access.
FairSpec ==
    /\ Spec
    /\ WF_vars(Next)
    /\ WF_vars(Controller /\ Works)

-----------------------------------------------------------------------------
(* Properties. *)

TypeOK ==
    /\ phase \in 0 .. Ratio - 1 /\ sample \in 0 .. MaxSamples /\ oNEW_COORD \in BOOLEAN
    /\ oX_COORD \in 0 .. MaxSamples /\ oY_COORD \in 0 .. MaxSamples
    /\ d1 \in BOOLEAN /\ d2 \in BOOLEAN
    /\ edge_capture \in BOOLEAN /\ irq_mask \in BOOLEAN
    /\ uart \in BOOLEAN /\ uarts \in 0 .. MaxUarts /\ ipending \subseteq {"uart", "touch"}
    /\ pc \in {"enable", "clear", "main", "irq_entry", "irq_first", "irq_again",
              "isr_uart", "isr_clear", "isr_x", "isr_y", "isr_push", "break", "spin"}
    /\ ret \in {"enable", "clear", "main"} /\ gap \in 0 .. AccessGap - 1
    /\ x \in 0 .. MaxSamples /\ y \in 0 .. MaxSamples
    /\ pushed \in (0 .. MaxSamples) \X (0 .. MaxSamples)
    /\ armed \in 0 .. MaxSamples

Enabled == pc \notin {"enable", "clear"} /\ ret = "main" /\ sample > armed

\* Nothing of a new sample is on its way to the processor.
Quiet == pc = "main" /\ ~oNEW_COORD /\ ~edge_detect /\ ~edge_capture

\* An interrupt may read the two coordinates of two different samples, and
\* samples may share an interrupt; but when all is quiet the point pushed last
\* is the newest sample, both its coordinates.  It holds because the interrupt
\* clears the capture bit before it reads, and because the new coordinates,
\* which come after the edge that the clearing may destroy, are in place before
\* the processor's next access.
NewestSampleWins == Quiet /\ sample > armed => pushed = <<sample, sample>>

\* When a torn pair has been pushed, the sample that tore it has already set the
\* capture bit again: the next interrupt, which replaces it, is due.  So it is
\* until that interrupt has pushed its own point.
TornPairIsFollowed ==
    pushed[1] # pushed[2] /\ pushed[2] > armed /\ pc \notin {"isr_x", "isr_y", "isr_push"}
        => irq

\* Whenever the pending lines are read for an interrupt that was taken, one of
\* them is still high: the clearing of the old capture in DoEnablePIOint, or of
\* the capture in touch_isr, is over before the next instruction is fetched.
NoSpuriousInterrupt == pc \notin {"break", "spin"}

\* Every sample is followed by an interrupt that pushes it, or a newer one.
SampleDelivered ==
    \A n \in 1 .. MaxSamples :
        (Enabled /\ sample = n) ~> (pushed[1] >= n /\ pushed[2] >= n)
=============================================================================
