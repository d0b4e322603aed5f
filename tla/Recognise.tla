----------------------------- MODULE Recognise -----------------------------
(***************************************************************************)
(* What the user sees of a recognition, hello_world.c: touches painted     *)
(* into the thumbnail, CLEAR, and RECOGNISE, which copies the thumbnail    *)
(* into the network's input, takes a timestamp, runs the network, takes    *)
(* another, and shows label, probability and time on eight digits.         *)
(*                                                                         *)
(* The network is external: any label and any probability, after any time. *)
(* The timer and its driver are module Timestamp's; a step of main takes   *)
(* no time, and time passes between its steps.  The order in which touches *)
(* reach the main loop is module TouchBuffers' matter.                     *)
(***************************************************************************)
EXTENDS Integers, FiniteSets, Timestamp, TouchGeometry

CONSTANTS
    Freq,        \* timer clocks per second: 10 000 000
    TouchValues, \* coordinates the digitiser reports
    MaxTouches,  \* bound: different touches between two CLEARs
    Labels,      \* the network's answers
    Percents     \* probabilities of the network's answer, in hundredths

ASSUME RecogniseAssumption ==
    /\ Freq \in Nat \ {0} /\ TouchValues \subseteq Raw
    /\ MaxTouches \in Nat /\ Labels \subseteq 0 .. 9 /\ Percents \subseteq 0 .. 100

VARIABLES
    step,             \* the next step of main
    thumbnail,        \* the white cells of the thumbnail
    frame,            \* normalized_frame: the inputs that are 1.0f
    start, end,       \* the two timestamps
    segs,             \* index into SEG_PATTERN shown on each digit
    \* history
    struck,           \* the touches drawn as strokes since the last CLEAR
    touched,          \* the touches drawn as squares since the last CLEAR
    started           \* ticks at the first timestamp

main == <<step, thumbnail, frame, start, end, segs, struck, touched, started>>
Digits == 0 .. 7
Blank == 16           \* the last entry of SEG_PATTERN

MainInit ==
    /\ step = "loop" /\ thumbnail = {} /\ frame = {}
    /\ start = 0 /\ end = 0 /\ segs = [d \in Digits |-> Blank]
    /\ struck = {} /\ touched = {} /\ started = 0

Booted == pc = "idle"
AtMost(touches) == Cardinality(touches) <= MaxTouches

-----------------------------------------------------------------------------
(* The loop. *)

\* A point from the FIFO is drawn where it was touched.
PaintStroke ==
    /\ step = "loop" /\ Booted
    /\ \E touch_x, touch_y \in TouchValues :
           /\ thumbnail' = thumbnail \cup Stroke(ScreenPoint(touch_x, touch_y))
           /\ struck' = struck \cup {<<touch_x, touch_y>>}
    /\ AtMost(struck' \cup touched)
    /\ UNCHANGED <<step, frame, start, end, segs, touched, started>>

\* A point from the stack is drawn into the thumbnail.
PaintSquare ==
    /\ step = "loop" /\ Booted
    /\ \E touch_x, touch_y \in TouchValues :
           /\ thumbnail' = thumbnail \cup Square(ScreenPoint(touch_x, touch_y))
           /\ touched' = touched \cup {<<touch_x, touch_y>>}
    /\ AtMost(struck \cup touched')
    /\ UNCHANGED <<step, frame, start, end, segs, struck, started>>

Clear ==
    /\ step = "loop" /\ Booted
    /\ thumbnail' = {} /\ struck' = {} /\ touched' = {}
    /\ segs' = [d \in Digits |-> Blank]
    /\ UNCHANGED <<step, frame, start, end, started>>

\* Mistake (mutation runs only): the rows are not reversed.
SnapshotUpright ==
    /\ step = "loop" /\ Booted
    /\ frame' = {cell[1] * Side + cell[2] : cell \in thumbnail}
    /\ step' = "start"
    /\ UNCHANGED <<thumbnail, start, end, segs, struck, touched, started>>

Snapshot ==
    /\ step = "loop" /\ Booted
    /\ frame' = {InputIndex(cell) : cell \in thumbnail}
    /\ step' = "start"
    /\ UNCHANGED <<thumbnail, start, end, segs, struck, touched, started>>

\* alt_timestamp returns.
TakeStart ==
    /\ step = "start_read" /\ pc = "idle"
    /\ start' = stamp /\ started' = latched
    /\ step' = "infer"
    /\ UNCHANGED <<thumbnail, frame, end, segs, struck, touched>>

\* The probability is shown by its two decimals: 1.0 as 00.
Infer ==
    /\ step = "infer"
    /\ \E probability \in Percents :
           segs' = [segs EXCEPT ![5] = (probability % 100) \div 10,
                                ![4] = (probability % 100) % 10]
    /\ step' = "end"
    /\ UNCHANGED <<thumbnail, frame, start, end, struck, touched, started>>

TakeEnd ==
    /\ step = "end_read" /\ pc = "idle"
    /\ end' = stamp
    /\ step' = "show"
    /\ UNCHANGED <<thumbnail, frame, start, segs, struck, touched, started>>

-----------------------------------------------------------------------------
(* display_time_to_segments. *)

\* Both timestamps are unsigned.
Difference == (end - start) % (Full + 1)

int_part == Difference \div Freq

\* (int)((time_taken - int_part) * 100) in doubles: a whole number of hundredths
\* may be rounded down.
frac_part ==
    LET rest == Difference % Freq
        exact == (rest * 100) \div Freq
    IN  {exact} \cup IF rest > 0 /\ (rest * 100) % Freq = 0 THEN {exact - 1} ELSE {}

Show ==
    /\ step = "show"
    /\ \E label \in Labels, frac \in frac_part :
           segs' = [segs EXCEPT ![6] = label, ![3] = int_part, ![2] = frac \div 100,
                                ![1] = (frac \div 10) % 10, ![0] = frac % 10]
    /\ step' = "loop"
    /\ UNCHANGED <<thumbnail, frame, start, end, struck, touched, started>>

-----------------------------------------------------------------------------

Main == PaintStroke \/ PaintSquare \/ Clear \/ Snapshot \/ TakeStart \/ Infer \/ TakeEnd \/ Show

CallTimestamp ==
    /\ step \in {"start", "end"} /\ Latch
    /\ step' = IF step = "start" THEN "start_read" ELSE "end_read"
    /\ UNCHANGED <<thumbnail, frame, start, end, segs, struck, touched, started>>

Boot == StopTimer \/ WritePeriodL \/ WritePeriodH \/ StartTimer

RecogniseInit == Init /\ MainInit

RecogniseNext ==
    \/ Main /\ UNCHANGED vars
    \/ CallTimestamp
    \/ (Boot \/ ReadLower \/ ReadUpper \/ NoAccess) /\ UNCHANGED main

RecogniseSpec == RecogniseInit /\ [][RecogniseNext]_<<vars, main>>

-----------------------------------------------------------------------------
(* Properties. *)

\* Clocks the timer has run for from the first timestamp to the second.
Elapsed == latched - started

\* The time that is shown is that of the inference: whenever the counter is
\* latched, what main gets from two reads of two halves and one unsigned
\* subtraction is the number of clocks the timer ran for in between.  When the
\* timer has run out, after 2^32 clocks, it has run for less than the inference
\* took (alt_timestamp gives 0 then, where its comment says -1).
TimeMeasured == step = "show" => Difference = Elapsed % (Full + 1)

\* The network sees every touch where it was made: at the time of the snapshot
\* the input that belongs to the touch's own place on the digitiser is white.
\* The quarter turn of touch_isr and that of RECOGNISE cancel, and the two
\* truncations between them move a point by less than the square around it.
TouchReachesInput ==
    step = "start" => \A t \in touched : IdealInput(t[1], t[2]) \in frame

\* Every white input is from a touch close by: no ink of other touches, other
\* drawings or of the strokes, except for strokes in the thumbnail's corner.
InputIsTouched ==
    step = "start" =>
        \A i \in frame :
            \/ \E t \in touched : Near(i, t[1], t[2], 2)
            \/ \E t \in struck : InCorner(ScreenPoint(t[1], t[2]))
=============================================================================
