-------------------------- MODULE RecogniseProofs --------------------------
(***************************************************************************)
(* Proofs about Recognise: the way of a touch into the network's input,    *)
(* for every coordinate the digitiser can report and any number of         *)
(* touches, and the time main measures, for every period of the interval   *)
(* timer.                                                                  *)
(*                                                                         *)
(* The arithmetic is in the lemmas on one coordinate (RowNear, ColumnNear) *)
(* and on the input's index (IndexParts).  The invariant ThumbnailInv says *)
(* of the thumbnail what the two properties say of the input copied from   *)
(* it, since touches are painted one by one and copied all at once.  The   *)
(* invariant TimeInv follows the time from the running counter through     *)
(* the two halves of its snapshot into the two timestamps.                 *)
(***************************************************************************)
EXTENDS Recognise, TLAPS

-----------------------------------------------------------------------------
(* The two truncations of a coordinate. *)

\* From the digitiser over the screen to the thumbnail a touch loses at most
\* one row against its own place.
LEMMA RowNear ==
    ASSUME NEW t \in Raw
    PROVE  LET row == (((t * 800) \div 4096) * 7) \div 200
           IN  /\ IdealRow(t) \in 0 .. 27
               /\ row \in 0 .. 27
               /\ row \in {IdealRow(t) - 1, IdealRow(t)}
  BY DEF Raw, IdealRow, Side

\* The same for the other coordinate, which touch_isr and RECOGNISE reverse;
\* at 0 it is scaled to one line below the panel and of the thumbnail.
LEMMA ColumnNear ==
    ASSUME NEW t \in Raw
    PROVE  LET line == ((((4096 - t) * 480) \div 4096) * 7) \div 120
           IN  /\ IdealColumn(t) \in 0 .. 27
               /\ line \in 0 .. 28
               /\ 27 - line \in {IdealColumn(t) - 1, IdealColumn(t), IdealColumn(t) + 1}
  BY DEF Raw, IdealColumn, Side

\* The index of an input gives back the cell.
LEMMA IndexParts ==
    ASSUME NEW x \in 0 .. 27, NEW y \in 0 .. 27
    PROVE  /\ InputIndex(<<x, y>>) \in 0 .. 783
           /\ InputIndex(<<x, y>>) \div Side = x
           /\ InputIndex(<<x, y>>) % Side = 27 - y
  BY DEF InputIndex, Side

-----------------------------------------------------------------------------
(* One touch. *)

\* The cell of a touch's own place.
IdealCell(t) == <<IdealRow(t[2]), 27 - IdealColumn(t[1])>>

Close(c, t) == Near(InputIndex(c), t[1], t[2], 2)

LEMMA SquareCoversIdeal ==
    ASSUME NEW t \in Raw \X Raw
    PROVE  /\ IdealCell(t) \in Square(ScreenPoint(t[1], t[2]))
           /\ InputIndex(IdealCell(t)) = IdealInput(t[1], t[2])
<1> DEFINE p == ScreenPoint(t[1], t[2])
<1>1. t[1] \in Raw /\ t[2] \in Raw
  OBVIOUS
<1>2. /\ IdealRow(t[2]) \in 0 .. 27
      /\ mapped_x(p) \in {IdealRow(t[2]) - 1, IdealRow(t[2])}
  BY <1>1, RowNear DEF mapped_x, ScreenPoint
<1>3. /\ IdealColumn(t[1]) \in 0 .. 27
      /\ mapped_y(p) \in 0 .. 28
      /\ 27 - mapped_y(p) \in {IdealColumn(t[1]) - 1, IdealColumn(t[1]), IdealColumn(t[1]) + 1}
  BY <1>1, ColumnNear DEF mapped_y, ScreenPoint
<1>4. mapped_x(p) \in Int /\ mapped_y(p) \in Int
  BY <1>2, <1>3
<1>5. IdealCell(t) \in Square(p)
  <2> HIDE DEF p
  <2>1. IdealCell(t)[1] = IdealRow(t[2]) /\ IdealCell(t)[2] = 27 - IdealColumn(t[1])
    BY DEF IdealCell
  <2>2. IdealCell(t) \in Cells
    BY <1>2, <1>3 DEF IdealCell, Cells, Side
  <2>3. IdealCell(t)[1] \in mapped_x(p) - 1 .. mapped_x(p) + 1
    BY <1>2, <1>4, <2>1
  <2>4. IdealCell(t)[2] \in mapped_y(p) - 1 .. mapped_y(p) + 1
    BY <1>3, <1>4, <2>1
  <2> QED
    BY <2>2, <2>3, <2>4 DEF Square
<1>6. InputIndex(IdealCell(t)) = IdealInput(t[1], t[2])
  BY <1>2, <1>3 DEF InputIndex, IdealCell, IdealInput, Side
<1> QED
  BY <1>5, <1>6

LEMMA SquareIsClose ==
    ASSUME NEW t \in Raw \X Raw, NEW c \in Square(ScreenPoint(t[1], t[2]))
    PROVE  Close(c, t)
<1> DEFINE p == ScreenPoint(t[1], t[2])
<1>1. t[1] \in Raw /\ t[2] \in Raw
  OBVIOUS
<1>2. /\ IdealRow(t[2]) \in 0 .. 27
      /\ mapped_x(p) \in {IdealRow(t[2]) - 1, IdealRow(t[2])}
  BY <1>1, RowNear DEF mapped_x, ScreenPoint
<1>3. /\ IdealColumn(t[1]) \in 0 .. 27
      /\ mapped_y(p) \in 0 .. 28
      /\ 27 - mapped_y(p) \in {IdealColumn(t[1]) - 1, IdealColumn(t[1]), IdealColumn(t[1]) + 1}
  BY <1>1, ColumnNear DEF mapped_y, ScreenPoint
<1>4. PICK x \in 0 .. 27, y \in 0 .. 27 : c = <<x, y>>
  BY DEF Square, Cells, Side
<1>5. x \in mapped_x(p) - 1 .. mapped_x(p) + 1 /\ y \in mapped_y(p) - 1 .. mapped_y(p) + 1
  BY <1>4 DEF Square
<1>6. Distance(x, IdealRow(t[2])) <= 2
  <2> HIDE DEF p
  <2> QED
    BY <1>2, <1>5 DEF Distance
<1>7. Distance(27 - y, IdealColumn(t[1])) <= 2
  <2> HIDE DEF p
  <2> QED
    BY <1>3, <1>5 DEF Distance
<1>8. InputIndex(c) \div Side = x /\ InputIndex(c) % Side = 27 - y
  <2>1. /\ InputIndex(<<x, y>>) \in 0 .. 783
        /\ InputIndex(<<x, y>>) \div Side = x
        /\ InputIndex(<<x, y>>) % Side = 27 - y
    BY IndexParts
  <2> QED
    BY <1>4, <2>1, Zenon
<1> QED
  BY <1>6, <1>7, <1>8, Zenon DEF Close, Near

LEMMA PointIsWhole ==
    ASSUME NEW a \in Raw, NEW b \in Raw
    PROVE  ScreenPoint(a, b).x \in Int /\ ScreenPoint(a, b).y \in Int
<1>1. (b * 800) \div 4096 \in Int /\ ((4096 - a) * 480) \div 4096 \in Int
  BY DEF Raw
<1> QED
  BY <1>1 DEF ScreenPoint

LEMMA StrokeInCorner ==
    ASSUME NEW t \in Raw \X Raw, NEW c \in Stroke(ScreenPoint(t[1], t[2]))
    PROVE  InCorner(ScreenPoint(t[1], t[2]))
<1> DEFINE p == ScreenPoint(t[1], t[2])
<1>1. t[1] \in Raw /\ t[2] \in Raw
  OBVIOUS
<1>2. p.x \in Int /\ p.y \in Int
  BY <1>1, PointIsWhole
<1>3. PICK x \in 0 .. 27, y \in 0 .. 27 : c = <<x, y>>
  BY DEF Stroke, Cells, Side
<1>4. InStroke(x, p.x) /\ InStroke(y, p.y)
  BY <1>3 DEF Stroke
<1>5. InCorner(p)
  <2> HIDE DEF p
  <2> QED
    BY <1>2, <1>4 DEF InStroke, InCorner, TP, Side
<1> QED
  BY <1>5

-----------------------------------------------------------------------------
(* The invariant. *)

ThumbnailInv ==
    /\ touched \subseteq Raw \X Raw
    /\ \A t \in touched : IdealCell(t) \in thumbnail
    /\ \A c \in thumbnail : \/ \E t \in touched : Close(c, t)
                            \/ \E t \in struck : InCorner(ScreenPoint(t[1], t[2]))
    /\ step = "start" => frame = {InputIndex(c) : c \in thumbnail}

LEMMA ThumbnailInit == MainInit => ThumbnailInv
  BY DEF MainInit, ThumbnailInv

LEMMA PaintStrokeStep == ThumbnailInv /\ PaintStroke => ThumbnailInv'
<1> SUFFICES ASSUME ThumbnailInv, PaintStroke PROVE ThumbnailInv'
  OBVIOUS
<1>1. PICK touch_x \in TouchValues, touch_y \in TouchValues :
        /\ thumbnail' = thumbnail \cup Stroke(ScreenPoint(touch_x, touch_y))
        /\ struck' = struck \cup {<<touch_x, touch_y>>}
  BY DEF PaintStroke
<1> DEFINE t == <<touch_x, touch_y>>
           p == ScreenPoint(touch_x, touch_y)
<1>2. t \in Raw \X Raw /\ t[1] = touch_x /\ t[2] = touch_y
  BY RecogniseAssumption
<1>3. /\ thumbnail' = thumbnail \cup Stroke(ScreenPoint(t[1], t[2]))
      /\ struck' = struck \cup {t}
  BY <1>1
<1>4. \A c \in Stroke(ScreenPoint(t[1], t[2])) : InCorner(ScreenPoint(t[1], t[2]))
  BY <1>2, StrokeInCorner
<1> HIDE DEF t, p
<1>5. step' = "loop" /\ touched' = touched
  BY DEF PaintStroke
<1>6. touched' \subseteq Raw \X Raw /\ \A u \in touched' : IdealCell(u) \in thumbnail'
  BY <1>3, <1>5 DEF ThumbnailInv
<1>7. \A c \in thumbnail' : \/ \E u \in touched' : Close(c, u)
                            \/ \E u \in struck' : InCorner(ScreenPoint(u[1], u[2]))
  BY <1>3, <1>4, <1>5 DEF ThumbnailInv
<1> QED
  BY <1>5, <1>6, <1>7 DEF ThumbnailInv

LEMMA PaintSquareStep == ThumbnailInv /\ PaintSquare => ThumbnailInv'
<1> SUFFICES ASSUME ThumbnailInv, PaintSquare PROVE ThumbnailInv'
  OBVIOUS
<1>1. PICK touch_x \in TouchValues, touch_y \in TouchValues :
        /\ thumbnail' = thumbnail \cup Square(ScreenPoint(touch_x, touch_y))
        /\ touched' = touched \cup {<<touch_x, touch_y>>}
  BY DEF PaintSquare
<1> DEFINE t == <<touch_x, touch_y>>
           p == ScreenPoint(touch_x, touch_y)
<1>2. t \in Raw \X Raw /\ t[1] = touch_x /\ t[2] = touch_y
  BY RecogniseAssumption
<1>3. thumbnail' = thumbnail \cup Square(p) /\ touched' = touched \cup {t}
  BY <1>1
<1>4. IdealCell(t) \in Square(p)
  BY <1>2, SquareCoversIdeal
<1>5. \A c \in Square(p) : Close(c, t)
  BY <1>2, SquareIsClose
<1> HIDE DEF t, p
<1>6. step' = "loop" /\ struck' = struck
  BY DEF PaintSquare
<1>7. touched' \subseteq Raw \X Raw
  BY <1>2, <1>3 DEF ThumbnailInv
<1>8. \A u \in touched' : IdealCell(u) \in thumbnail'
  BY <1>3, <1>4 DEF ThumbnailInv
<1>9. \A c \in thumbnail' : \/ \E u \in touched' : Close(c, u)
                            \/ \E u \in struck' : InCorner(ScreenPoint(u[1], u[2]))
  BY <1>3, <1>5, <1>6 DEF ThumbnailInv
<1> QED
  BY <1>6, <1>7, <1>8, <1>9 DEF ThumbnailInv

LEMMA ClearStep == ThumbnailInv /\ Clear => ThumbnailInv'
  BY DEF ThumbnailInv, Clear

LEMMA SnapshotStep == ThumbnailInv /\ Snapshot => ThumbnailInv'
  BY DEF ThumbnailInv, Snapshot

\* Every other step of main, and a call of alt_timestamp, leaves the thumbnail
\* and its touches alone and does not lead back to "start".
LEMMA OtherSteps ==
    ThumbnailInv /\ (TakeStart \/ Infer \/ TakeEnd \/ Show \/ CallTimestamp)
        => ThumbnailInv'
<1> SUFFICES ASSUME ThumbnailInv, TakeStart \/ Infer \/ TakeEnd \/ Show \/ CallTimestamp
             PROVE  ThumbnailInv'
  OBVIOUS
<1>1. UNCHANGED <<thumbnail, struck, touched>>
  BY DEF TakeStart, Infer, TakeEnd, Show, CallTimestamp
<1>2. step' # "start"
  BY DEF TakeStart, Infer, TakeEnd, Show, CallTimestamp
<1> QED
  BY <1>1, <1>2 DEF ThumbnailInv

LEMMA ThumbnailStep == ThumbnailInv /\ [RecogniseNext]_<<vars, main>> => ThumbnailInv'
<1> SUFFICES ASSUME ThumbnailInv, [RecogniseNext]_<<vars, main>> PROVE ThumbnailInv'
  OBVIOUS
<1>1. CASE Main
  BY <1>1, PaintStrokeStep, PaintSquareStep, ClearStep, SnapshotStep, OtherSteps DEF Main
<1>2. CASE CallTimestamp
  BY <1>2, OtherSteps
<1>3. CASE UNCHANGED main
  BY <1>3 DEF main, ThumbnailInv
<1> QED
  BY <1>1, <1>2, <1>3 DEF RecogniseNext

LEMMA ThumbnailHolds == RecogniseSpec => []ThumbnailInv
  BY ThumbnailInit, ThumbnailStep, PTL DEF RecogniseSpec, RecogniseInit

-----------------------------------------------------------------------------
(* Theorems. *)

\* Whatever is touched and however often, the input of every touch's own place
\* on the digitiser is white when the network is given the input.
THEOREM EveryTouchReachesInput == RecogniseSpec => []TouchReachesInput
<1>1. ThumbnailInv => TouchReachesInput
  <2> SUFFICES ASSUME ThumbnailInv, step = "start", NEW t \in touched
               PROVE  IdealInput(t[1], t[2]) \in frame
    BY DEF TouchReachesInput
  <2>1. t \in Raw \X Raw /\ IdealCell(t) \in thumbnail
    BY DEF ThumbnailInv
  <2>2. InputIndex(IdealCell(t)) \in frame
    BY <2>1 DEF ThumbnailInv
  <2> QED
    BY <2>1, <2>2, SquareCoversIdeal
<1> QED
  BY <1>1, ThumbnailHolds, PTL

\* Every white input is within two rows and columns of a touch, unless a touch
\* was in the thumbnail's corner.
THEOREM EveryInputIsTouched == RecogniseSpec => []InputIsTouched
<1>1. ThumbnailInv => InputIsTouched
  <2> SUFFICES ASSUME ThumbnailInv, step = "start", NEW i \in frame
               PROVE  \/ \E t \in touched : Near(i, t[1], t[2], 2)
                      \/ \E t \in struck : InCorner(ScreenPoint(t[1], t[2]))
    BY DEF InputIsTouched
  <2>1. PICK c \in thumbnail : i = InputIndex(c)
    BY DEF ThumbnailInv
  <2>2. CASE \E t \in touched : Close(c, t)
    BY <2>1, <2>2 DEF Close
  <2>3. CASE \E t \in struck : InCorner(ScreenPoint(t[1], t[2]))
    BY <2>3
  <2> QED
    BY <2>2, <2>3 DEF ThumbnailInv
<1> QED
  BY <1>1, ThumbnailHolds, PTL

-----------------------------------------------------------------------------
(* The time between the timestamps.                                        *)

\* The counter runs down from Full, once, and rests at Full.
Stopwatch ==
    /\ internal_counter \in Nat /\ ticks \in Nat
    /\ period_l_register \in Nat /\ period_h_register \in Nat
    /\ counter_is_running \in BOOLEAN /\ force_reload \in BOOLEAN
    /\ pc \in {"stop", "period_l", "period_h", "start", "idle", "snap_l", "snap_h"}
    /\ pc \in {"stop", "period_l", "period_h", "start"} =>
           ~counter_is_running /\ ticks = 0 /\ latched = 0 /\ stamp = 0
    /\ pc \notin {"stop", "period_l"} => period_l_register = Half - 1
    /\ pc \notin {"stop", "period_l", "period_h"} => period_h_register = Half - 1
    /\ pc = "start" => force_reload \/ internal_counter = Full
    /\ pc \in {"idle", "snap_l", "snap_h"} =>
           /\ ~force_reload
           /\ counter_is_running => ticks <= Full /\ internal_counter = Full - ticks
           /\ ~counter_is_running => ticks = Full + 1 /\ internal_counter = Full

\* The timestamp of a time.
Stamp(t) == IF t <= Full THEN t ELSE 0

\* What is read of it in two halves is the time at which it was latched.
Stamps ==
    /\ latched \in 0 .. Full + 1 /\ counter_snapshot \in Nat /\ stamp \in Int
    /\ latched <= ticks
    /\ pc \in {"snap_l", "snap_h"} => counter_snapshot = Full - Stamp(latched)
    /\ pc = "snap_h" => lower = counter_snapshot % Half
    /\ pc = "idle" => stamp = Stamp(latched)

\* What main has kept of it.
Times ==
    /\ start \in Int /\ end \in Int /\ started \in Nat
    /\ step \in {"loop", "start", "start_read", "infer", "end", "end_read", "show"}
    /\ step \in {"start", "infer", "end", "show"} => pc = "idle"
    /\ step \in {"start_read", "end_read"} => pc \in {"snap_l", "snap_h", "idle"}
    /\ step \in {"infer", "end", "end_read", "show"} =>
           started <= latched /\ start = Stamp(started)
    /\ step = "show" => end = Stamp(latched)

TimeInv == Stopwatch /\ Stamps /\ Times

\* A number in two parts.
LEMMA Parts ==
    ASSUME NEW n \in Nat, NEW d \in Nat \ {0}
    PROVE  /\ ((n \div d) * d) + (n % d) = n
           /\ n \div d \in Nat /\ n % d \in 0 .. d - 1
OBVIOUS

\* An unsigned difference that has wrapped.
LEMMA Wrapped ==
    ASSUME NEW d \in Nat \ {0}, NEW n \in 1 .. d - 1
    PROVE  (0 - n) % d = d - n /\ (d - n) % d = d - n
OBVIOUS

LEMMA FullIs ==
    /\ Full \in Nat /\ Half \in Nat \ {0} /\ Freq \in Nat \ {0}
    /\ (Half - 1) * Half + (Half - 1) = Full
<1>1. Half \in Nat /\ Half > 1
  BY HalfAssumption
<1>2. Half * Half \in Nat /\ Half * Half >= 1
  BY <1>1
<1>3. (Half - 1) * Half = Half * Half - Half
  BY <1>1
<1> QED
  BY <1>1, <1>2, <1>3, RecogniseAssumption DEF Full

-----------------------------------------------------------------------------

LEMMA StopwatchStep ==
    ASSUME Stopwatch, NoAccess \/ Driver
    PROVE  Stopwatch' /\ ticks <= ticks'
<1>1. Half \in Nat \ {0} /\ Full \in Nat
  BY FullIs
<1>2. counter_load_value \in Nat
  BY <1>1 DEF Stopwatch, counter_load_value
<1>3. pc \in {"start", "idle", "snap_l", "snap_h"} => counter_load_value = Full
  BY FullIs DEF Stopwatch, counter_load_value
\* The counter, whether it runs, and the time.
<1>4. /\ Count /\ Tick
      /\ StartTimer => Running(TRUE, FALSE)
      /\ StopTimer => Running(FALSE, TRUE)
      /\ ~StartTimer /\ ~StopTimer => Running(FALSE, FALSE)
  BY DEF NoAccess, Driver, StopTimer, WritePeriodL, WritePeriodH, StartTimer, Latch, ReadLower,
         ReadUpper, Clock
<1>5. /\ internal_counter' \in Nat
      /\ force_reload \/ (counter_is_running /\ internal_counter = 0)
             => internal_counter' = counter_load_value
      /\ ~counter_is_running /\ ~force_reload => internal_counter' = internal_counter
      /\ counter_is_running /\ ~force_reload /\ internal_counter # 0
             => internal_counter' = internal_counter - 1
  <2>1. internal_counter # 0 => internal_counter - 1 \in Nat
    BY DEF Stopwatch
  <2>2. internal_counter' = internal_counter \/ internal_counter' = counter_load_value
        \/ (internal_counter # 0 /\ internal_counter' = internal_counter - 1)
    BY <1>4 DEF Count, counter_is_zero
  <2>3. internal_counter' \in Nat
    BY <1>2, <2>1, <2>2 DEF Stopwatch
  <2> QED
    BY <1>4, <2>3 DEF Count, counter_is_zero
<1>6. /\ counter_is_running' \in BOOLEAN
      /\ StartTimer => counter_is_running'
      /\ ~StartTimer /\ counter_is_running' => counter_is_running /\ internal_counter # 0
      /\ ~StartTimer /\ ~StopTimer /\ ~force_reload /\ internal_counter # 0 =>
             counter_is_running' = counter_is_running
  BY <1>4 DEF Stopwatch, Running, counter_is_zero
<1>7. /\ ticks' \in Nat
      /\ ~counter_is_running => ticks' = ticks
      /\ counter_is_running /\ ticks <= Full => ticks' = ticks + 1
      /\ ticks <= ticks'
  <2>1. PICK t \in Nat : t = ticks
    BY DEF Stopwatch
  <2>2. ticks' = t \/ ticks' = t + 1
    BY <1>4, <2>1 DEF Tick
  <2>3. ticks' \in Nat /\ t <= ticks'
    BY <2>1, <2>2
  <2> QED
    BY <1>4, <2>1, <2>3 DEF Tick
<1> SUFFICES Stopwatch'
  BY <1>7
<1>8. CASE StopTimer
  BY <1>1, <1>5, <1>6, <1>7, <1>8 DEF StopTimer, StartTimer, NoPeriod, Stopwatch
<1>9. CASE WritePeriodL
  BY <1>1, <1>5, <1>6, <1>7, <1>9 DEF WritePeriodL, StartTimer, Stopwatch
<1>10. CASE WritePeriodH
  BY <1>1, <1>5, <1>6, <1>7, <1>10 DEF WritePeriodH, StartTimer, Stopwatch
<1>11. CASE StartTimer
  <2>1. pc = "start" /\ pc' = "idle" /\ ~force_reload' /\ force_reload' \in BOOLEAN
        /\ UNCHANGED <<period_l_register, period_h_register, stamp, latched>>
    BY <1>11 DEF StartTimer, NoPeriod
  <2>2. ticks' = 0 /\ ticks' <= Full /\ internal_counter' = Full /\ Full - 0 = Full
    BY <1>1, <1>3, <1>5, <1>7, <2>1 DEF Stopwatch
  <2> QED
    BY <1>5, <1>6, <1>7, <1>11, <2>1, <2>2 DEF Stopwatch
<1>12. CASE NoAccess /\ pc \in {"stop", "period_l", "period_h", "start"}
  <2>1. pc' = pc /\ force_reload' = FALSE /\ ~StartTimer
        /\ UNCHANGED <<period_l_register, period_h_register, stamp, latched>>
    BY <1>12 DEF NoAccess, driver, NoPeriod, StartTimer
  <2>2. pc = "start" => internal_counter' = Full
    BY <1>3, <1>5, <2>1 DEF Stopwatch
  <2> QED
    BY <1>5, <1>6, <1>7, <1>12, <2>1, <2>2 DEF Stopwatch
<1>13. CASE /\ NoAccess \/ Latch \/ ReadLower \/ ReadUpper
            /\ pc \in {"idle", "snap_l", "snap_h"}
  <2>1. /\ pc' \in {"idle", "snap_l", "snap_h"} /\ ~force_reload' /\ ~StartTimer /\ ~StopTimer
        /\ force_reload' \in BOOLEAN
        /\ UNCHANGED <<period_l_register, period_h_register>>
    BY <1>13 DEF NoAccess, driver, Latch, ReadLower, ReadUpper, StartTimer, StopTimer, NoPeriod
  <2>2. /\ counter_is_running => /\ ticks \in Nat /\ ticks <= Full
                                 /\ internal_counter = Full - ticks
                                 /\ ticks' = ticks + 1
        /\ ~counter_is_running => /\ ticks' = Full + 1 /\ ~counter_is_running'
                                  /\ internal_counter' = Full
        /\ counter_is_running \in BOOLEAN
        /\ ~force_reload
    BY <1>5, <1>6, <1>7, <1>13, <2>1 DEF Stopwatch
  <2>3. /\ counter_is_running' => ticks' <= Full /\ internal_counter' = Full - ticks'
        /\ ~counter_is_running' => ticks' = Full + 1 /\ internal_counter' = Full
    <3>1. CASE counter_is_running /\ internal_counter = 0
      <4>1. ~counter_is_running'
        BY <1>6, <2>1, <3>1
      <4>2. ticks' = Full + 1
        BY <1>1, <2>2, <3>1
      <4>3. internal_counter' = Full
        BY <1>3, <1>5, <1>13, <3>1
      <4> QED
        BY <4>1, <4>2, <4>3
    <3>2. CASE counter_is_running /\ internal_counter # 0
      <4>1. counter_is_running'
        BY <1>6, <2>1, <2>2, <3>2
      <4>2. PICK t \in Nat : t = ticks
        BY <2>2, <3>2
      <4>3. internal_counter' = Full - t - 1 /\ ticks' = t + 1 /\ t # Full /\ t <= Full
        BY <1>1, <1>5, <2>2, <3>2, <4>2
      <4>4. ticks' <= Full /\ internal_counter' = Full - ticks'
        BY <1>1, <4>3
      <4> QED
        BY <4>1, <4>4
    <3>3. CASE ~counter_is_running
      BY <2>2, <3>3
    <3> QED
      BY <2>2, <3>1, <3>2, <3>3
  <2> QED
    BY <1>5, <1>6, <1>7, <1>13, <2>1, <2>3 DEF Stopwatch
<1> QED
  BY <1>8, <1>9, <1>10, <1>11, <1>12, <1>13 DEF Driver, Latch, ReadLower, ReadUpper, Stopwatch

\* The two halves are those of the counter as it was latched.
LEMMA StampsStep ==
    ASSUME Stopwatch, Stamps, NoAccess \/ Driver
    PROVE  Stamps'
<1>1. Half \in Nat \ {0} /\ Full \in Nat
  BY FullIs
<1>2. ticks' \in Nat /\ ticks <= ticks' /\ ticks \in Nat
  BY StopwatchStep DEF Stopwatch
<1>3. CASE NoAccess \/ StopTimer \/ WritePeriodL \/ WritePeriodH \/ StartTimer
  <2>1. UNCHANGED <<latched, counter_snapshot, stamp, lower>>
    BY <1>3 DEF NoAccess, driver, StopTimer, WritePeriodL, WritePeriodH, StartTimer
  <2>2. pc' = pc \/ pc' \in {"period_l", "period_h", "start"} \/ (pc' = "idle" /\ pc = "start")
    BY <1>3 DEF NoAccess, driver, StopTimer, WritePeriodL, WritePeriodH, StartTimer
  <2>3. pc' = "idle" /\ pc = "start" => stamp = Stamp(latched)
    BY <1>1 DEF Stopwatch, Stamp
  <2> QED
    BY <1>1, <1>2, <2>1, <2>2, <2>3 DEF Stamps
<1>4. CASE Latch
  <2>1. /\ counter_snapshot' = internal_counter /\ latched' = ticks /\ pc' = "snap_l"
        /\ stamp' = stamp
    BY <1>4 DEF Latch
  <2>2. internal_counter \in Nat /\ internal_counter = Full - Stamp(ticks)
        /\ ticks \in 0 .. Full + 1
    BY <1>1, <1>4 DEF Latch, Stopwatch, Stamp
  <2>3. Stamp(ticks) = Stamp(latched')
    BY <2>1
  <2> QED
    BY <1>1, <1>2, <2>1, <2>2, <2>3 DEF Stamps
<1>5. CASE ReadLower
  <2>1. /\ UNCHANGED <<latched, counter_snapshot, stamp>> /\ pc' = "snap_h" /\ pc = "snap_l"
        /\ lower' = counter_snapshot % Half
    BY <1>5 DEF ReadLower
  <2> QED
    BY <1>1, <1>2, <2>1 DEF Stamps
<1>6. CASE ReadUpper
  <2>1. /\ UNCHANGED <<latched, counter_snapshot>> /\ pc' = "idle" /\ pc = "snap_h"
        /\ stamp' = Full - ((counter_snapshot \div Half) * Half + lower)
    BY <1>6 DEF ReadUpper
  <2>2. counter_snapshot \in Nat /\ lower = counter_snapshot % Half
    BY <2>1 DEF Stamps
  <2>3. stamp' = Full - counter_snapshot /\ counter_snapshot = Full - Stamp(latched)
    <3>1. (counter_snapshot \div Half) * Half + lower = counter_snapshot
      BY <1>1, <2>2, Parts
    <3> QED
      BY <2>1, <3>1 DEF Stamps
  <2>4. Stamp(latched) \in Int /\ Stamp(latched') = Stamp(latched)
    BY <1>1, <2>1 DEF Stamp, Stamps
  <2>5. stamp' = Stamp(latched)
    BY <1>1, <2>2, <2>3, <2>4
  <2> QED
    BY <1>1, <1>2, <2>1, <2>2, <2>4, <2>5 DEF Stamps
<1> QED
  BY <1>3, <1>4, <1>5, <1>6 DEF Driver

-----------------------------------------------------------------------------

\* What main keeps of the two timestamps.
LEMMA TimesStep ==
    ASSUME Stopwatch, Stamps, Times, RecogniseNext
    PROVE  Times'
<1> USE DEF Times
<1>1. CASE Main /\ UNCHANGED vars
  <2>1. UNCHANGED <<pc, latched, stamp, ticks>>
    BY <1>1 DEF vars, driver
  <2>2. CASE PaintStroke \/ PaintSquare \/ Clear \/ Snapshot
    <3>1. /\ step' \in {"loop", "start"} /\ (step' = "start" => pc = "idle")
          /\ UNCHANGED <<start, end, started>>
      BY <2>2 DEF PaintStroke, PaintSquare, Clear, Snapshot, Booted
    <3> QED
      BY <2>1, <3>1
  <2>3. CASE TakeStart
    <3>1. /\ pc = "idle" /\ start' = stamp /\ started' = latched /\ step' = "infer"
          /\ UNCHANGED end
      BY <2>3 DEF TakeStart
    <3>2. stamp \in Int /\ latched \in Nat /\ stamp = Stamp(latched)
      BY <3>1 DEF Stamps
    <3> QED
      BY <2>1, <3>1, <3>2
  <2>4. CASE Infer
    <3>1. /\ step = "infer" /\ step' = "end" /\ UNCHANGED <<start, end, started>>
      BY <2>4 DEF Infer
    <3> QED
      BY <2>1, <3>1
  <2>5. CASE TakeEnd
    <3>1. /\ pc = "idle" /\ step = "end_read" /\ end' = stamp /\ step' = "show"
          /\ UNCHANGED <<start, started>>
      BY <2>5 DEF TakeEnd
    <3>2. stamp \in Int /\ stamp = Stamp(latched)
      BY <3>1 DEF Stamps
    <3> QED
      BY <2>1, <3>1, <3>2
  <2>6. CASE Show
    <3>1. step' = "loop" /\ UNCHANGED <<start, end, started>>
      BY <2>6 DEF Show
    <3> QED
      BY <2>1, <3>1
  <2> QED
    BY <1>1, <2>2, <2>3, <2>4, <2>5, <2>6 DEF Main
<1>2. CASE CallTimestamp
  <2>1. /\ step \in {"start", "end"}
        /\ step' = IF step = "start" THEN "start_read" ELSE "end_read"
        /\ pc' = "snap_l" /\ latched' = ticks
        /\ UNCHANGED <<start, end, started>>
    BY <1>2 DEF CallTimestamp, Latch
  <2>2. step = "end" => started <= latched'
    BY <2>1 DEF Stamps, Stopwatch
  <2> QED
    BY <2>1, <2>2
<1>3. CASE (Boot \/ ReadLower \/ ReadUpper \/ NoAccess) /\ UNCHANGED main
  <2>1. UNCHANGED <<step, start, end, started, latched>>
    BY <1>3 DEF main, Boot, StopTimer, WritePeriodL, WritePeriodH, StartTimer, ReadLower,
                ReadUpper, NoAccess
  <2>2. \/ pc' = pc
        \/ pc \in {"stop", "period_l", "period_h", "start"}
        \/ pc = "snap_l" /\ pc' = "snap_h"
        \/ pc = "snap_h" /\ pc' = "idle"
    BY <1>3 DEF driver, Boot, StopTimer, WritePeriodL, WritePeriodH, StartTimer, ReadLower,
                ReadUpper, NoAccess
  <2> QED
    BY <2>1, <2>2
<1> QED
  BY <1>1, <1>2, <1>3 DEF RecogniseNext

LEMMA TimeStart == RecogniseInit => TimeInv
<1> SUFFICES ASSUME RecogniseInit PROVE TimeInv
  OBVIOUS
<1>1. Stopwatch
  <2>1. 9 % Half \in Nat
    BY FullIs, Parts
  <2> QED
    BY <2>1 DEF RecogniseInit, Init, Stopwatch
<1>2. Stamps
  BY FullIs DEF RecogniseInit, Init, Stamps
<1>3. Times
  BY DEF RecogniseInit, Init, MainInit, Times
<1> QED
  BY <1>1, <1>2, <1>3 DEF TimeInv

\* The inductive invariant of the stopwatch and of what main keeps of it.
THEOREM TimeInvariant == RecogniseSpec => []TimeInv
<1>1. TimeInv /\ [RecogniseNext]_<<vars, main>> => TimeInv'
  <2> SUFFICES ASSUME TimeInv, [RecogniseNext]_<<vars, main>> PROVE TimeInv'
    OBVIOUS
  <2>1. ASSUME NoAccess \/ Driver PROVE Stopwatch' /\ Stamps'
    BY <2>1, StopwatchStep, StampsStep DEF TimeInv
  <2>2. ASSUME UNCHANGED vars PROVE Stopwatch' /\ Stamps'
    BY <2>2 DEF vars, timer, driver, TimeInv, Stopwatch, Stamps
  <2>3. CASE RecogniseNext
    <3>1. NoAccess \/ Driver \/ UNCHANGED vars
      BY <2>3 DEF RecogniseNext, CallTimestamp, Boot, Driver
    <3> QED
      BY <2>1, <2>2, <2>3, <3>1, TimesStep DEF TimeInv
  <2>4. CASE UNCHANGED <<vars, main>>
    <3>1. Times'
      BY <2>4 DEF vars, main, driver, TimeInv, Times
    <3> QED
      BY <2>2, <2>4, <3>1 DEF TimeInv
  <2> QED
    BY <2>3, <2>4
<1> QED
  BY <1>1, TimeStart, PTL DEF RecogniseSpec

\* For any width of the half registers: the difference of the timestamps is
\* the time between the two latches of the running counter.
THEOREM ElapsedTimeMeasured == RecogniseSpec => []TimeMeasured
<1>1. TimeInv => TimeMeasured
  <2> SUFFICES ASSUME TimeInv, step = "show"
               PROVE  Difference = Elapsed % (Full + 1)
    BY DEF TimeMeasured
  <2>1. PICK n \in Nat \ {0} : n = Full + 1
    BY FullIs
  <2>2. PICK s \in 0 .. n, t \in 0 .. n :
            /\ s = started /\ t = latched /\ s <= t
            /\ start = (IF s < n THEN s ELSE 0) /\ end = (IF t < n THEN t ELSE 0)
    <3>1. started <= latched /\ start = Stamp(started) /\ end = Stamp(latched)
      BY DEF TimeInv, Times
    <3>2. latched \in 0 .. n /\ started \in Nat
      BY <2>1 DEF TimeInv, Stamps, Times
    <3>3. \A i \in Nat : i <= Full <=> i < n
      BY <2>1, FullIs
    <3> QED
      BY <3>1, <3>2, <3>3 DEF Stamp
  <2>3. Difference = (end - start) % n /\ Elapsed % (Full + 1) = (t - s) % n
    BY <2>1, <2>2 DEF Difference, Elapsed
  <2>4. CASE t < n
    BY <2>2, <2>3, <2>4
  <2>5. CASE t = n /\ s \in 1 .. n - 1
    <3>1. end - start = 0 - s
      BY <2>2, <2>5
    <3> QED
      BY <2>3, <2>5, <3>1, Wrapped
  <2>6. CASE t = n /\ s = 0
    <3>1. end - start = 0 /\ t - s = n
      BY <2>2, <2>6
    <3>2. 0 % n = 0 /\ n % n = 0
      OBVIOUS
    <3> QED
      BY <2>3, <3>1, <3>2
  <2>7. CASE t = n /\ s = n
    BY <2>2, <2>3, <2>7
  <2> QED
    BY <2>2, <2>4, <2>5, <2>6, <2>7
<1> QED
  BY <1>1, TimeInvariant, PTL
=============================================================================
