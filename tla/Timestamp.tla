----------------------------- MODULE Timestamp -----------------------------
(***************************************************************************)
(* The stopwatch around the inference: the interval timer NiosSoc_timer.v  *)
(* and its driver altera_avalon_timer_ts.c.  alt_timestamp_start stops the *)
(* timer, writes the longest period in two halves and starts it once;      *)
(* alt_timestamp latches the down-counter and reads it in two halves.      *)
(*                                                                         *)
(* One step is one clock of the timer, in which the driver may make its    *)
(* next bus access.  A half register counts to Half - 1 (2^16 - 1 in the   *)
(* design).                                                                *)
(***************************************************************************)
EXTENDS Integers

CONSTANTS
    Half,        \* values of a half register: 2^16
    MaxReads     \* bound: calls of alt_timestamp in one behaviour

ASSUME HalfAssumption == Half \in Nat /\ Half > 1 /\ MaxReads \in Nat

Full == Half * Half - 1     \* 0xFFFFFFFF

VARIABLES
    \* the timer; the control register's continuous bit is never set
    internal_counter, counter_is_running, force_reload,
    period_l_register, period_h_register, counter_snapshot,
    \* the driver
    pc,
    lower,            \* the half read first
    stamp,            \* the value returned last
    \* history
    ticks,            \* clocks the counter has run for since it was started
    latched,          \* ticks when the counter was latched last
    reads

timer == <<internal_counter, counter_is_running, force_reload,
           period_l_register, period_h_register>>
driver == <<pc, lower, stamp, reads>>
vars == <<timer, counter_snapshot, driver, ticks, latched>>

Init ==
    /\ internal_counter = 9 % Half /\ counter_is_running = FALSE /\ force_reload = FALSE
    /\ period_l_register = 9 % Half /\ period_h_register = 0 /\ counter_snapshot = 0
    /\ pc = "stop" /\ lower = 0 /\ stamp = 0
    /\ ticks = 0 /\ latched = 0 /\ reads = 0

-----------------------------------------------------------------------------
(* The timer: one clock, given the writes the bus makes in it.             *)

counter_load_value == period_h_register * Half + period_l_register
counter_is_zero == internal_counter = 0

Count ==
    internal_counter' =
        IF ~(counter_is_running \/ force_reload) THEN internal_counter
        ELSE IF counter_is_zero \/ force_reload THEN counter_load_value
        ELSE internal_counter - 1

\* The timer stops at zero, after reloading.
Running(start, stop) ==
    counter_is_running' =
        IF start THEN TRUE
        ELSE IF stop \/ force_reload \/ counter_is_zero THEN FALSE
        ELSE counter_is_running

Tick ==
    ticks' = IF counter_is_running /\ ticks <= Full THEN ticks + 1 ELSE ticks

Clock(start, stop) == Count /\ Running(start, stop) /\ Tick

NoPeriod == force_reload' = FALSE /\ UNCHANGED <<period_l_register, period_h_register>>

-----------------------------------------------------------------------------
(* The driver's bus accesses.                                              *)

NoAccess ==
    /\ Clock(FALSE, FALSE) /\ NoPeriod
    /\ UNCHANGED <<counter_snapshot, driver, latched>>

StopTimer ==
    /\ pc = "stop" /\ pc' = "period_l"
    /\ Clock(FALSE, TRUE) /\ NoPeriod
    /\ UNCHANGED <<counter_snapshot, lower, stamp, reads, latched>>

WritePeriodL ==
    /\ pc = "period_l" /\ pc' = "period_h"
    /\ period_l_register' = Half - 1 /\ force_reload' = TRUE
    /\ Clock(FALSE, FALSE)
    /\ UNCHANGED <<period_h_register, counter_snapshot, lower, stamp, reads, latched>>

WritePeriodH ==
    /\ pc = "period_h" /\ pc' = "start"
    /\ period_h_register' = Half - 1 /\ force_reload' = TRUE
    /\ Clock(FALSE, FALSE)
    /\ UNCHANGED <<period_l_register, counter_snapshot, lower, stamp, reads, latched>>

StartTimer ==
    /\ pc = "start" /\ pc' = "idle"
    /\ Clock(TRUE, FALSE) /\ NoPeriod
    /\ UNCHANGED <<counter_snapshot, lower, stamp, reads, latched>>

\* Writing either snapshot register latches all of the counter.
Latch ==
    /\ pc = "idle" /\ reads < MaxReads
    /\ pc' = "snap_l" /\ reads' = reads + 1
    /\ counter_snapshot' = internal_counter /\ latched' = ticks
    /\ Clock(FALSE, FALSE) /\ NoPeriod
    /\ UNCHANGED <<lower, stamp>>

ReadLower ==
    /\ pc = "snap_l" /\ pc' = "snap_h"
    /\ lower' = counter_snapshot % Half
    /\ Clock(FALSE, FALSE) /\ NoPeriod
    /\ UNCHANGED <<counter_snapshot, stamp, reads, latched>>

\* Mistake (mutation runs only): the upper half is read from the live counter.
ReadLive ==
    /\ pc = "snap_h" /\ pc' = "idle"
    /\ stamp' = Full - ((internal_counter \div Half) * Half + lower)
    /\ Clock(FALSE, FALSE) /\ NoPeriod
    /\ UNCHANGED <<counter_snapshot, lower, reads, latched>>

ReadUpper ==
    /\ pc = "snap_h" /\ pc' = "idle"
    /\ stamp' = Full - ((counter_snapshot \div Half) * Half + lower)
    /\ Clock(FALSE, FALSE) /\ NoPeriod
    /\ UNCHANGED <<counter_snapshot, lower, reads, latched>>

Driver == StopTimer \/ WritePeriodL \/ WritePeriodH \/ StartTimer
          \/ Latch \/ ReadLower \/ ReadUpper

Next == NoAccess \/ Driver

Spec == Init /\ [][Next]_vars

-----------------------------------------------------------------------------
(* Properties. *)

TypeOK ==
    /\ internal_counter \in 0 .. Full /\ counter_is_running \in BOOLEAN
    /\ force_reload \in BOOLEAN
    /\ period_l_register \in 0 .. Half - 1 /\ period_h_register \in 0 .. Half - 1
    /\ counter_snapshot \in 0 .. Full
    /\ pc \in {"stop", "period_l", "period_h", "start", "idle", "snap_l", "snap_h"}
    /\ lower \in 0 .. Half - 1 /\ stamp \in 0 .. Full
    /\ ticks \in 0 .. Full + 1 /\ latched \in 0 .. Full + 1 /\ reads \in 0 .. MaxReads

=============================================================================
