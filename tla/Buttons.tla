------------------------------ MODULE Buttons ------------------------------
(***************************************************************************)
(* The push buttons: the edge-capture port NiosSoc_button.v, clocked, and  *)
(* the main loop of hello_world.c, which polls it once per iteration,      *)
(* carries out at most one command and then clears the whole register.     *)
(*                                                                         *)
(* Every step is one clock of the port.  In a step the loop may also make  *)
(* its next access; between two accesses any number of clocks may pass.    *)
(* KEY0 is the reset, so Keys is {1, 2, 3} in the design.                  *)
(***************************************************************************)
EXTENDS Naturals, FiniteSets

CONSTANTS
    Keys,        \* the push buttons wired to the port
    ClearKey,    \* its bit alone is the value 0x2
    RecogKey,    \* its bit alone is the value 0x4
    MaxPresses   \* bound: presses of each key in one behaviour

ASSUME KeysAssumption ==
    /\ ClearKey \in Keys /\ RecogKey \in Keys /\ ClearKey # RecogKey
    /\ MaxPresses \in Nat

VARIABLES
    down,           \* keys held down now (their pins are 0)
    d1_low, d2_low, \* keys whose bit is 0 in d1_data_in and in d2_data_in
    edge_capture,   \* keys whose edge-capture bit is set
    pc,             \* the next access of the main loop
    command,        \* the key whose command is being carried out
    \* history, read by no action
    pressed,        \* per key: times it was pressed
    served,         \* per key: commands completed
    late            \* keys captured after the poll that chose the command

port == <<down, d1_low, d2_low, edge_capture>>
history == <<pressed, served, late>>
vars == <<port, pc, command, history>>

\* Both registers of the port reset to 0, so its bits look pressed at first.
Init ==
    /\ down = {} /\ d1_low = Keys /\ d2_low = Keys /\ edge_capture = {}
    /\ pc = "poll" /\ command = ClearKey
    /\ pressed = [k \in Keys |-> 0] /\ served = [k \in Keys |-> 0] /\ late = {}

-----------------------------------------------------------------------------
(* The port. *)

\* A falling edge of the pin, seen through the two registers.
edge_detect == d1_low \ d2_low

\* The user presses or releases keys, or does nothing.
Fingers ==
    \/ UNCHANGED <<down, pressed>>
    \/ \E k \in Keys \ down :
           /\ pressed[k] < MaxPresses
           /\ pressed' = [pressed EXCEPT ![k] = @ + 1]
           /\ down' = down \cup {k}
    \/ \E k \in down : down' = down \ {k} /\ UNCHANGED pressed

Synchronise == d1_low' = down /\ d2_low' = d1_low

\* One clock with no write to the port.
ClockPort ==
    /\ Fingers /\ Synchronise
    /\ edge_capture' = edge_capture \cup edge_detect

\* Mistake (mutation runs only): writing clears nothing.
WriteIgnored == ClockPort

\* One clock with a write to register 3: the data is ignored, every bit is
\* cleared, and an edge detected in the same clock is lost.
WriteEdgeCapture ==
    /\ Fingers /\ Synchronise
    /\ edge_capture' = {}

-----------------------------------------------------------------------------
(* The main loop. *)

Idle ==
    /\ ClockPort
    /\ late' = late \cup edge_detect
    /\ UNCHANGED <<pc, command, served>>

\* Mistake (mutation runs only): the bit is tested and the others ignored.
SelectsBit(k) == k \in edge_capture

\* The word read selects a command only if exactly one of two bits is set.
Selects(k) == edge_capture = {k}

\* Mistake (mutation runs only): the second branch tests for CLEAR again.
PollClearOnly ==
    /\ pc = "poll"
    /\ Selects(ClearKey) /\ command' = ClearKey
    /\ pc' = "handle"
    /\ late' = edge_detect
    /\ ClockPort
    /\ UNCHANGED served

PollCommand ==
    /\ pc = "poll"
    /\ \E k \in {ClearKey, RecogKey} : Selects(k) /\ command' = k
    /\ pc' = "handle"
    /\ late' = edge_detect
    /\ ClockPort
    /\ UNCHANGED served

\* Any other word: the rest of the iteration, with no write to the port.
PollNothing ==
    /\ pc = "poll"
    /\ ~Selects(ClearKey) /\ ~Selects(RecogKey)
    /\ ClockPort
    /\ UNCHANGED <<pc, command, served, late>>

\* The last access of both branches: IOWR(BUTTON_BASE, 3, 0).
Acknowledge ==
    /\ pc = "handle"
    /\ WriteEdgeCapture
    /\ served' = [served EXCEPT ![command] = @ + 1]
    /\ pc' = "poll"
    /\ UNCHANGED <<command, late>>

Loop == PollCommand \/ PollNothing \/ Acknowledge

Next == Idle \/ Loop

Spec == Init /\ [][Next]_vars

\* The loop always reaches its next access: OLED_Clear and the inference are
\* finite loops.
FairSpec == Spec /\ WF_vars(PollCommand) /\ WF_vars(Acknowledge)

-----------------------------------------------------------------------------
(* Properties. *)

TypeOK ==
    /\ down \subseteq Keys /\ d1_low \subseteq Keys /\ d2_low \subseteq Keys
    /\ edge_capture \subseteq Keys /\ late \subseteq Keys
    /\ pc \in {"poll", "handle"} /\ command \in {ClearKey, RecogKey}
    /\ pressed \in [Keys -> 0 .. MaxPresses] /\ served \in [Keys -> 0 .. MaxPresses]

\* A word the loop does not understand: two keys at once, or a third key.
Jammed == pc = "poll" /\ edge_capture # {} /\ ~Selects(ClearKey) /\ ~Selects(RecogKey)

\* One press is at most one command: a key is never served more often than it
\* was pressed, although the bit stays set until the end of the command, the
\* port's registers reset to "pressed" and the key may be held meanwhile.
OnePressOneCommand ==
    \A k \in Keys : served[k] + (IF pc = "handle" /\ command = k THEN 1 ELSE 0)
                        <= pressed[k]

\* What an acknowledgement throws away unserved was captured while a command
\* was being carried out; a press captured before the loop looked is never
\* thrown away by the command of another key.
LostOnlyWhileBusy ==
    [][\A k \in edge_capture \ edge_capture' : k = command \/ k \in late]_vars

\* Otherwise the loop keeps serving: a captured press is served or thrown away
\* by an acknowledgement, unless the port jams.
PressAnswered ==
    \A k \in {ClearKey, RecogKey} :
        (k \in edge_capture) ~> (k \notin edge_capture \/ Jammed)
=============================================================================
