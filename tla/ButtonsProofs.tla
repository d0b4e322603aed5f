--------------------------- MODULE ButtonsProofs ---------------------------
(***************************************************************************)
(* Proofs about the push buttons for any set of keys and any number of     *)
(* presses, at any clocks.                                                 *)
(***************************************************************************)
EXTENDS Buttons, TLAPS

One(condition) == IF condition THEN 1 ELSE 0

\* A press is counted once on its way through the port: as a pin that the first
\* register has not seen, as an edge that is not captured, as the captured bit,
\* and then as a command completed.  What merges with a set bit, or is lost in
\* an acknowledgement, only makes the sum smaller.
OnTheWay(k) ==
    One(k \in down \ d1_low) + One(k \in d1_low \ d2_low) + One(k \in edge_capture)

IInv ==
    /\ down \subseteq Keys /\ command \in Keys
    /\ pressed \in [Keys -> Nat] /\ served \in [Keys -> Nat]
    /\ pc \in {"poll", "handle"}
    /\ \A k \in Keys : served[k] + OnTheWay(k) <= pressed[k]
    /\ pc = "handle" => /\ command \in edge_capture
                        /\ edge_capture \subseteq {command} \cup late

LEMMA InitIInv == ASSUME Init PROVE IInv
BY KeysAssumption DEF Init, IInv, OnTheWay, One

\* One clock: the fingers move and the registers shift.
LEMMA Shift ==
    ASSUME IInv, Fingers, Synchronise, NEW k \in Keys
    PROVE  /\ pressed' \in [Keys -> Nat] /\ down' \subseteq Keys
           /\ pressed[k] + One(k \in down' \ d1_low') <= pressed'[k]
           /\ One(k \in d1_low' \ d2_low') = One(k \in down \ d1_low)
<1>1. CASE UNCHANGED <<down, pressed>>
  BY <1>1 DEF IInv, Synchronise, One
<1>2. ASSUME NEW j \in Keys \ down, pressed' = [pressed EXCEPT ![j] = @ + 1],
             down' = down \cup {j}
      PROVE  /\ pressed' \in [Keys -> Nat] /\ down' \subseteq Keys
             /\ pressed[k] + One(k \in down' \ d1_low') <= pressed'[k]
  BY <1>2 DEF IInv, Synchronise, One
<1>3. ASSUME NEW j \in down, down' = down \ {j}, UNCHANGED pressed
      PROVE  /\ pressed' \in [Keys -> Nat] /\ down' \subseteq Keys
             /\ pressed[k] + One(k \in down' \ d1_low') <= pressed'[k]
  BY <1>3 DEF IInv, Synchronise, One
<1>4. One(k \in d1_low' \ d2_low') = One(k \in down \ d1_low)
  BY DEF Synchronise, One
<1> QED
  BY <1>1, <1>2, <1>3, <1>4 DEF Fingers

\* A clock that keeps what is captured.
LEMMA ClockPortSum ==
    ASSUME IInv, ClockPort, NEW k \in Keys
    PROVE  served[k] + OnTheWay(k)' <= pressed'[k]
<1>1. /\ pressed[k] + One(k \in down' \ d1_low') <= pressed'[k]
      /\ One(k \in d1_low' \ d2_low') = One(k \in down \ d1_low)
      /\ pressed' \in [Keys -> Nat]
  BY Shift DEF ClockPort
<1>2. One(k \in edge_capture') <= One(k \in d1_low \ d2_low) + One(k \in edge_capture)
  BY DEF ClockPort, edge_detect, One
<1>3. served[k] \in Nat /\ pressed[k] \in Nat /\ served[k] + OnTheWay(k) <= pressed[k]
  BY DEF IInv
<1>4. /\ OnTheWay(k) = One(k \in down \ d1_low) + One(k \in d1_low \ d2_low)
                           + One(k \in edge_capture)
      /\ OnTheWay(k)' = One(k \in down' \ d1_low') + One(k \in d1_low' \ d2_low')
                           + One(k \in edge_capture')
  BY DEF OnTheWay, One
<1>5. /\ One(k \in down \ d1_low) \in 0 .. 1 /\ One(k \in d1_low \ d2_low) \in 0 .. 1
      /\ One(k \in edge_capture) \in 0 .. 1 /\ One(k \in edge_capture') \in 0 .. 1
      /\ One(k \in down' \ d1_low') \in 0 .. 1 /\ pressed'[k] \in Nat
  BY <1>1 DEF One
<1> QED
  BY <1>1, <1>2, <1>3, <1>4, <1>5

LEMMA StepIInv == ASSUME IInv, Next PROVE IInv'
<1>1. pressed' \in [Keys -> Nat] /\ down' \subseteq Keys
  BY Shift, KeysAssumption DEF Next, Idle, Loop, PollCommand, PollNothing, Acknowledge,
                               ClockPort, WriteEdgeCapture
<1>2. CASE Idle
  <2>1. \A k \in Keys : served'[k] + OnTheWay(k)' <= pressed'[k]
    BY <1>2, ClockPortSum DEF Idle
  <2> QED
    BY <1>1, <1>2, <2>1 DEF Idle, ClockPort, IInv
<1>3. CASE PollCommand
  <2>1. \A k \in Keys : served'[k] + OnTheWay(k)' <= pressed'[k]
    BY <1>3, ClockPortSum DEF PollCommand
  <2> QED
    BY <1>1, <1>3, <2>1, KeysAssumption DEF PollCommand, Selects, ClockPort, IInv
<1>4. CASE PollNothing
  <2>1. \A k \in Keys : served'[k] + OnTheWay(k)' <= pressed'[k]
    BY <1>4, ClockPortSum DEF PollNothing
  <2> QED
    BY <1>1, <1>4, <2>1 DEF PollNothing, ClockPort, IInv
<1>5. CASE Acknowledge
  <2>1. ASSUME NEW k \in Keys
        PROVE  served'[k] + OnTheWay(k)' <= pressed'[k] /\ served'[k] \in Nat
    <3>1. /\ pressed[k] + One(k \in down' \ d1_low') <= pressed'[k]
          /\ One(k \in d1_low' \ d2_low') = One(k \in down \ d1_low)
      BY <1>5, Shift DEF Acknowledge, WriteEdgeCapture
    <3>2. One(k \in edge_capture') = 0
      BY <1>5 DEF Acknowledge, WriteEdgeCapture, One
    <3>3. /\ served'[k] <= served[k] + One(k \in edge_capture) /\ served'[k] \in Nat
      BY <1>5 DEF Acknowledge, IInv, One
    <3>4. /\ served[k] \in Nat /\ pressed[k] \in Nat /\ pressed'[k] \in Nat
          /\ served[k] + OnTheWay(k) <= pressed[k]
      BY <1>1 DEF IInv
    <3>5. /\ OnTheWay(k) = One(k \in down \ d1_low) + One(k \in d1_low \ d2_low)
                               + One(k \in edge_capture)
          /\ OnTheWay(k)' = One(k \in down' \ d1_low') + One(k \in d1_low' \ d2_low')
                               + One(k \in edge_capture')
      BY DEF OnTheWay, One
    <3>6. /\ One(k \in down \ d1_low) \in 0 .. 1 /\ One(k \in d1_low \ d2_low) \in 0 .. 1
          /\ One(k \in edge_capture) \in 0 .. 1
          /\ One(k \in down' \ d1_low') \in 0 .. 1
      BY DEF One
    <3> QED
      BY <3>1, <3>2, <3>3, <3>4, <3>5, <3>6
  <2>2. served' \in [Keys -> Nat]
    BY <1>5, <2>1 DEF Acknowledge, IInv
  <2> QED
    BY <1>1, <1>5, <2>1, <2>2 DEF Acknowledge, IInv
<1> QED
  BY <1>2, <1>3, <1>4, <1>5 DEF Next, Loop

THEOREM PressesCounted == Spec => []IInv
<1>1. IInv /\ UNCHANGED vars => IInv'
  BY DEF IInv, OnTheWay, vars, port, history
<1>2. IInv /\ [Next]_vars => IInv'
  BY <1>1, StepIInv
<1> QED
  BY InitIInv, <1>2, PTL DEF Spec

\* For any keys: a key is never served more often than it was pressed.
THEOREM OneCommandPerPress == Spec => []OnePressOneCommand
<1>1. IInv => OnePressOneCommand
  <2> SUFFICES ASSUME IInv, NEW k \in Keys
               PROVE  served[k] + One(pc = "handle" /\ command = k) <= pressed[k]
    BY DEF OnePressOneCommand, One
  <2>1. One(pc = "handle" /\ command = k) <= One(k \in edge_capture)
    BY DEF IInv, One
  <2>2. /\ served[k] \in Nat /\ pressed[k] \in Nat
        /\ served[k] + OnTheWay(k) <= pressed[k]
    BY DEF IInv
  <2>3. /\ One(k \in down \ d1_low) \in 0 .. 1 /\ One(k \in d1_low \ d2_low) \in 0 .. 1
        /\ One(k \in edge_capture) \in 0 .. 1
        /\ One(pc = "handle" /\ command = k) \in 0 .. 1
    BY DEF One
  <2>4. OnTheWay(k) = One(k \in down \ d1_low) + One(k \in d1_low \ d2_low)
                         + One(k \in edge_capture)
    BY DEF OnTheWay, One
  <2> QED
    BY <2>1, <2>2, <2>3, <2>4
<1> QED
  BY <1>1, PressesCounted, PTL

\* For any keys: no command throws away a press of another key that was captured
\* before the poll that chose it.
THEOREM NothingEarlierLost == Spec => LostOnlyWhileBusy
<1>1. IInv /\ [Next]_vars =>
          [\A k \in edge_capture \ edge_capture' : k = command \/ k \in late]_vars
  BY DEF Next, Idle, Loop, PollCommand, PollNothing, Acknowledge, ClockPort, IInv
<1> QED
  BY <1>1, PressesCounted, PTL DEF Spec, LostOnlyWhileBusy
=============================================================================
