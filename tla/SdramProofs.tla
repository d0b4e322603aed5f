---------------------------- MODULE SdramProofs ----------------------------
(***************************************************************************)
(* Proofs about the memory controller, however the requests come and       *)
(* wherever a refresh or a reset interrupts them: one refresh is over      *)
(* before the next is due, rows are closed in time, one side drives the    *)
(* data pins, the chip gets its clocks between any two commands, and the   *)
(* controller with its chip implements the port that MemoryPort describes. *)
(***************************************************************************)
EXTENDS Integers, Sdram, TLAPS, SequenceTheorems, FiniteSetTheorems

States == {"IDLE", "ACT", "WAIT", "RD", "WR", "OPEN", "SPIN", "PRE", "ARF"}

Registers ==
    /\ refresh_counter \in Nat
    /\ refresh_request \in BOOLEAN /\ ack_refresh_request \in BOOLEAN
    /\ init_done \in BOOLEAN
    /\ m_state \in States /\ m_next \in {"IDLE", "RD", "WR", "ARF"}
    /\ m_count \in Nat

\* Where the machine can be with which wait ahead of it.
Waits ==
    /\ ~init_done => m_state = "IDLE" /\ ~refresh_request
    /\ m_state \in {"IDLE", "ACT", "SPIN"} => m_next = "IDLE"
    /\ m_state \in {"RD", "WR", "OPEN"} => m_next \in {"RD", "WR"}
    /\ m_state = "WAIT" => m_count >= 1
    /\ m_state = "WAIT" /\ m_next \in {"RD", "WR"} => m_count <= 3
    /\ m_state = "WAIT" /\ m_next = "IDLE" /\ ~ack_refresh_request => m_count <= 3
    /\ m_state = "WAIT" /\ m_next = "ARF" => m_count <= 2
    /\ m_state = "WAIT" /\ ack_refresh_request => m_count <= 10
    /\ m_state = "SPIN" => m_count \in 1 .. 2
    /\ m_state = "PRE" => m_next \in {"IDLE", "ARF"} /\ m_count = 2
    /\ m_state = "ARF" => m_next = "ARF"
    \* On the way to a refresh it is still asked for; afterwards, acknowledged.
    /\ m_next = "ARF" => refresh_request /\ ~ack_refresh_request
    /\ ack_refresh_request => init_done /\ m_state \in {"WAIT", "IDLE"} /\ m_next = "IDLE"
    /\ ack_refresh_request /\ refresh_request => m_state = "WAIT" /\ m_count = 10

\* The clocks since the refresh was asked for.
Since == RefreshClocks - refresh_counter

\* How long ago it can have been asked for, place by place: the longest way from
\* any state to the refresh, and through it, backwards.
Due == refresh_request \/ ack_refresh_request
Late ==
    Due =>
        /\ m_state = "ACT" => Since <= 0
        /\ m_state = "WAIT" /\ m_next \in {"RD", "WR"} => Since + m_count <= 4
        /\ m_state \in {"RD", "WR"} => Since <= 4
        /\ m_state = "OPEN" => Since <= 5
        /\ m_state = "SPIN" => Since + m_count <= 2
        /\ m_state = "PRE" /\ m_next = "IDLE" => Since <= 2
        /\ m_state = "WAIT" /\ m_next = "IDLE" /\ ~ack_refresh_request
               => Since + m_count <= 8
        /\ m_state = "IDLE" /\ ~ack_refresh_request => Since <= 8
        /\ m_state = "PRE" /\ m_next = "ARF" => Since <= 9
        /\ m_state = "WAIT" /\ m_next = "ARF" => Since + m_count <= 12
        /\ m_state = "ARF" => Since <= 12
        /\ m_state = "WAIT" /\ ack_refresh_request => Since + m_count <= 23
        /\ m_state = "IDLE" /\ ack_refresh_request => Since <= 23

IInv == Registers /\ Waits /\ Late

-----------------------------------------------------------------------------

\* After reset nothing is due.
LEMMA InitIInv == ASSUME Init PROVE IInv
BY AddressAssumption DEF Init, IInv, Registers, Waits, Late, Due, States

LEMMA ResetIInv == ASSUME Reset PROVE IInv'
BY AddressAssumption
   DEF Reset, ResetRegisters, IInv, Registers, Waits, Late, Due, States

\* The timer counts while a refresh is due, which it is for less than an interval.
LEMMA TimerStep ==
    ASSUME IInv, RefreshTimer
    PROVE  /\ refresh_counter' \in Nat /\ refresh_request' \in BOOLEAN
           /\ Due => refresh_counter > 0 /\ Since' = Since + 1
           /\ refresh_request' => init_done /\ ~ack_refresh_request
           /\ refresh_request' /\ ~Due => Since' = 0
           /\ refresh_request /\ ~ack_refresh_request => refresh_request'
<1>1. Due => refresh_counter > 0
  BY AddressAssumption, RefreshAssumption
     DEF IInv, Registers, Waits, Late, States, Since
<1> QED
  BY <1>1, AddressAssumption DEF IInv, Registers, Waits, RefreshTimer, Since, Due

\* One clock, one state after the other.
LEMMA ClockIInv ==
    ASSUME IInv, RefreshTimer, InitMachine, AccessMachine
    PROVE  IInv'
<1> USE DEF IInv, States
<1>1. /\ refresh_counter' \in Nat /\ refresh_request' \in BOOLEAN
      /\ Due => refresh_counter > 0 /\ Since' = Since + 1
      /\ refresh_request' => init_done /\ ~ack_refresh_request
      /\ refresh_request' /\ ~Due => Since' = 0
      /\ refresh_request /\ ~ack_refresh_request => refresh_request'
  BY TimerStep
<1>2. init_done' \in BOOLEAN /\ (init_done => init_done')
      /\ Since \in Int /\ Since' \in Int
  BY <1>1, AddressAssumption DEF InitMachine, Registers, Since
<1>3. CASE Idle
  <2>1. Registers'
    <3>1. CASE ~init_done
      BY <1>1, <1>2, <1>3, <3>1 DEF Idle, Registers, Waits
    <3>2. CASE init_done /\ refresh_request
      <4>1. m_state' = "PRE" /\ m_next' = "ARF" /\ m_count' = 2
            /\ ack_refresh_request' = FALSE
        BY <1>3, <3>2 DEF Idle
      <4> QED
        BY <1>1, <1>2, <4>1 DEF Registers
    <3>3. CASE init_done /\ ~refresh_request
      <4>1. m_state' \in {"ACT", "IDLE"} /\ m_next' = m_next /\ m_count' = m_count
            /\ ack_refresh_request' = FALSE
        BY <1>3, <3>3 DEF Idle
      <4> QED
        BY <1>1, <1>2, <4>1 DEF Registers
    <3> QED
      BY <3>1, <3>2, <3>3 DEF Registers
  <2>2. Waits'
    BY <1>1, <1>2, <1>3 DEF Idle, Keep, Take, Registers, Waits
  <2>3. Late'
    BY <1>1, <1>2, <1>3 DEF Idle, Keep, Take, Registers, Waits, Late, Due
  <2> QED
    BY <2>1, <2>2, <2>3
<1>4. CASE Activate
  <2>1. Registers'
    BY <1>1, <1>2, <1>4 DEF Activate, Registers, Waits
  <2>2. Waits'
    BY <1>1, <1>2, <1>4 DEF Activate, Registers, Waits
  <2>3. Late'
    <3>1. m_state' = "WAIT" /\ m_next' \in {"RD", "WR"} /\ m_count' = 3
          /\ ~ack_refresh_request /\ ~ack_refresh_request'
      BY <1>4 DEF Activate, Registers, Waits
    <3>2. PICK late \in Int : Since' = late
      BY <1>2
    <3>3. Due' => Since' <= 1
      BY <1>1, <1>2, <1>4, <3>1 DEF Activate, Late, Due
    <3> QED
      BY <3>1, <3>2, <3>3 DEF Late
  <2> QED
    BY <2>1, <2>2, <2>3
<1>5. CASE Wait
  BY <1>1, <1>2, <1>5 DEF Wait, counting, Registers, Waits, Late, Due
<1>6. CASE Read
  BY <1>1, <1>2, <1>6 DEF Read, Burst, Registers, Waits, Late, Due
<1>7. CASE Write
  BY <1>1, <1>2, <1>7 DEF Write, Burst, Registers, Waits, Late, Due
<1>8. CASE OpenRow
  BY <1>1, <1>2, <1>8 DEF OpenRow, Registers, Waits, Late, Due
<1>9. CASE Spin
  BY <1>1, <1>2, <1>9 DEF Spin, counting, Registers, Waits, Late, Due
<1>10. CASE Precharge
  <2>1. Registers'
    BY <1>1, <1>2, <1>10 DEF Precharge, Registers, Waits
  <2>2. Waits'
    BY <1>1, <1>2, <1>10 DEF Precharge, Registers, Waits
  <2>3. Late'
    <3>1. m_state' = "WAIT" /\ m_next' = m_next /\ m_count' = 2
          /\ m_next \in {"IDLE", "ARF"}
          /\ ~ack_refresh_request /\ ~ack_refresh_request'
      BY <1>10 DEF Precharge, Registers, Waits
    <3>2. PICK late \in Int : Since' = late
      BY <1>2
    <3>3. Due' => Since' <= IF m_next = "IDLE" THEN 3 ELSE 10
      BY <1>1, <1>2, <1>10, <3>1 DEF Precharge, Late, Due
    <3> QED
      BY <3>1, <3>2, <3>3 DEF Late
  <2> QED
    BY <2>1, <2>2, <2>3
<1>11. CASE Refresh
  BY <1>1, <1>2, <1>11 DEF Refresh, Registers, Waits, Late, Due
<1> QED
  BY <1>3, <1>4, <1>5, <1>6, <1>7, <1>8, <1>9, <1>10, <1>11 DEF AccessMachine

\* The inductive invariant of the refresh: how late it can be in each state.
THEOREM RefreshInvariant == Spec => []IInv
<1>1. Init => IInv
  BY InitIInv
<1>2. IInv /\ [Next]_sdram => IInv'
  <2> SUFFICES ASSUME IInv, [Next]_sdram PROVE IInv'
    OBVIOUS
  <2>1. CASE Reset
    BY <2>1, ResetIInv
  <2>2. ASSUME NEW arriving, Clock(arriving) PROVE IInv'
    BY <2>2, ClockIInv DEF Clock
  <2>3. CASE UNCHANGED sdram
    BY <2>3 DEF sdram, timer, starting, machine, IInv, Registers, Waits, Late, Due, Since
  <2> QED
    BY <2>1, <2>2, <2>3 DEF Next
<1> QED
  BY <1>1, <1>2, PTL DEF Spec

\* For every refresh interval of at least 24 clocks no refresh is skipped,
\* whatever is requested and whenever the controller is reset.
THEOREM NoRefreshIsSkipped == Spec => []NoRefreshSkipped
<1>1. IInv => NoRefreshSkipped
  BY AddressAssumption, RefreshAssumption
     DEF IInv, Registers, Waits, Late, Due, States, Since, NoRefreshSkipped
<1> QED
  BY <1>1, RefreshInvariant, PTL

-----------------------------------------------------------------------------
(* Open rows and the data pins.                                            *)

Types ==
    /\ fifo \in Seq(Requests) /\ active \in Requests \cup {NoRequest}
    /\ m_bank \in Banks
    /\ i_state \in {0, 1, 2, 3, 5, 7} /\ i_next \in {0, 2, 5, 7} /\ i_count \in Nat
    /\ i_cmd \in {"DES", "NOP", "PRE", "ARF", "LMR"}

AllClosed == \A b \in Banks : open[b] = Closed

\* The request in hand: the machine is busy with active.
InRow == m_state \in {"RD", "WR", "OPEN"} \/ (m_state = "WAIT" /\ m_next \in {"RD", "WR"})
InHand ==
    /\ InRow => active \in Requests /\ active.rnw = (m_next = "RD")
    /\ m_state \in {"ACT", "SPIN"} => active \in Requests
    /\ m_state = "PRE" /\ m_next = "IDLE" => active \in Requests
    /\ m_state \in {"RD", "WR"} => m_next = m_state

\* The initialisation closes the banks first, and is over once.
Starting ==
    /\ init_done => i_state = 5
    /\ ~init_done => m_cmd \in {"DES", "NOP", "PRE", "ARF", "LMR"}
    /\ ~init_done /\ i_state \in {2, 5, 7} => AllClosed
    /\ i_state = 3 => \/ i_cmd = "PRE" /\ i_count = 2
                      \/ m_cmd = "PRE" \/ AllClosed
    /\ i_state = 3 => i_next # 0
    /\ ~init_done /\ i_cmd \in {"ARF", "LMR"} => AllClosed

\* The last command closed all banks; the chip takes it now.
Closing == m_cmd = "PRE" /\ m_count = 2

\* A row that is open without a request in hand is closed by the refresh that is
\* asked for.
Shut ==
    /\ m_cmd = "ACT" => /\ m_state = "WAIT" /\ m_next \in {"RD", "WR"} /\ m_count = 3
                        /\ AllClosed
    /\ m_cmd \in {"ARF", "LMR"} => AllClosed
    /\ m_state \in {"ACT", "ARF"} => AllClosed
    /\ init_done /\ m_state = "IDLE" /\ ~refresh_request => AllClosed
    /\ m_state = "WAIT" /\ m_next = "IDLE" /\ ~refresh_request => AllClosed \/ Closing
    /\ m_state = "WAIT" /\ m_next = "ARF" => AllClosed \/ Closing
    /\ ack_refresh_request => AllClosed

\* When a write can come, nothing read is on its way.
Undriven ==
    /\ m_cmd = "RD" => \/ m_state \in {"RD", "OPEN"} /\ m_next = "RD"
                       \/ m_state = "WAIT" /\ m_next = "IDLE"
    /\ InRow /\ m_next = "WR" /\ (m_state = "WAIT" => m_count <= 2) => dq[1] = NoRequest
    /\ InRow /\ m_next = "WR" /\ (m_state = "WAIT" => m_count <= 1) => dq[2] = NoRequest
    /\ m_cmd = "WR" => dq[3] = NoRequest

PinsInv == Types /\ InHand /\ Starting /\ Shut /\ Undriven

LEMMA RequestFields ==
    \A r \in Requests : r.bank \in Banks /\ r.rnw \in BOOLEAN
BY AddressAssumption DEF Requests

LEMMA InitPins == ASSUME Init PROVE PinsInv
BY AddressAssumption
   DEF Init, PinsInv, Types, InHand, InRow, Starting, Shut, Undriven, AllClosed

LEMMA ResetPins == ASSUME PinsInv, Reset PROVE PinsInv'
BY AddressAssumption
   DEF Reset, ResetRegisters, PinsInv, Types, InHand, InRow, Starting, Shut, Undriven

\* The head of the FIFO is what is taken.
LEMMA TypesStep ==
    ASSUME Types, IInv, InHand, InitMachine, AccessMachine,
           NEW arriving, arriving = <<>> \/ \E r \in Requests : arriving = <<r>>,
           InputFifo(arriving)
    PROVE  Types'
<1>1. fifo' \in Seq(Requests)
  <2>1. arriving \in Seq(Requests)
    <3>1. CASE arriving = <<>>
      BY <3>1
    <3>2. ASSUME NEW r \in Requests, arriving = <<r>> PROVE arriving \in Seq(Requests)
      BY <3>2
    <3> QED
      BY <3>1, <3>2
  <2>2. (IF f_select THEN Tail(fifo) ELSE fifo) \in Seq(Requests)
    BY DEF Types, f_select, pending
  <2> QED
    BY <2>1, <2>2 DEF InputFifo
<1>2. fifo # <<>> => Head(fifo) \in Requests
  BY DEF Types
<1>3. /\ i_state' \in {0, 1, 2, 3, 5, 7} /\ i_next' \in {0, 2, 5, 7} /\ i_count' \in Nat
      /\ i_cmd' \in {"DES", "NOP", "PRE", "ARF", "LMR"}
  BY DEF Types, InitMachine, InitCommand
<1>4. active' \in Requests \cup {NoRequest}
  BY <1>2 DEF AccessMachine, Idle, Activate, Wait, Read, Write, Burst, OpenRow, Spin,
              Precharge, Refresh, Keep, Take, Types, pending
<1>5. m_bank' \in Banks
  <2>1. CASE Activate
    BY <2>1, RequestFields DEF Activate, Types, InHand
  <2>2. CASE Read \/ Write
    <3>1. cell \in Requests
      BY <1>2, <2>2 DEF Read, Write, Burst, Types, InHand, InRow, cell, f_select, pending
    <3> QED
      BY <2>2, <3>1, RequestFields DEF Read, Write, Burst
  <2>3. CASE UNCHANGED m_bank
    BY <2>3 DEF Types
  <2> QED
    BY <2>1, <2>2, <2>3 DEF AccessMachine, Idle, Wait, OpenRow, Spin, Precharge, Refresh, SameCell
<1> QED
  BY <1>1, <1>3, <1>4, <1>5 DEF Types

LEMMA HandStep ==
    ASSUME IInv, Types, InHand, AccessMachine
    PROVE  InHand'
<1> USE DEF IInv, States, InHand, InRow
<1>1. fifo # <<>> => Head(fifo) \in Requests /\ Head(fifo).rnw \in BOOLEAN
  BY RequestFields DEF Types
<1>2. active \in Requests => active.rnw \in BOOLEAN
  BY RequestFields
<1>3. pending => Head(fifo) \in Requests /\ Head(fifo).rnw = active.rnw
  BY <1>1 DEF pending, SameRow
<1>4. CASE Idle
  BY <1>1, <1>2, <1>3, <1>4 DEF Idle, Keep, Take, Registers, Waits
<1>5. CASE Activate
  BY <1>1, <1>2, <1>3, <1>5 DEF Activate, Keep, Registers, Waits
<1>6. CASE Wait
  BY <1>1, <1>2, <1>3, <1>6 DEF Wait, counting, Keep, Registers, Waits
<1>7. CASE Read
  BY <1>1, <1>2, <1>3, <1>7 DEF Read, Burst, Keep, Take, Registers, Waits
<1>8. CASE Write
  BY <1>1, <1>2, <1>3, <1>8 DEF Write, Burst, Keep, Take, Registers, Waits
<1>9. CASE OpenRow
  BY <1>1, <1>2, <1>3, <1>9 DEF OpenRow, Keep, Take, Registers, Waits
<1>10. CASE Spin
  BY <1>1, <1>2, <1>3, <1>10 DEF Spin, counting, Keep, Registers, Waits
<1>11. CASE Precharge
  BY <1>1, <1>2, <1>3, <1>11 DEF Precharge, Keep, Registers, Waits
<1>12. CASE Refresh
  BY <1>1, <1>2, <1>3, <1>12 DEF Refresh, Keep, Registers, Waits
<1> QED
  BY <1>4, <1>5, <1>6, <1>7, <1>8, <1>9, <1>10, <1>11, <1>12 DEF AccessMachine

\* The chip takes the command at its pins.
LEMMA ClosedStep ==
    ASSUME Chip(m_cmd), m_cmd = "PRE" \/ (AllClosed /\ m_cmd # "ACT")
    PROVE  AllClosed'
BY DEF Chip, AllClosed

LEMMA StartingStep ==
    ASSUME IInv, Types, Starting, InitMachine, AccessMachine, Chip(m_cmd)
    PROVE  Starting'
<1>1. m_cmd = "PRE" \/ (AllClosed /\ m_cmd # "ACT") => AllClosed'
  BY ClosedStep
<1>2. ~init_done => Idle
  BY DEF IInv, Waits, AccessMachine, Idle, Activate, Wait, Read, Write, Burst, OpenRow,
         Spin, Precharge, Refresh
<1>3. ~init_done => m_cmd' = i_cmd
  BY <1>2 DEF Idle
<1>4. init_done \in BOOLEAN
  BY DEF IInv, Registers
<1>5. init_done' = (init_done \/ i_state = 5)
  BY DEF InitMachine
<1>6. CASE init_done
  <2>1. i_state = 5
    BY <1>6 DEF Starting
  <2>2. i_state' = 5
    BY <2>1 DEF InitMachine, InitCommand
  <2>3. init_done'
    BY <1>5, <2>1
  <2> QED
    BY <2>2, <2>3 DEF Starting
<1>7. CASE ~init_done
  <2>1. m_cmd' \in {"DES", "NOP", "PRE", "ARF", "LMR"}
    BY <1>3, <1>7 DEF Types
  <2>2. CASE i_state \in {0, 1}
    <3>1. ~init_done'
      <4>1. i_state # 5
        BY <2>2
      <4> QED
        BY <1>5, <1>7, <4>1
    <3>2. \/ i_state' \in {0, 1} /\ i_cmd' = "DES"
          \/ i_state' = 3 /\ i_next' = 2 /\ i_cmd' = "PRE" /\ i_count' = 2
      BY <2>2 DEF InitMachine, InitCommand
    <3> QED
      BY <2>1, <3>1, <3>2 DEF Starting
  <2>3. CASE i_state \in {2, 7, 5}
    <3>1. AllClosed'
      BY <1>1, <1>7, <2>3 DEF Starting
    <3>2. i_state' # 5 => ~init_done'
      <4>1. i_state' # 5 => i_state # 5
        BY <2>3 DEF InitMachine, InitCommand
      <4> QED
        BY <1>5, <1>7, <4>1
    <3>3. i_state' = 3 => i_next' # 0
      BY <2>3 DEF InitMachine, InitCommand
    <3> QED
      BY <2>1, <3>1, <3>2, <3>3 DEF Starting
  <2>4. CASE i_state = 3
    <3>1. m_cmd' = "PRE" \/ AllClosed'
      BY <1>1, <1>3, <1>7, <2>4 DEF Starting
    <3>2. i_state' = 3 \/ (i_state' = i_next /\ i_count # 2)
      BY <2>4 DEF InitMachine
    <3>3. i_state' # 3 => AllClosed'
      BY <1>1, <1>7, <2>4, <3>2 DEF Starting
    <3>4. i_cmd' = "NOP" /\ i_next' = i_next
      BY <2>4 DEF InitMachine
    <3>5. i_next # 0
      BY <2>4 DEF Starting
    <3>6. ~init_done'
      <4>1. i_state # 5
        BY <2>4
      <4> QED
        BY <1>5, <1>7, <4>1
    <3> QED
      BY <2>1, <2>4, <3>1, <3>2, <3>3, <3>4, <3>5, <3>6 DEF Starting, Types
  <2> QED
    BY <2>2, <2>3, <2>4 DEF Types
<1> QED
  BY <1>4, <1>6, <1>7

LEMMA ShutStep ==
    ASSUME IInv, Types, InHand, Starting, Shut, RefreshTimer, InitMachine, AccessMachine,
           Chip(m_cmd)
    PROVE  Shut'
<1> USE DEF IInv, States
<1>1. m_cmd = "PRE" \/ (AllClosed /\ m_cmd # "ACT") => AllClosed'
  BY ClosedStep
<1>2. /\ refresh_request' => init_done /\ ~ack_refresh_request
      /\ refresh_request /\ ~ack_refresh_request => refresh_request'
      /\ refresh_request' \in BOOLEAN
  BY TimerStep
<1>3. \A c : active \in Requests => Selected(c) = c
  BY AddressAssumption DEF Selected
<1>4. CASE Idle
  BY <1>1, <1>2, <1>3, <1>4 DEF Idle, Registers, Waits, InHand, InRow, Starting, Shut, Closing, InitMachine, InitCommand, Types
<1>5. CASE Activate
  BY <1>1, <1>2, <1>3, <1>5 DEF Activate, Registers, Waits, InHand, InRow, Starting, Shut, Closing, InitMachine, InitCommand, Types
<1>6. CASE Wait
  <2>1. init_done /\ i_state = 5
    BY <1>6 DEF Wait, Waits, Registers, Starting
  <2>2. m_cmd' \in {"NOP", "DES"}
    BY <1>6 DEF Wait, Selected
  <2>3. CASE counting
    <3>1. /\ m_state' = "WAIT" /\ m_next' = m_next /\ m_count' = m_count - 1
          /\ ack_refresh_request' = ack_refresh_request
      BY <1>6, <2>3 DEF Wait
    <3>2. m_count \in Nat /\ m_count' \in Nat /\ m_count > 1
      BY <2>3, <3>1 DEF counting, Registers
    <3> QED
      BY <1>1, <1>2, <1>6, <2>2, <3>1, <3>2 DEF Wait, Registers, Waits, Shut, Closing
  <2>4. CASE ~counting
    <3>1. /\ m_state' = m_next /\ m_next' = m_next
          /\ ack_refresh_request' = ack_refresh_request
      BY <1>6, <2>4 DEF Wait
    <3>2. m_count # 2
      BY <2>4 DEF counting
    <3> QED
      BY <1>1, <1>2, <1>6, <2>2, <3>1, <3>2 DEF Wait, Registers, Waits, Shut, Closing
  <2> QED
    BY <2>3, <2>4
<1>7. CASE Read
  BY <1>1, <1>2, <1>3, <1>7 DEF Read, Burst, Registers, Waits, InHand, InRow, Starting, Shut, Closing, InitMachine, InitCommand, Types
<1>8. CASE Write
  BY <1>1, <1>2, <1>3, <1>8 DEF Write, Burst, Registers, Waits, InHand, InRow, Starting, Shut, Closing, InitMachine, InitCommand, Types
<1>9. CASE OpenRow
  BY <1>1, <1>2, <1>3, <1>9 DEF OpenRow, Registers, Waits, InHand, InRow, Starting, Shut, Closing, InitMachine, InitCommand, Types
<1>10. CASE Spin
  BY <1>1, <1>2, <1>3, <1>10 DEF Spin, counting, Registers, Waits, InHand, InRow, Starting, Shut, Closing, InitMachine, InitCommand, Types
<1>11. CASE Precharge
  BY <1>1, <1>2, <1>3, <1>11 DEF Precharge, Registers, Waits, InHand, InRow, Starting, Shut, Closing, InitMachine, InitCommand, Types
<1>12. CASE Refresh
  BY <1>1, <1>2, <1>3, <1>12 DEF Refresh, Registers, Waits, InHand, InRow, Starting, Shut, Closing, InitMachine, InitCommand, Types
<1> QED
  BY <1>4, <1>5, <1>6, <1>7, <1>8, <1>9, <1>10, <1>11, <1>12 DEF AccessMachine

LEMMA UndrivenStep ==
    ASSUME IInv, Types, InHand, Starting, Undriven, AccessMachine, Chip(m_cmd)
    PROVE  Undriven'
<1> USE DEF IInv, States
<1>1. /\ m_cmd # "RD" => dq[1]' = NoRequest
      /\ dq[2]' = dq[1] /\ dq[3]' = dq[2]
  BY DEF Chip
<1>2. \A c : Selected(c) \in {c, "DES"}
  BY DEF Selected
<1>3. CASE Idle
  BY <1>1, <1>2, <1>3 DEF Idle, Registers, Waits, InHand, InRow, Starting, Undriven, Types
<1>4. CASE Activate
  BY <1>1, <1>2, <1>4 DEF Activate, Registers, Waits, InHand, InRow, Starting, Undriven, Types
<1>5. CASE Wait
  BY <1>1, <1>2, <1>5 DEF Wait, counting, Registers, Waits, InHand, InRow, Starting, Undriven, Types
<1>6. CASE Read
  BY <1>1, <1>2, <1>6 DEF Read, Burst, Registers, Waits, InHand, InRow, Starting, Undriven, Types
<1>7. CASE Write
  BY <1>1, <1>2, <1>7 DEF Write, Burst, Registers, Waits, InHand, InRow, Starting, Undriven, Types
<1>8. CASE OpenRow
  BY <1>1, <1>2, <1>8 DEF OpenRow, Registers, Waits, InHand, InRow, Starting, Undriven, Types
<1>9. CASE Spin
  BY <1>1, <1>2, <1>9 DEF Spin, counting, Registers, Waits, InHand, InRow, Starting, Undriven, Types
<1>10. CASE Precharge
  BY <1>1, <1>2, <1>10 DEF Precharge, Registers, Waits, InHand, InRow, Starting, Undriven, Types
<1>11. CASE Refresh
  BY <1>1, <1>2, <1>11 DEF Refresh, Registers, Waits, InHand, InRow, Starting, Undriven, Types
<1> QED
  BY <1>3, <1>4, <1>5, <1>6, <1>7, <1>8, <1>9, <1>10, <1>11 DEF AccessMachine

THEOREM PinsInvariant == Spec => []PinsInv
<1>1. Init => PinsInv
  BY InitPins
<1>2. IInv /\ PinsInv /\ [Next]_sdram => PinsInv'
  <2> SUFFICES ASSUME IInv, PinsInv, [Next]_sdram PROVE PinsInv'
    OBVIOUS
  <2>1. CASE Reset
    BY <2>1, ResetPins
  <2>2. ASSUME NEW arriving, arriving = <<>> \/ \E r \in Requests : arriving = <<r>>,
               Clock(arriving)
        PROVE  PinsInv'
    BY <2>2, TypesStep, HandStep, StartingStep, ShutStep, UndrivenStep DEF Clock, PinsInv
  <2>3. CASE UNCHANGED sdram
    BY <2>3 DEF sdram, timer, starting, machine, pins, answers, chip, PinsInv, Types, InHand,
                InRow, Starting, Shut, Closing, Undriven, AllClosed
  <2> QED
    BY <2>1, <2>2, <2>3 DEF Next
<1> QED
  BY <1>1, <1>2, RefreshInvariant, PTL DEF Spec

\* For any banks, rows and requests: no row is opened over an open one, and the
\* chip is refreshed and configured with all banks closed, also when a reset
\* has left rows open.
THEOREM BanksAreClosed == Spec => []BanksClosedFirst
<1>1. PinsInv => BanksClosedFirst
  BY DEF PinsInv, Types, Shut, AllClosed, BanksClosedFirst
<1> QED
  BY <1>1, PinsInvariant, PTL

\* For any requests: no write is driven onto the pins while a word read before
\* is on them.
THEOREM OneDriverOnly == Spec => []OneDriver
<1>1. PinsInv => OneDriver
  BY DEF PinsInv, Undriven, OneDriver
<1> QED
  BY <1>1, PinsInvariant, PTL
-----------------------------------------------------------------------------
(* The clocks between two commands.                                        *)

\* Clocks from the last command of a kind to the one at the pins now.
Ago(k) == IF m_cmd = k THEN 0 ELSE age[k]

\* Long enough ago for anything but a refresh, and for a refresh.
Rested(k) == Ago(k) >= Longest(k)

\* The initialisation: after reset the refresh counter covers whatever the chip
\* was doing; then each wait covers the command before it.
StartingGaps ==
    /\ i_state = 0 => /\ i_cmd \in {"DES", "NOP"}
                      /\ \A k \in Kinds : Ago(k) + refresh_counter >= Longest(k)
    /\ i_state # 0 => Rested("ACT") /\ Rested("WR")
    /\ i_state = 1 => \A k \in Kinds : Rested(k)
    /\ i_state \in {1, 2, 7, 5} => i_cmd \in {"DES", "NOP"}
    /\ i_state \in {2, 7} => Ago("ARF") >= 9 /\ Ago("PRE") >= 1 /\ Rested("LMR")
    /\ i_state = 5 => \A k \in Kinds : Rested(k)
    /\ i_state = 3 =>
          /\ i_next \in {2, 7, 5} /\ i_count >= 1
          /\ i_next \in {2, 7} => Rested("LMR")
          /\ i_cmd = "PRE" => i_next = 2 /\ i_count = 2 /\ \A k \in Kinds : Rested(k)
          /\ i_cmd = "ARF" => i_next \in {2, 7} /\ i_count = 10
                              /\ Ago("ARF") >= 10 /\ Ago("PRE") >= 2
          /\ i_cmd = "LMR" => i_next = 5 /\ i_count = 4
                              /\ Ago("ARF") >= 10 /\ Ago("PRE") >= 2
          /\ i_cmd \in {"NOP", "DES"} /\ i_next \in {2, 7} => Ago("ARF") + i_count >= 9
          /\ i_cmd \in {"NOP", "DES"} /\ i_next = 5 =>
                 Rested("ARF") /\ Rested("PRE") /\ Ago("LMR") + i_count >= 3

\* The accesses: what each state still waits for.
AccessGaps ==
    /\ Rested("LMR")
    /\ Ago("ARF") + (IF m_state = "WAIT" /\ m_next = "IDLE" THEN m_count ELSE 0) >= 10
    /\ Ago("PRE") + (IF m_state = "WAIT" /\ m_next \in {"IDLE", "ARF"}
                       THEN m_count ELSE 0) >= 2
    /\ m_state \in {"RD", "WR", "OPEN"} => Rested("ACT")
    /\ m_state = "WAIT" /\ m_next \in {"RD", "WR"} => Ago("ACT") + m_count >= 3
    /\ \/ m_state \in {"WR", "OPEN"} /\ m_next = "WR"
       \/ Ago("WR") + (IF m_state = "SPIN" \/ (m_state = "WAIT" /\ m_next = "IDLE")
                         THEN m_count ELSE 0) >= 3

Gaps == /\ \A k \in Kinds : age[k] \in Nat
        /\ ~init_done => StartingGaps
        /\ init_done => AccessGaps
        /\ CommandsSpaced


\* One clock of the chip, kind by kind.
LEMMA AgeStep ==
    ASSUME \A k \in Kinds : age[k] \in Nat, NEW cmd, Chip(cmd)
    PROVE  /\ \A k \in Kinds : age'[k] \in Nat /\ age'[k] >= 1
           /\ \A k \in Kinds : cmd = k => age'[k] = 1
           /\ \A k \in Kinds : cmd # k =>
                  age'[k] = IF age[k] < Longest(k) THEN age[k] + 1 ELSE age[k]
BY DEF Chip, Longest

LEMMA ResetGaps == ASSUME Reset, Gaps PROVE Gaps'
<1>1. /\ m_cmd' = "DES" /\ i_cmd' = "DES" /\ i_state' = 0 /\ ~init_done'
      /\ refresh_counter' = PowerUpClocks
  BY DEF Reset, ResetRegisters
<1>2. \A k \in Kinds : age'[k] \in Nat /\ age'[k] >= 1
  BY AgeStep DEF Reset, Gaps
<1>3. \A k \in Kinds : Ago(k)' = age'[k]
  BY <1>1 DEF Ago, Kinds
<1>4. StartingGaps'
  BY <1>1, <1>2, <1>3, PowerUpAssumption, AddressAssumption DEF StartingGaps, Longest
<1>5. CommandsSpaced'
  BY <1>1 DEF CommandsSpaced, Spacing
<1> QED
  BY <1>1, <1>2, <1>4, <1>5 DEF Gaps

LEMMA StartingGapsStep ==
    ASSUME IInv, Types, Gaps, ~init_done, RefreshTimer, InitMachine, AccessMachine, Chip(m_cmd)
    PROVE  Gaps'
<1>1. /\ \A k \in Kinds : age[k] \in Nat
      /\ \A k \in Kinds : age'[k] \in Nat /\ age'[k] >= 1
      /\ \A k \in Kinds : m_cmd = k => age'[k] = 1
      /\ \A k \in Kinds : m_cmd # k =>
             age'[k] = IF age[k] < Longest(k) THEN age[k] + 1 ELSE age[k]
  BY AgeStep DEF Gaps
<1>2. Idle
  BY DEF IInv, Waits, AccessMachine, Idle, Activate, Wait, Read, Write, Burst, OpenRow,
         Spin, Precharge, Refresh
<1>3. m_cmd' = i_cmd /\ m_state' = "IDLE" /\ StartingGaps
  BY <1>2 DEF Idle, Gaps
<1>4. i_state \in {0, 1, 2, 3, 5, 7} /\ i_count \in Nat /\ refresh_counter \in Nat
      /\ i_next \in {0, 2, 5, 7} /\ i_cmd \in {"DES", "NOP", "PRE", "ARF", "LMR"}
  BY DEF Types, IInv, Registers
<1>5. CommandsSpaced'
  BY <1>1, <1>3, <1>4 DEF StartingGaps, Rested, Ago, Longest, Kinds, CommandsSpaced, Spacing
<1>6. init_done' <=> i_state = 5
  BY DEF InitMachine
<1>7. CASE i_state = 5
  <2>1. AccessGaps'
    BY <1>1, <1>3, <1>4, <1>7 DEF StartingGaps, AccessGaps, Rested, Ago, Longest, Kinds
  <2> QED
    BY <1>1, <1>5, <1>6, <1>7, <2>1 DEF Gaps
<1>8. CASE i_state # 5
  <2>1. ASSUME i_state = 0 PROVE StartingGaps'
    <3>1. /\ i_cmd' = "DES" /\ i_cmd \in {"DES", "NOP"}
          /\ i_state' = IF refresh_counter = 0 THEN 1 ELSE 0
          /\ refresh_counter # 0 => refresh_counter' = refresh_counter - 1
      BY <1>3, <2>1 DEF InitMachine, InitCommand, RefreshTimer, StartingGaps
    <3> QED
      BY <1>1, <1>3, <1>4, <2>1, <3>1 DEF StartingGaps, Rested, Ago, Longest, Kinds
  <2>2. ASSUME i_state \in {1, 2, 7} PROVE StartingGaps'
    BY <1>1, <1>3, <1>4, <2>2
       DEF InitMachine, InitCommand, StartingGaps, Rested, Ago, Longest, Kinds
  <2>3. ASSUME i_state = 3 PROVE StartingGaps'
    BY <1>1, <1>3, <1>4, <2>3
       DEF InitMachine, InitCommand, StartingGaps, Rested, Ago, Longest, Kinds
  <2>4. StartingGaps'
    BY <1>4, <1>8, <2>1, <2>2, <2>3
  <2> QED
    BY <1>1, <1>5, <1>6, <1>8, <2>4 DEF Gaps
<1> QED
  BY <1>7, <1>8

\* What the access machine does to the clocks since the last command of each kind.
LEMMA AccessGapsStep ==
    ASSUME IInv, Types, InHand, Gaps, init_done, InitMachine, AccessMachine, Chip(m_cmd)
    PROVE  Gaps'
<1>1. /\ \A k \in Kinds : age[k] \in Nat
      /\ \A k \in Kinds : age'[k] \in Nat /\ age'[k] >= 1
      /\ \A k \in Kinds : m_cmd = k => age'[k] = 1
      /\ \A k \in Kinds : m_cmd # k =>
             age'[k] = IF age[k] < Longest(k) THEN age[k] + 1 ELSE age[k]
  BY AgeStep DEF Gaps
<1>2. init_done' /\ AccessGaps
  BY DEF InitMachine, Gaps
<1>3. \A c : active \in Requests => Selected(c) = c
  BY AddressAssumption DEF Selected
<1>4. \A c : Selected(c) \in {c, "DES"}
  BY DEF Selected
<1> SUFFICES AccessGaps' /\ CommandsSpaced'
  BY <1>1, <1>2 DEF Gaps
<1> USE DEF IInv, States, Registers, Waits, AccessGaps, Rested, Ago, Longest, Kinds,
            CommandsSpaced, Spacing
<1>5. CASE Idle
  BY <1>1, <1>2, <1>5 DEF Idle
<1>6. CASE Activate
  BY <1>1, <1>2, <1>3, <1>6 DEF Activate, InHand
<1>7. CASE Wait
  BY <1>1, <1>2, <1>4, <1>7 DEF Wait, counting
<1>8. CASE Read
  BY <1>1, <1>2, <1>4, <1>8 DEF Read, Burst, InHand
<1>9. CASE Write
  BY <1>1, <1>2, <1>4, <1>9 DEF Write, Burst, InHand
<1>10. CASE OpenRow
  <2>1. \/ m_state' = "WAIT" /\ m_next' = "IDLE" /\ m_count' = 2
        \/ m_state' \in {"OPEN", "RD", "WR"} /\ m_next' = m_next
        \/ m_state' = "SPIN" /\ m_next' = "IDLE" /\ m_count' = 2
    BY <1>10 DEF OpenRow
  <2>2. m_cmd' \in {"NOP", "DES"}
    BY <1>4, <1>10 DEF OpenRow
  <2>3. m_state' \in {"RD", "WR"} => m_next' = m_state'
    BY HandStep DEF InHand
  <2>4. m_state = "OPEN" /\ CommandsSpaced'
    BY <1>10, <2>2 DEF OpenRow
  <2>5. CASE m_state' = "WAIT"
    BY <1>1, <1>2, <2>1, <2>2, <2>4, <2>5
  <2>6. CASE m_state' \in {"OPEN", "RD", "WR"}
    BY <1>1, <1>2, <2>1, <2>2, <2>3, <2>4, <2>6
  <2>7. CASE m_state' = "SPIN"
    BY <1>1, <1>2, <2>1, <2>2, <2>4, <2>7
  <2> QED
    BY <2>1, <2>5, <2>6, <2>7
<1>11. CASE Spin
  BY <1>1, <1>2, <1>4, <1>11 DEF Spin, counting
<1>12. CASE Precharge
  BY <1>1, <1>2, <1>4, <1>12 DEF Precharge
<1>13. CASE Refresh
  BY <1>1, <1>2, <1>13 DEF Refresh
<1> QED
  BY <1>5, <1>6, <1>7, <1>8, <1>9, <1>10, <1>11, <1>12, <1>13 DEF AccessMachine

\* For any requests and resets, at any interval of refreshes: the chip gets the
\* clocks it asks for between any two commands, over every path of the two
\* machines from one to the other.
THEOREM CommandsAreSpaced == Spec => []CommandsSpaced
<1>1. Init => Gaps
  <2> SUFFICES ASSUME Init PROVE Gaps
    OBVIOUS
  <2>1. StartingGaps
    BY AddressAssumption DEF Init, StartingGaps, Rested, Ago, Longest, Kinds
  <2> QED
    BY <2>1 DEF Init, Gaps, CommandsSpaced, Spacing, Longest, Kinds
<1>2. IInv /\ PinsInv /\ Gaps /\ [Next]_sdram => Gaps'
  <2> SUFFICES ASSUME IInv, PinsInv, Gaps, [Next]_sdram PROVE Gaps'
    OBVIOUS
  <2>1. CASE Reset
    BY <2>1, ResetGaps
  <2>2. ASSUME NEW arriving, Clock(arriving) PROVE Gaps'
    <3>1. CASE init_done
      BY <2>2, <3>1, AccessGapsStep DEF Clock, PinsInv
    <3>2. CASE ~init_done
      BY <2>2, <3>2, StartingGapsStep DEF Clock, PinsInv
    <3> QED
      BY <3>1, <3>2
  <2>3. CASE UNCHANGED sdram
    BY <2>3 DEF sdram, timer, starting, machine, pins, chip, Gaps, StartingGaps, AccessGaps,
                Rested, Ago, CommandsSpaced
  <2> QED
    BY <2>1, <2>2, <2>3 DEF Next
<1>3. Gaps => CommandsSpaced
  BY DEF Gaps
<1> QED
  BY <1>1, <1>2, <1>3, RefreshInvariant, PinsInvariant, PTL DEF Spec

-----------------------------------------------------------------------------
(* The promise to the interconnect.                                        *)

\* f_pop: the request in hand is still at the head of the FIFO, or, during a
\* burst, has just been performed.
Popping ==
    /\ Len(fifo) <= 2 /\ \A n \in 1 .. 3 : rd_valid[n] \in BOOLEAN
    /\ f_pop \in BOOLEAN /\ (f_pop => m_state \in {"ACT", "RD", "WR"})
    /\ m_state = "ACT" => f_pop /\ fifo # <<>> /\ active = Head(fifo)
    /\ m_cmd = "RD" /\ Busy => f_pop

\* The row of the request in hand is open, or is opened now.
RowOpen ==
    InRow =>
        \/ m_state = "WAIT" /\ m_cmd = "ACT" /\ m_bank = active.bank /\ m_addr = active.row
        \/ m_cmd \notin {"ACT", "PRE"} /\ open[active.bank] = active.row

PortInv == Popping /\ RowOpen

LEMMA RequestRecords ==
    \A r \in Requests :
        /\ r = [rnw |-> r.rnw, bank |-> r.bank, row |-> r.row, col |-> r.col]
        /\ r # NoRequest
BY AddressAssumption DEF Requests

\* What arrives is at most one request, and the FIFO has room for it.
LEMMA FifoStep ==
    ASSUME Types, Popping, NEW arriving, arriving = <<>> \/ \E r \in Requests : arriving = <<r>>,
           InputFifo(arriving)
    PROVE  /\ arriving \in Seq(Requests)
           /\ Len(fifo') <= 2
           /\ fifo # <<>> => /\ Head(fifo) \in Requests /\ Tail(fifo) \in Seq(Requests)
                             /\ fifo = <<Head(fifo)>> \o Tail(fifo)
                             /\ Head(fifo \o arriving) = Head(fifo)
                             /\ fifo \o arriving # <<>>
           /\ f_select => fifo # <<>> /\ fifo' = Tail(fifo) \o arriving
           /\ ~f_select => fifo' = fifo \o arriving
<1>1. arriving \in Seq(Requests) /\ Len(arriving) <= 1 /\ (Len(fifo) = 2 => Len(arriving) = 0)
  <2>1. CASE arriving = <<>>
    BY <2>1
  <2>2. ASSUME NEW r \in Requests, arriving = <<r>>
        PROVE  arriving \in Seq(Requests) /\ Len(arriving) = 1 /\ arriving # <<>>
    BY <2>2
  <2> QED
    BY <2>1, <2>2 DEF InputFifo
<1>2. fifo \in Seq(Requests) /\ Len(fifo) <= 2
  BY DEF Types, Popping
<1>3. ASSUME fifo # <<>>
      PROVE  /\ Head(fifo) \in Requests /\ Tail(fifo) \in Seq(Requests)
             /\ Len(Tail(fifo)) = Len(fifo) - 1
             /\ fifo = <<Head(fifo)>> \o Tail(fifo)
             /\ Head(fifo \o arriving) = Head(fifo)
             /\ fifo \o arriving # <<>>
  BY <1>1, <1>2, <1>3
<1>4. f_select => fifo # <<>> /\ fifo' = Tail(fifo) \o arriving
  BY DEF f_select, pending, InputFifo
<1>5. ~f_select => fifo' = fifo \o arriving
  BY DEF InputFifo
<1>6. PICK f \in Nat, a \in Nat : Len(fifo) = f /\ Len(arriving) = a
  BY <1>1, <1>2
<1>7. f <= 2 /\ a <= 1 /\ (f = 2 => a = 0)
  BY <1>1, <1>2, <1>6
<1>8. f + a <= 2
  BY <1>7
<1>9. Len(fifo') <= 2
  <2>1. CASE f_select
    <3>1. Len(Tail(fifo) \o arriving) = Len(fifo) - 1 + Len(arriving)
      BY <1>1, <1>3, <1>4, <2>1
    <3> QED
      BY <1>1, <1>2, <1>4, <1>6, <2>1, <3>1
  <2>2. CASE ~f_select
    <3>1. Len(fifo \o arriving) = Len(fifo) + Len(arriving)
      BY <1>1, <1>2
    <3> QED
      BY <1>5, <1>6, <1>8, <2>2, <3>1
  <2> QED
    BY <2>1, <2>2
<1> QED
  BY <1>1, <1>3, <1>4, <1>5, <1>9

LEMMA PoppingStep ==
    ASSUME IInv, Types, InHand, Undriven, Popping, AccessMachine, MarkAnswers,
           NEW arriving, arriving = <<>> \/ \E r \in Requests : arriving = <<r>>,
           InputFifo(arriving)
    PROVE  Popping'
<1>1. /\ Len(fifo') <= 2
      /\ fifo # <<>> => Head(fifo \o arriving) = Head(fifo) /\ fifo \o arriving # <<>>
      /\ ~f_select => fifo' = fifo \o arriving
  BY FifoStep
<1>2. \A n \in 1 .. 3 : rd_valid'[n] \in BOOLEAN
  <2>1. rd_valid[1] \in BOOLEAN /\ rd_valid[2] \in BOOLEAN
    BY DEF Popping
  <2>2. rd_valid'[1] = (m_cmd = "RD") /\ rd_valid'[2] = rd_valid[1] /\ rd_valid'[3] = rd_valid[2]
    BY DEF MarkAnswers
  <2>3. \A n \in 1 .. 3 : n = 1 \/ n = 2 \/ n = 3
    OBVIOUS
  <2>4. rd_valid'[1] \in BOOLEAN /\ rd_valid'[2] \in BOOLEAN /\ rd_valid'[3] \in BOOLEAN
    BY <2>1, <2>2, Zenon
  <2> QED
    BY <2>3, <2>4, Zenon
<1>3. \A c : Selected(c) \in {c, "DES"}
  BY DEF Selected
<1> USE DEF IInv, States, Popping, Busy
<1>4. CASE Idle
  <2>1. ~f_select
    BY <1>4 DEF Idle, f_select
  <2>2. /\ m_state' \in {"IDLE", "PRE", "ACT"}
        /\ f_pop' \in BOOLEAN /\ (f_pop' <=> m_state' = "ACT")
        /\ m_state' = "ACT" => fifo # <<>> /\ active' = Head(fifo)
    BY <1>4 DEF Idle, Take, Keep
  <2> QED
    BY <1>1, <1>2, <2>1, <2>2
<1>5. CASE Activate \/ Wait \/ Spin \/ Precharge \/ Refresh
  <2>1. f_pop' = FALSE /\ m_state' # "ACT" /\ m_cmd' # "RD"
    BY <1>3, <1>5 DEF Activate, Wait, Spin, Precharge, Refresh, Keep, Registers, Waits
  <2> QED
    BY <1>1, <1>2, <2>1
<1>6. CASE Read \/ Write
  <2>1. /\ m_state' # "ACT" /\ f_pop' \in BOOLEAN
        /\ f_pop' => m_state' = m_state /\ m_state \in {"RD", "WR"}
        /\ ~f_pop' => m_state' \in {"WAIT", "OPEN"}
        /\ m_state' = "WAIT" => m_next' = "IDLE"
    BY <1>6 DEF Read, Write, Burst, Take, Keep
  <2> QED
    BY <1>1, <1>2, <2>1
<1>7. CASE OpenRow
  <2>1. /\ m_state' # "ACT" /\ f_pop' \in BOOLEAN /\ m_cmd' # "RD"
        /\ f_pop' => m_state' \in {"RD", "WR"}
    BY <1>3, <1>7 DEF OpenRow, Take, Keep
  <2> QED
    BY <1>1, <1>2, <2>1
<1> QED
  BY <1>4, <1>5, <1>6, <1>7 DEF AccessMachine

\* The chip keeps the row open, and the requests of a burst are all in it.
LEMMA RowStep ==
    ASSUME IInv, Types, InHand, RowOpen, AccessMachine, Chip(m_cmd)
    PROVE  RowOpen'
<1>1. active \in Requests => active.bank \in Banks
  BY RequestFields
<1>2. InRow => active \in Requests
  BY DEF InHand
<1>3. InRow => open'[active.bank] = active.row
  BY <1>1, <1>2 DEF Chip, RowOpen
<1>4. \A c : active \in Requests => Selected(c) = c
  BY AddressAssumption DEF Selected
<1> USE DEF IInv, States, InRow
<1>5. CASE Idle
  BY <1>5 DEF Idle, RowOpen, Registers, Waits
<1>6. CASE Activate
  BY <1>4, <1>6 DEF Activate, RowOpen, InHand, Keep
<1>7. CASE Wait
  BY <1>2, <1>3, <1>4, <1>7 DEF Wait, RowOpen, Keep, Registers, Waits
<1>8. CASE Read \/ Write
  <2>1. m_cmd' \notin {"ACT", "PRE"}
    BY <1>8 DEF Read, Write, Burst, Selected
  <2>2. active' = active \/ (active'.bank = active.bank /\ active'.row = active.row)
    BY <1>8 DEF Read, Write, Burst, Take, Keep, pending, SameRow
  <2>3. InRow
    BY <1>8 DEF Read, Write, Burst
  <2> QED
    BY <1>3, <2>1, <2>2, <2>3 DEF RowOpen
<1>9. CASE OpenRow
  <2>1. m_cmd' \notin {"ACT", "PRE"}
    BY <1>9 DEF OpenRow, Selected
  <2>2. active' = active \/ (active'.bank = active.bank /\ active'.row = active.row)
    BY <1>9 DEF OpenRow, Take, Keep, pending, SameRow
  <2>3. InRow
    BY <1>9 DEF OpenRow
  <2> QED
    BY <1>3, <2>1, <2>2, <2>3 DEF RowOpen
<1>10. CASE Spin \/ Precharge \/ Refresh
  BY <1>10 DEF Spin, Precharge, Refresh, RowOpen, Registers, Waits
<1> QED
  BY <1>5, <1>6, <1>7, <1>8, <1>9, <1>10 DEF AccessMachine

-----------------------------------------------------------------------------
(* One clock of the controller is one of the port.                         *)

\* In the row that is open the pins ask for what was requested.
LEMMA PinsAsk ==
    ASSUME IInv, Types, InHand, RowOpen, Chip(m_cmd), Read \/ Write
    PROVE  /\ m_cmd' \in {"RD", "WR", "NOP"} /\ (m_cmd' = "NOP" <=> f_pop /\ ~pending)
           /\ m_cmd' # "NOP" => AtPins' = cell
           /\ cell \in Requests
<1>1. /\ active \in Requests /\ active.rnw = (m_next = "RD") /\ m_next = m_state
      /\ m_state \in {"RD", "WR"}
  BY DEF InHand, InRow, Read, Write, Burst
<1>2. pending => Head(fifo) \in Requests /\ SameRow(active, Head(fifo))
  BY DEF pending, Types
<1>3. /\ cell \in Requests /\ cell.bank = active.bank /\ cell.row = active.row
      /\ cell.rnw = (m_state = "RD")
  <2>1. CASE f_select
    <3>1. cell = Head(fifo)
      BY <2>1 DEF cell
    <3>2. pending
      BY <2>1 DEF f_select
    <3> QED
      BY <1>1, <1>2, <3>1, <3>2 DEF SameRow
  <2>2. CASE ~f_select
    BY <1>1, <2>2 DEF cell
  <2> QED
    BY <2>1, <2>2
<1>4. open'[active.bank] = active.row
  BY <1>1, RequestFields DEF Chip, RowOpen, InRow
<1>5. Selected(m_state) = m_state /\ Selected("NOP") = "NOP"
  BY <1>1, AddressAssumption DEF Selected
<1>6. /\ m_bank' = cell.bank /\ m_addr' = cell.col
      /\ m_cmd' = IF ~pending /\ f_pop THEN "NOP" ELSE m_state
  BY <1>1, <1>5 DEF Read, Write, Burst
<1>7. ASSUME m_cmd' # "NOP" PROVE AtPins' = cell
  <2>1. m_cmd' = m_state
    BY <1>6, <1>7
  <2>2. AtPins' = [rnw |-> m_cmd' = "RD", bank |-> m_bank', row |-> open'[m_bank'], col |-> m_addr']
    BY DEF AtPins
  <2>3. AtPins' = [rnw |-> cell.rnw, bank |-> cell.bank, row |-> cell.row, col |-> cell.col]
    BY <1>3, <1>4, <1>6, <2>1, <2>2
  <2> QED
    BY <1>3, <2>3, RequestRecords
<1> QED
  BY <1>1, <1>3, <1>6, <1>7

\* What is performed is the oldest of the requests taken; what arrives joins them.
LEMMA PerformStep ==
    ASSUME IInv, Types, InHand, Popping, RowOpen, AccessMachine, Chip(m_cmd),
           NEW arriving, arriving = <<>> \/ \E r \in Requests : arriving = <<r>>,
           InputFifo(arriving)
    PROVE  /\ m_cmd' \in {"RD", "WR"} =>
                  /\ Outstanding # <<>> /\ AtPins' = Head(Outstanding)
                  /\ AtPins' \in Requests
                  /\ Outstanding' = Tail(Outstanding) \o arriving
           /\ m_cmd' \notin {"RD", "WR"} => Outstanding' = Outstanding \o arriving
<1>1. /\ arriving \in Seq(Requests) /\ fifo \in Seq(Requests)
      /\ fifo # <<>> => /\ Head(fifo) \in Requests /\ Tail(fifo) \in Seq(Requests)
                        /\ fifo = <<Head(fifo)>> \o Tail(fifo)
      /\ f_select => fifo # <<>> /\ fifo' = Tail(fifo) \o arriving
      /\ ~f_select => fifo' = fifo \o arriving
  BY FifoStep DEF Types
<1>2. ASSUME active \in Requests
      PROVE  /\ <<active>> \o fifo # <<>> /\ Head(<<active>> \o fifo) = active
             /\ Tail(<<active>> \o fifo) = fifo
             /\ (<<active>> \o fifo) \o arriving = <<active>> \o (fifo \o arriving)
  BY <1>1, <1>2
<1>3. ASSUME f_select
      PROVE  <<Head(fifo)>> \o (Tail(fifo) \o arriving) = fifo \o arriving
  BY <1>1, <1>3
<1>4. \A c : Selected(c) \in {c, "DES"}
  BY DEF Selected
<1> USE DEF IInv, States
<1>5. CASE Idle
  <2>1. ~Busy /\ ~f_select
    BY <1>5 DEF Idle, Busy, Popping, f_select
  <2>2. m_state' \in {"IDLE", "PRE", "ACT"} /\ (m_state' = "ACT" => f_pop')
    BY <1>5 DEF Idle, Take
  <2>3. m_cmd' \notin {"RD", "WR"}
    BY <1>5 DEF Idle, Types
  <2> QED
    BY <1>1, <2>1, <2>2, <2>3 DEF Outstanding, Busy
<1>6. CASE Activate
  <2>1. f_pop /\ f_select /\ active = Head(fifo) /\ active \in Requests
    BY <1>6, AddressAssumption DEF Activate, Popping, InHand, f_select, pending, SameRow
  <2>2. /\ m_state' = "WAIT" /\ m_next' \in {"RD", "WR"} /\ active' = active /\ f_pop' = FALSE
        /\ m_cmd' \notin {"RD", "WR"}
    BY <1>4, <1>6 DEF Activate, Keep
  <2>3. Outstanding = fifo /\ Outstanding' = <<active>> \o fifo'
    BY <2>1, <2>2 DEF Outstanding, Busy
  <2> QED
    BY <1>1, <1>3, <2>1, <2>2, <2>3
<1>7. CASE Wait
  <2>1. /\ ~f_pop /\ ~f_select /\ f_pop' = FALSE /\ active' = active
        /\ m_cmd' \notin {"RD", "WR"} /\ m_next' = m_next
        /\ m_state' = "WAIT" \/ m_state' = m_next
    BY <1>4, <1>7 DEF Wait, Popping, f_select, Keep
  <2>2. Busy' <=> Busy
    BY <1>7, <2>1 DEF Busy, Wait, Registers
  <2>3. Busy => active \in Requests
    BY <1>7 DEF Busy, InHand, InRow, Wait
  <2> QED
    BY <1>1, <1>2, <2>1, <2>2, <2>3 DEF Outstanding
<1>8. CASE Read \/ Write
  <2>1. /\ m_cmd' \in {"RD", "WR", "NOP"} /\ (m_cmd' = "NOP" <=> f_pop /\ ~pending)
        /\ m_cmd' # "NOP" => AtPins' = cell
        /\ cell \in Requests
    BY <1>8, PinsAsk
  <2>2. /\ f_pop' => m_state' = m_state
        /\ ~f_pop' => m_state' = "OPEN" \/ (m_state' = "WAIT" /\ m_next' = "IDLE")
        /\ f_pop' \in BOOLEAN /\ m_state \in {"RD", "WR"}
    BY <1>8 DEF Read, Write, Burst, Take, Keep
  <2>3. Outstanding' = fifo'
    BY <2>2 DEF Outstanding, Busy
  <2>4. Outstanding = IF f_pop THEN fifo ELSE <<active>> \o fifo
    BY <2>2 DEF Outstanding, Busy
  <2>5. CASE f_pop /\ pending
    <3>1. f_select /\ cell = Head(fifo)
      BY <2>5 DEF f_select, cell
    <3> QED
      BY <1>1, <2>1, <2>3, <2>4, <2>5, <3>1
  <2>6. CASE f_pop /\ ~pending
    <3>1. ~f_select
      BY <2>6 DEF f_select
    <3> QED
      BY <1>1, <2>1, <2>3, <2>4, <2>6, <3>1
  <2>7. CASE ~f_pop
    <3>1. ~f_select /\ cell = active
      BY <2>7 DEF f_select, cell
    <3> QED
      BY <1>1, <1>2, <2>1, <2>3, <2>4, <2>7, <3>1
  <2> QED
    BY <2>5, <2>6, <2>7 DEF Popping
<1>9. CASE OpenRow
  <2>1. ~f_pop /\ ~f_select /\ ~Busy /\ m_cmd' \notin {"RD", "WR"}
    BY <1>4, <1>9 DEF OpenRow, Popping, f_select, Busy
  <2>2. \/ m_state' \in {"RD", "WR"} /\ f_pop'
        \/ m_state' \in {"OPEN", "SPIN"}
        \/ m_state' = "WAIT" /\ m_next' = "IDLE"
    BY <1>9 DEF OpenRow, Take
  <2> QED
    BY <1>1, <2>1, <2>2 DEF Outstanding, Busy
<1>10. CASE Spin \/ Precharge \/ Refresh
  <2>1. ~f_pop /\ ~f_select /\ ~Busy /\ m_cmd' \notin {"RD", "WR"}
    BY <1>4, <1>10 DEF Spin, Precharge, Refresh, Popping, f_select, Busy
  <2>2. m_state' \in {"SPIN", "PRE"} \/ (m_state' = "WAIT" /\ m_next' \in {"IDLE", "ARF"})
    BY <1>10 DEF Spin, Precharge, Refresh, Registers, Waits
  <2> QED
    BY <1>1, <2>1, <2>2 DEF Outstanding, Busy
<1> QED
  BY <1>5, <1>6, <1>7, <1>8, <1>9, <1>10 DEF AccessMachine

\* The read at the pins, if there is one.
AskedNow == IF m_cmd = "RD" THEN <<AtPins>> ELSE <<>>

\* Of what is on its way, the oldest read comes next.
LEMMA AnswerStep ==
    ASSUME Popping, MarkAnswers, Chip(m_cmd)
    PROVE  /\ rd_valid[3] => /\ OnTheWay # <<>> /\ za_data' = Head(OnTheWay)
                             /\ OnTheWay' = Tail(OnTheWay) \o AskedNow'
           /\ ~rd_valid[3] => OnTheWay' = OnTheWay \o AskedNow'
           /\ Len(OnTheWay') \in Nat
           /\ Len(OnTheWay') <= IF m_cmd' = "RD" THEN 4 ELSE 3
<1> DEFINE S == {dq[1], dq[2], dq[3], AtPins, AtPins'}
           stage(n) == IF rd_valid[n] THEN <<dq[n]>> ELSE <<>>
           pin == AskedNow
           read == AskedNow'
<1>1. /\ stage(1) \in Seq(S) /\ stage(2) \in Seq(S) /\ stage(3) \in Seq(S)
      /\ pin \in Seq(S) /\ read \in Seq(S)
      /\ Len(stage(1)) <= 1 /\ Len(stage(2)) <= 1 /\ Len(pin) <= 1
      /\ rd_valid[3] => stage(3) = <<dq[3]>>
      /\ ~rd_valid[3] => stage(3) = <<>>
  <2>1. \A e \in S : \A b :
            /\ (IF b THEN <<e>> ELSE <<>>) \in Seq(S)
            /\ Len(IF b THEN <<e>> ELSE <<>>) <= 1
    <3> HIDE DEF S
    <3> SUFFICES ASSUME NEW e \in S, NEW b
                 PROVE  /\ (IF b THEN <<e>> ELSE <<>>) \in Seq(S)
                        /\ Len(IF b THEN <<e>> ELSE <<>>) <= 1
      OBVIOUS
    <3>1. <<e>> \in Seq(S) /\ <<>> \in Seq(S) /\ Len(<<e>>) <= 1 /\ Len(<<>>) <= 1
      OBVIOUS
    <3> QED
      BY <3>1
  <2>2. {dq[1], dq[2], dq[3], AtPins, AtPins'} \subseteq S
    OBVIOUS
  <2> HIDE DEF S
  <2>3. stage(1) \in Seq(S) /\ Len(stage(1)) <= 1
    BY <2>1, <2>2
  <2>4. stage(2) \in Seq(S) /\ Len(stage(2)) <= 1
    BY <2>1, <2>2
  <2>5. stage(3) \in Seq(S) /\ Len(stage(3)) <= 1
    BY <2>1, <2>2
  <2>6. pin \in Seq(S) /\ Len(pin) <= 1
    BY <2>1, <2>2 DEF AskedNow
  <2>7. read \in Seq(S) /\ Len(read) <= 1
    BY <2>1, <2>2 DEF AskedNow
  <2> QED
    BY <2>3, <2>4, <2>5, <2>6, <2>7
<1>2. /\ stage(3)' = stage(2) /\ stage(2)' = stage(1)
      /\ stage(1)' = pin
  BY DEF MarkAnswers, Chip, AskedNow
<1>3. OnTheWay = stage(3) \o stage(2) \o stage(1) \o pin
  BY DEF OnTheWay, AskedNow
<1>4. OnTheWay' = stage(3)' \o stage(2)' \o stage(1)' \o read
  BY DEF OnTheWay, AskedNow
<1>5. OnTheWay' = stage(2) \o stage(1) \o pin \o read
  BY <1>2, <1>4
<1>6. za_data' = dq[3] /\ dq[3] \in S
  BY DEF MarkAnswers
<1> HIDE DEF S, stage, pin, read
<1>7. ASSUME NEW a \in Seq(S), NEW b \in Seq(S), NEW c \in Seq(S), NEW d \in Seq(S)
      PROVE  /\ a \o b \o c \o d = a \o (b \o c \o d)
             /\ a \o b \o c \o d \in Seq(S)
             /\ Len(a \o b \o c \o d) = Len(a) + Len(b) + Len(c) + Len(d)
  OBVIOUS
<1>8. ASSUME NEW e \in S, NEW b \in Seq(S)
      PROVE  <<e>> \o b # <<>> /\ Head(<<e>> \o b) = e /\ Tail(<<e>> \o b) = b
  OBVIOUS
<1> DEFINE rest == stage(2) \o stage(1) \o pin
<1>9. rest \in Seq(S) /\ OnTheWay = stage(3) \o rest /\ OnTheWay' = rest \o read
      /\ <<>> \o rest = rest /\ Len(OnTheWay') = Len(rest) + Len(read)
      /\ Len(rest) = Len(stage(2)) + Len(stage(1)) + Len(pin)
  <2>1. rest \in Seq(S) /\ Len(rest) = Len(stage(2)) + Len(stage(1)) + Len(pin)
    BY <1>1
  <2>2. OnTheWay = stage(3) \o rest
    <3>1. PICK a, b, c, d \in Seq(S) : a = stage(3) /\ b = stage(2) /\ c = stage(1) /\ d = pin
      BY <1>1
    <3>2. a \o b \o c \o d = a \o (b \o c \o d)
      OBVIOUS
    <3> QED
      BY <1>3, <3>1, <3>2
  <2> HIDE DEF rest
  <2>3. <<>> \o rest = rest /\ Len(rest \o read) = Len(rest) + Len(read)
    BY <1>1, <2>1
  <2> QED
    BY <1>5, <2>1, <2>2, <2>3 DEF rest
<1> HIDE DEF rest
<1>10. Len(OnTheWay') \in Nat /\ Len(OnTheWay') <= IF m_cmd' = "RD" THEN 4 ELSE 3
  <2>1. PICK l1, l2, l3, l4 \in Nat :
            l1 = Len(stage(2)) /\ l2 = Len(stage(1)) /\ l3 = Len(pin) /\ l4 = Len(read)
    BY <1>1
  <2>2. l1 <= 1 /\ l2 <= 1 /\ l3 <= 1 /\ l4 <= IF m_cmd' = "RD" THEN 1 ELSE 0
    BY <1>1, <2>1 DEF read, AskedNow
  <2>3. Len(OnTheWay') = l1 + l2 + l3 + l4
    BY <1>9, <2>1
  <2> QED
    BY <2>2, <2>3
<1>11. CASE rd_valid[3]
  <2>1. OnTheWay = <<dq[3]>> \o rest
    BY <1>1, <1>9, <1>11
  <2> QED
    BY <1>6, <1>8, <1>9, <1>10, <1>11, <2>1 DEF read
<1>12. CASE ~rd_valid[3]
  BY <1>1, <1>9, <1>10, <1>12 DEF read
<1> QED
  BY <1>11, <1>12

\* The reads noted: at most 7, as the request in hand has left the queue when its
\* command is at the pins.
Room == Len(OnTheWay) \in Nat /\ Len(OnTheWay) <= IF m_cmd = "RD" THEN 4 ELSE 3

LEMMA FewNoted ==
    ASSUME Types, InHand, Popping, Room
    PROVE  /\ Len(Outstanding) <= 3
           /\ Port!Noted <= 7
<1>1. /\ Outstanding \in Seq(Requests)
      /\ Len(Outstanding) <= IF m_cmd = "RD" THEN 2 ELSE 3
  <2>1. fifo \in Seq(Requests) /\ Len(fifo) \in Nat /\ Len(fifo) <= 2
    BY DEF Types, Popping
  <2>2. CASE Busy /\ ~f_pop
    <3>1. active \in Requests
      BY <2>2 DEF Busy, InHand, InRow
    <3>2. <<active>> \o fifo \in Seq(Requests) /\ Len(<<active>> \o fifo) = 1 + Len(fifo)
      BY <2>1, <3>1
    <3>3. m_cmd # "RD"
      BY <2>2 DEF Popping
    <3> QED
      BY <2>1, <2>2, <3>2, <3>3 DEF Outstanding
  <2>3. CASE ~(Busy /\ ~f_pop)
    BY <2>1, <2>3 DEF Outstanding
  <2> QED
    BY <2>2, <2>3
<1> DEFINE reads == {i \in DOMAIN Outstanding : Outstanding[i].rnw}
<1>2. Cardinality(reads) \in Nat /\ Cardinality(reads) <= Len(Outstanding)
  <2>1. DOMAIN Outstanding = 1 .. Len(Outstanding) /\ Len(Outstanding) \in Nat
    BY <1>1
  <2>2. IsFiniteSet(1 .. Len(Outstanding)) /\ Cardinality(1 .. Len(Outstanding)) = Len(Outstanding)
    <3>1. PICK n \in Nat : n = Len(Outstanding)
      BY <2>1
    <3>2. IsFiniteSet(1 .. n) /\ Cardinality(1 .. n) = n
      BY FS_Interval
    <3> QED
      BY <3>1, <3>2
  <2>3. reads \in SUBSET (1 .. Len(Outstanding))
    BY <2>1
  <2> HIDE DEF reads
  <2>4. IsFiniteSet(reads) /\ Cardinality(reads) <= Len(Outstanding)
    BY <2>2, <2>3, FS_Subset
  <2> QED
    BY <2>4, FS_CardinalityType
<1>3. PICK a \in Nat : a = IF (IF za_valid THEN za_data ELSE NoRequest) # NoRequest THEN 1 ELSE 0
  OBVIOUS
<1>4. a <= 1
  BY <1>3
<1>5. Port!Noted = Cardinality(reads) + Len(OnTheWay) + a
  <2>1. \A S : Port!Cardinality(S) = Cardinality(S)
    BY DEF Port!Cardinality, Cardinality
  <2>2. Port!Noted = Port!Cardinality(reads) + Len(OnTheWay)
                         + (IF (IF za_valid THEN za_data ELSE NoRequest) # NoRequest THEN 1 ELSE 0)
    BY DEF Port!Noted
  <2> QED
    BY <1>3, <2>1, <2>2
<1> HIDE DEF reads
<1>6. PICK c \in Nat, o \in Nat, w \in Nat :
          c = Cardinality(reads) /\ o = Len(Outstanding) /\ w = Len(OnTheWay)
  BY <1>1, <1>2 DEF Room
<1>7. /\ c <= o /\ o <= IF m_cmd = "RD" THEN 2 ELSE 3
      /\ w <= IF m_cmd = "RD" THEN 4 ELSE 3
  BY <1>1, <1>2, <1>6 DEF Room
<1> QED
  BY <1>4, <1>5, <1>6, <1>7

LEMMA NoAnswers ==
    /\ \A v : v = <<FALSE, FALSE, FALSE>> =>
           v[1] = FALSE /\ v[2] = FALSE /\ v[3] = FALSE /\ \A n \in 1 .. 3 : v[n] \in BOOLEAN
    /\ <<>> \o <<>> \o <<>> \o <<>> = <<>>
<1>1. ASSUME NEW v, v = <<FALSE, FALSE, FALSE>>
      PROVE  v[1] = FALSE /\ v[2] = FALSE /\ v[3] = FALSE /\ \A n \in 1 .. 3 : v[n] \in BOOLEAN
  <2>1. v[1] = FALSE /\ v[2] = FALSE /\ v[3] = FALSE
    BY <1>1
  <2>2. \A n \in 1 .. 3 : n = 1 \/ n = 2 \/ n = 3
    OBVIOUS
  <2> QED
    BY <2>1, <2>2, Zenon
<1>2. <<>> \o <<>> = <<>>
  OBVIOUS
<1> QED
  BY <1>1, <1>2

LEMMA ClockIsPortClock ==
    ASSUME IInv, PinsInv, PortInv, PinsInv', PortInv',
           NEW arriving, arriving = <<>> \/ \E r \in Requests : arriving = <<r>>,
           Clock(arriving)
    PROVE  \E performs, returns \in BOOLEAN : Port!PortClock(arriving, performs, returns)
<1> DEFINE performs == m_cmd' \in {"RD", "WR"}
           returns == rd_valid[3]
           Answered == IF za_valid THEN za_data ELSE NoRequest
<1>1. /\ performs =>
             /\ Outstanding # <<>> /\ AtPins' = Head(Outstanding)
             /\ AtPins' \in Requests
             /\ Outstanding' = Tail(Outstanding) \o arriving
      /\ ~performs => Outstanding' = Outstanding \o arriving
  BY PerformStep DEF PinsInv, PortInv, Clock
<1>2. /\ returns => /\ OnTheWay # <<>> /\ za_data' = Head(OnTheWay)
                    /\ OnTheWay' = Tail(OnTheWay) \o AskedNow'
      /\ ~returns => OnTheWay' = OnTheWay \o AskedNow'
      /\ Room'
  BY AnswerStep DEF PortInv, Clock, Room
<1>3. returns \in BOOLEAN /\ za_valid' = returns
  BY DEF PortInv, Popping, Clock, MarkAnswers
<1>4. Len(Outstanding)' <= 3 /\ Port!Noted' <= 7
  <2>1. (Types /\ InHand /\ Popping /\ Room)'
    BY <1>2 DEF PinsInv, PortInv
  <2>2. (Types /\ InHand /\ Popping /\ Room => Len(Outstanding) <= 3 /\ Port!Noted <= 7)'
    BY FewNoted, PTL
  <2> QED
    BY <2>1, <2>2
<1>5. Performed' = IF performs THEN AtPins' ELSE NoRequest
  BY DEF Performed
<1>6. (IF Performed' # NoRequest /\ Performed'.rnw THEN <<Performed'>> ELSE <<>>) = AskedNow'
  <2>1. CASE performs
    <3>1. Performed' = AtPins' /\ AtPins' # NoRequest
      BY <1>1, <1>5, <2>1, RequestRecords
    <3>2. AtPins'.rnw = (m_cmd' = "RD")
      BY DEF AtPins
    <3> QED
      BY <3>1, <3>2 DEF AskedNow
  <2>2. CASE ~performs
    BY <1>5, <2>2 DEF AskedNow
  <2> QED
    BY <2>1, <2>2
<1>7. Answered' = IF returns THEN za_data' ELSE NoRequest
  BY <1>3
<1>8. performs \in BOOLEAN
  OBVIOUS
<1> HIDE DEF performs, returns
<1>9. Port!PerformAndTake(performs, arriving)
  <2>1. CASE performs
    BY <1>1, <1>5, <2>1 DEF Port!PerformAndTake
  <2>2. CASE ~performs
    BY <1>1, <1>5, <2>2 DEF Port!PerformAndTake
  <2> QED
    BY <2>1, <2>2
<1>10. Port!Answer(returns)
  <2>1. CASE returns
    BY <1>2, <1>6, <1>7, <2>1 DEF Port!Answer
  <2>2. CASE ~returns
    BY <1>2, <1>6, <1>7, <2>2 DEF Port!Answer
  <2> QED
    BY <2>1, <2>2
<1>11. Port!PortClock(arriving, performs, returns)
  BY <1>4, <1>9, <1>10 DEF Port!PortClock
<1> QED
  BY <1>3, <1>8, <1>11

\* The chip performs what was requested, in its order, each once and in its own
\* row, and answers reads in theirs: for any banks, rows and requests, with
\* refreshes and resets at any time.
THEOREM PortInvariant == Spec => []PortInv
<1>1. Init => PortInv
  <2> SUFFICES ASSUME Init PROVE PortInv
    OBVIOUS
  <2>1. rd_valid = <<FALSE, FALSE, FALSE>> /\ fifo = <<>> /\ m_state = "IDLE"
        /\ f_pop = FALSE /\ m_cmd = "DES"
    BY DEF Init
  <2>2. \A n \in 1 .. 3 : rd_valid[n] \in BOOLEAN
    BY <2>1, NoAnswers
  <2> QED
    <3>1. Len(fifo) <= 2
      BY <2>1
    <3>2. f_pop \in BOOLEAN /\ ~f_pop /\ m_state \notin {"ACT", "WAIT", "RD", "WR", "OPEN"}
      BY <2>1
    <3>3. m_cmd # "RD"
      BY <2>1
    <3> QED
      BY <2>2, <3>1, <3>2, <3>3 DEF PortInv, Popping, RowOpen, InRow, Busy
<1>2. IInv /\ PinsInv /\ PortInv /\ [Next]_sdram => PortInv'
  <2> SUFFICES ASSUME IInv, PinsInv, PortInv, [Next]_sdram PROVE PortInv'
    OBVIOUS
  <2>1. CASE Reset
    <3>1. rd_valid' = <<FALSE, FALSE, FALSE>> /\ fifo' = <<>> /\ m_state' = "IDLE"
          /\ f_pop' = FALSE /\ m_cmd' = "DES"
      BY <2>1 DEF Reset, ResetRegisters
    <3>2. \A n \in 1 .. 3 : rd_valid'[n] \in BOOLEAN
      BY <3>1, NoAnswers
    <3> QED
      <4>1. Len(fifo') <= 2
        BY <3>1
      <4>2. f_pop' \in BOOLEAN /\ ~f_pop' /\ m_state' \notin {"ACT", "WAIT", "RD", "WR", "OPEN"}
        BY <3>1
      <4>3. m_cmd' # "RD"
        BY <3>1
      <4> QED
        BY <3>2, <4>1, <4>2, <4>3 DEF PortInv, Popping, RowOpen, InRow, Busy
  <2>2. ASSUME NEW arriving, arriving = <<>> \/ \E r \in Requests : arriving = <<r>>,
               Clock(arriving)
        PROVE  PortInv'
    BY <2>2, PoppingStep, RowStep DEF Clock, PinsInv, PortInv
  <2>3. CASE UNCHANGED sdram
    BY <2>3 DEF sdram, timer, starting, machine, pins, answers, chip, PortInv, Popping,
                RowOpen, InRow, Busy
  <2> QED
    BY <2>1, <2>2, <2>3 DEF Next
<1> QED
  BY <1>1, <1>2, RefreshInvariant, PinsInvariant, PTL DEF Spec

THEOREM PortIsImplemented == Spec => ImplementsPort
<1>1. Init => Port!PortInit
  <2> SUFFICES ASSUME Init PROVE Port!PortInit
    OBVIOUS
  <2>1. rd_valid = <<FALSE, FALSE, FALSE>> /\ fifo = <<>> /\ m_state = "IDLE"
        /\ za_valid = FALSE /\ m_cmd = "DES"
    BY DEF Init
  <2> QED
    BY <2>1, NoAnswers DEF Port!PortInit, Outstanding, Busy, Performed, OnTheWay
<1>2. IInv /\ PinsInv /\ PortInv /\ PinsInv' /\ PortInv' /\ [Next]_sdram
          => [Port!PortNext]_Port!portVars
  <2> SUFFICES ASSUME IInv, PinsInv, PortInv, PinsInv', PortInv', [Next]_sdram
               PROVE  Port!PortNext \/ UNCHANGED Port!portVars
    OBVIOUS
  <2>1. CASE Reset
    <3>1. rd_valid' = <<FALSE, FALSE, FALSE>> /\ fifo' = <<>> /\ m_state' = "IDLE"
          /\ za_valid' = FALSE /\ m_cmd' = "DES"
      BY <2>1 DEF Reset, ResetRegisters
    <3>2. Port!PortReset
      BY <3>1, NoAnswers DEF Port!PortReset, Outstanding, Busy, Performed, OnTheWay
    <3> QED
      BY <3>2 DEF Port!PortNext
  <2>2. CASE Clock(<<>>)
    BY <2>2, ClockIsPortClock DEF Port!PortNext
  <2>3. ASSUME NEW r \in Requests, Clock(<<r>>) PROVE Port!PortNext
    BY <2>3, ClockIsPortClock DEF Port!PortNext
  <2>4. CASE UNCHANGED sdram
    BY <2>4 DEF sdram, machine, pins, answers, chip, Port!portVars, Outstanding, Busy, Performed,
                AtPins, OnTheWay
  <2> QED
    BY <2>1, <2>2, <2>3, <2>4 DEF Next
<1> QED
  BY <1>1, <1>2, RefreshInvariant, PinsInvariant, PortInvariant, PTL
     DEF Spec, ImplementsPort, Port!PortSpec
=============================================================================
