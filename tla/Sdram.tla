------------------------------- MODULE Sdram -------------------------------
(***************************************************************************)
(* NiosSoc_sdram_ctrl.v: the controller between the interconnect and the   *)
(* SDRAM chip, in which the program, its data and the picture live.  Two   *)
(* state machines (initialisation and accesses), a refresh timer, a FIFO   *)
(* of two requests and a shift register that marks the answers.            *)
(*                                                                         *)
(* One step is one 150 MHz clock, in which every register takes its next   *)
(* value.  The chip is external: it has an open row per bank and returns   *)
(* what is read CAS_LATENCY clocks after the command.  A request is        *)
(* [rnw, bank, row, col]; col stands for the column, the byte mask and the *)
(* word.  The all-ones address of a precharge, which makes it one of all   *)
(* banks, is part of the command.                                          *)
(***************************************************************************)
EXTENDS Naturals, Sequences

CONSTANTS
    Banks, Rows, Cols,
    Addresses,        \* the addresses that are accessed
    NoRequest, Closed,
    PowerUpClocks,    \* first value of the refresh counter: 30000
    RefreshClocks     \* its value at each reload: 1171

Requests == {[rnw |-> read, bank |-> a.bank, row |-> a.row, col |-> a.col] :
                 read \in BOOLEAN, a \in Addresses}

ASSUME AddressAssumption ==
    /\ Addresses \subseteq [bank : Banks, row : Rows, col : Cols]
    /\ 0 \in Banks /\ 0 \in Rows
    /\ NoRequest \notin Requests /\ Closed \notin Rows
    /\ PowerUpClocks \in Nat /\ RefreshClocks \in Nat

\* A refresh is over before the next one is due (see SdramProofs); 1171 in the
\* design.
ASSUME RefreshAssumption == RefreshClocks >= 24

\* After a reset the chip gets over whatever it was doing; 30000 in the design.
ASSUME PowerUpAssumption == PowerUpClocks >= 10

VARIABLES
    refresh_counter, refresh_request, ack_refresh_request,
    init_done, i_state, i_next, i_cmd, i_count, i_refs,
    fifo,             \* the requests in the input FIFO
    m_state, m_next, m_count,
    active,           \* active_*; NoRequest: active_cs_n is 1
    f_pop,
    m_cmd, m_bank, m_addr,
    rd_valid,         \* the shift register, first stage first
    za_valid, za_data,
    open,             \* chip: the open row of each bank
    age,              \* chip: clocks since the last command of each kind
    dq                \* chip: reads on their way to the data pins

timer == <<refresh_counter, refresh_request>>
starting == <<init_done, i_state, i_next, i_cmd, i_count, i_refs>>
machine == <<m_state, m_next, m_count, active, f_pop, ack_refresh_request>>
pins == <<m_cmd, m_bank, m_addr>>
answers == <<rd_valid, za_valid, za_data>>
chip == <<open, age, dq>>
sdram == <<timer, starting, fifo, machine, pins, answers, chip>>

Kinds == {"LMR", "ARF", "PRE", "ACT", "WR"}
Commands == Kinds \cup {"RD", "NOP", "DES"}    \* DES: not selected

\* The clocks the chip needs from one command to another: system.h gives
\* T_RCD, T_RP, T_RFC, T_WR and T_MRD, here in clocks of 6.67 ns.
Spacing == {<<"ACT", "RD", 3>>, <<"ACT", "WR", 3>>,
            <<"PRE", "ACT", 3>>, <<"PRE", "ARF", 3>>, <<"PRE", "LMR", 3>>,
            <<"ARF", "ACT", 11>>, <<"ARF", "ARF", 11>>, <<"ARF", "PRE", 11>>,
            <<"ARF", "LMR", 11>>, <<"WR", "PRE", 3>>, <<"LMR", "ACT", 3>>,
            <<"LMR", "PRE", 3>>, <<"LMR", "ARF", 3>>}
Longest(kind) == IF kind = "ARF" THEN 11 ELSE 3

-----------------------------------------------------------------------------
(* Reset and the values of the registers after it.                         *)

\* All but active_* and i_refs.
ResetRegisters ==
    /\ refresh_counter' = PowerUpClocks /\ refresh_request' = FALSE
    /\ ack_refresh_request' = FALSE
    /\ init_done' = FALSE /\ i_state' = 0 /\ i_next' = 0
    /\ i_cmd' = "DES" /\ i_count' = 0
    /\ fifo' = <<>> /\ f_pop' = FALSE
    /\ m_state' = "IDLE" /\ m_next' = "IDLE" /\ m_count' = 0
    /\ m_cmd' = "DES" /\ m_bank' = 0 /\ m_addr' = 0
    /\ rd_valid' = <<FALSE, FALSE, FALSE>>
    /\ za_valid' = FALSE /\ za_data' = NoRequest
    /\ UNCHANGED <<active, i_refs>>

Init ==
    /\ refresh_counter = PowerUpClocks /\ refresh_request = FALSE
    /\ ack_refresh_request = FALSE
    /\ init_done = FALSE /\ i_state = 0 /\ i_next = 0
    /\ i_cmd = "DES" /\ i_count = 0 /\ i_refs = 0
    /\ fifo = <<>> /\ f_pop = FALSE /\ active \in Requests \cup {NoRequest}
    /\ m_state = "IDLE" /\ m_next = "IDLE" /\ m_count = 0
    /\ m_cmd = "DES" /\ m_bank = 0 /\ m_addr = 0
    /\ rd_valid = <<FALSE, FALSE, FALSE>>
    /\ za_valid = FALSE /\ za_data = NoRequest
    /\ open = [b \in Banks |-> Closed]
    /\ age = [k \in Kinds |-> Longest(k)]
    /\ dq = <<NoRequest, NoRequest, NoRequest>>

-----------------------------------------------------------------------------
(* The refresh timer and the initialisation.                               *)

\* Mistake (mutation runs only): the request is not taken back.
RefreshTimerForever ==
    /\ refresh_counter' = IF refresh_counter = 0 THEN RefreshClocks
                                                 ELSE refresh_counter - 1
    /\ refresh_request' = ((refresh_counter = 0 \/ refresh_request) /\ init_done)

RefreshTimer ==
    /\ refresh_counter' = IF refresh_counter = 0 THEN RefreshClocks
                                                 ELSE refresh_counter - 1
    /\ refresh_request' = /\ refresh_counter = 0 \/ refresh_request
                          /\ ~ack_refresh_request
                          /\ init_done

InitCommand(cmd, count, next) ==
    /\ i_state' = 3 /\ i_cmd' = cmd /\ i_count' = count /\ i_next' = next

\* Precharge, two refreshes and the mode register, each followed by state 3.
InitMachine ==
    /\ init_done' = (init_done \/ i_state = 5)
    /\ \/ /\ i_state = 0
          /\ i_cmd' = "DES" /\ i_refs' = 0
          /\ i_state' = IF refresh_counter = 0 THEN 1 ELSE 0
          /\ UNCHANGED <<i_next, i_count>>
       \/ i_state = 1 /\ InitCommand("PRE", 2, 2) /\ UNCHANGED i_refs
       \/ /\ i_state = 2 /\ InitCommand("ARF", 10, IF i_refs = 1 THEN 7 ELSE 2)
          /\ i_refs' = i_refs + 1
       \/ /\ i_state = 3
          /\ i_cmd' = "NOP"
          /\ IF i_count > 1 THEN i_count' = i_count - 1 /\ UNCHANGED i_state
                            ELSE i_state' = i_next /\ UNCHANGED i_count
          /\ UNCHANGED <<i_next, i_refs>>
       \/ i_state = 7 /\ InitCommand("LMR", 4, 5) /\ UNCHANGED i_refs
       \/ i_state = 5 /\ UNCHANGED <<i_state, i_cmd, i_count, i_next, i_refs>>

-----------------------------------------------------------------------------
(* The access machine.                                                     *)

\* Mistake (mutation runs only): a write follows a read in the open row.
SameRowOnly(a, b) == a.bank = b.bank /\ a.row = b.row

SameRow(a, b) == a.rnw = b.rnw /\ a.bank = b.bank /\ a.row = b.row

\* The oldest request waiting may use the row that is open.
pending == fifo # <<>> /\ active # NoRequest /\ SameRow(active, Head(fifo))

f_select == f_pop /\ pending

\* A command is lost on a chip that is not selected.
Selected(cmd) == IF active = NoRequest THEN "DES" ELSE cmd

Take == f_pop' = TRUE /\ active' = Head(fifo)
Keep == f_pop' = FALSE /\ UNCHANGED active
SameCell == UNCHANGED <<m_bank, m_addr>>

Idle ==
    /\ m_state = "IDLE" /\ SameCell
    /\ IF ~init_done
         THEN /\ m_cmd' = i_cmd
              /\ m_next' = "IDLE"
              /\ Keep /\ UNCHANGED <<m_state, m_count, ack_refresh_request>>
         ELSE /\ m_cmd' = IF refresh_request THEN "NOP" ELSE "DES"
              /\ ack_refresh_request' = FALSE
              /\ \/ /\ refresh_request
                    /\ m_state' = "PRE" /\ m_next' = "ARF" /\ m_count' = 2
                    /\ active' = NoRequest /\ f_pop' = FALSE
                 \/ /\ ~refresh_request /\ fifo # <<>> /\ Take
                    /\ m_state' = "ACT" /\ UNCHANGED <<m_next, m_count>>
                 \/ /\ ~refresh_request /\ fifo = <<>> /\ Keep
                    /\ UNCHANGED <<m_state, m_next, m_count>>

Activate ==
    /\ m_state = "ACT" /\ m_state' = "WAIT"
    /\ m_cmd' = Selected("ACT") /\ m_bank' = active.bank /\ m_addr' = active.row
    /\ m_count' = 3 /\ m_next' = IF active.rnw THEN "RD" ELSE "WR"
    /\ Keep /\ UNCHANGED ack_refresh_request

\* Mistakes (mutation runs only): the waits are a clock too short, too long.
counting_short == m_count > 2
counting_long == m_count > 0

counting == m_count > 1

Wait ==
    /\ m_state = "WAIT"
    /\ m_cmd' = IF m_next = "ARF" THEN "NOP" ELSE Selected("NOP")
    /\ IF counting THEN m_count' = m_count - 1 /\ UNCHANGED m_state
                      ELSE m_state' = m_next /\ UNCHANGED m_count
    /\ Keep /\ SameCell /\ UNCHANGED <<m_next, ack_refresh_request>>

\* Mistake (mutation runs only): the FIFO is passed over.
active_cell == active

cell == IF f_select THEN Head(fifo) ELSE active

\* One word is read or written, and another one next clock if the row fits.
Burst(cmd, recovery) ==
    /\ m_state = cmd
    /\ m_bank' = cell.bank /\ m_addr' = cell.col
    /\ m_cmd' = Selected(IF ~pending /\ f_pop THEN "NOP" ELSE cmd)
    /\ \/ /\ pending /\ refresh_request /\ Keep
          /\ m_state' = "WAIT" /\ m_next' = "IDLE" /\ m_count' = recovery
       \/ /\ pending /\ ~refresh_request /\ Take
          /\ UNCHANGED <<m_state, m_next, m_count>>
       \/ /\ ~pending /\ Keep
          /\ m_state' = "OPEN" /\ UNCHANGED <<m_next, m_count>>
    /\ UNCHANGED ack_refresh_request

Read == Burst("RD", 2)
Write == Burst("WR", 3)

\* The row is open and there was nothing more for it.
OpenRow ==
    /\ m_state = "OPEN" /\ m_cmd' = Selected("NOP") /\ SameCell
    /\ \/ /\ refresh_request /\ Keep
          /\ m_state' = "WAIT" /\ m_next' = "IDLE" /\ m_count' = 2
       \/ /\ ~refresh_request /\ fifo = <<>> /\ Keep
          /\ UNCHANGED <<m_state, m_next, m_count>>
       \/ /\ ~refresh_request /\ pending /\ Take
          /\ m_state' = IF Head(fifo).rnw THEN "RD" ELSE "WR"
          /\ UNCHANGED <<m_next, m_count>>
       \/ /\ ~refresh_request /\ fifo # <<>> /\ ~pending /\ Keep
          /\ m_state' = "SPIN" /\ m_next' = "IDLE" /\ m_count' = 2
    /\ UNCHANGED ack_refresh_request

Spin ==
    /\ m_state = "SPIN" /\ m_cmd' = Selected("NOP") /\ SameCell
    /\ IF counting THEN m_count' = m_count - 1 /\ UNCHANGED m_state
                      ELSE m_state' = "PRE" /\ m_count' = 2
    /\ Keep /\ UNCHANGED <<m_next, ack_refresh_request>>

\* Mistake (mutation runs only): before a refresh no chip is selected.
PrechargeSelected ==
    /\ m_state = "PRE" /\ m_state' = "WAIT" /\ m_cmd' = Selected("PRE")
    /\ Keep /\ SameCell /\ UNCHANGED <<m_next, m_count, ack_refresh_request>>

\* All banks, as the address pins are all ones.
Precharge ==
    /\ m_state = "PRE" /\ m_state' = "WAIT"
    /\ m_cmd' = IF refresh_request THEN "PRE" ELSE Selected("PRE")
    /\ Keep /\ SameCell /\ UNCHANGED <<m_next, m_count, ack_refresh_request>>

Refresh ==
    /\ m_state = "ARF" /\ m_state' = "WAIT" /\ m_cmd' = "ARF"
    /\ ack_refresh_request' = TRUE /\ m_next' = "IDLE" /\ m_count' = 10
    /\ Keep /\ SameCell

AccessMachine ==
    \/ Idle \/ Activate \/ Wait \/ Read \/ Write
    \/ OpenRow \/ Spin \/ Precharge \/ Refresh

\* The input FIFO: full at two entries, za_waitrequest keeps the port waiting.
InputFifo(arriving) ==
    /\ Len(fifo) = 2 => arriving = <<>>
    /\ fifo' = (IF f_select THEN Tail(fifo) ELSE fifo) \o arriving

-----------------------------------------------------------------------------
(* The answers and the chip.                                               *)

MarkAnswers ==
    /\ rd_valid' = <<m_cmd = "RD", rd_valid[1], rd_valid[2]>>
    /\ za_valid' = rd_valid[3]
    /\ za_data' = dq[3]

\* The access the chip is asked for.
AtPins == [rnw |-> m_cmd = "RD", bank |-> m_bank,
           row |-> open[m_bank], col |-> m_addr]

\* The chip takes the command that is at its pins.
Chip(cmd) ==
    /\ open' = [b \in Banks |-> IF cmd = "PRE" THEN Closed
                                ELSE IF cmd = "ACT" /\ b = m_bank THEN m_addr
                                ELSE open[b]]
    /\ age' = [k \in Kinds |-> IF cmd = k THEN 1
                               ELSE IF age[k] < Longest(k) THEN age[k] + 1
                               ELSE age[k]]
    /\ dq' = <<IF cmd = "RD" THEN AtPins ELSE NoRequest, dq[1], dq[2]>>

-----------------------------------------------------------------------------

Clock(arriving) ==
    /\ RefreshTimer /\ InitMachine /\ AccessMachine /\ InputFifo(arriving)
    /\ MarkAnswers /\ Chip(m_cmd)

\* KEY0 or the debugger resets the controller at any time, not the chip, which
\* may or may not have taken the last command.
Reset == ResetRegisters /\ (Chip(m_cmd) \/ Chip("DES"))

Next ==
    \/ Clock(<<>>)
    \/ \E r \in Requests : Clock(<<r>>)
    \/ Reset

Spec == Init /\ [][Next]_sdram

\* The clock runs, with or without requests.
FairSpec == Spec /\ WF_sdram(Clock(<<>>) \/ \E r \in Requests : Clock(<<r>>))

-----------------------------------------------------------------------------
(* Properties.                                                             *)

TypeOK ==
    /\ refresh_counter \in Nat
    /\ {refresh_request, ack_refresh_request, init_done, f_pop, za_valid} \subseteq BOOLEAN
    /\ i_state \in {0, 1, 2, 3, 5, 7} /\ i_next \in {0, 2, 5, 7}
    /\ i_cmd \in Commands /\ i_count \in 0 .. 10 /\ i_refs \in 0 .. 2
    /\ fifo \in Seq(Requests) /\ Len(fifo) <= 2
    /\ m_state \in {"IDLE", "ACT", "WAIT", "RD", "WR", "OPEN", "SPIN", "PRE", "ARF"}
    /\ m_next \in {"IDLE", "RD", "WR", "ARF"} /\ m_count \in 0 .. 10
    /\ active \in Requests \cup {NoRequest}
    /\ m_cmd \in Commands /\ m_bank \in Banks /\ m_addr \in Rows \cup Cols
    /\ rd_valid \in [1 .. 3 -> BOOLEAN]
    /\ open \in [Banks -> Rows \cup Cols \cup {Closed}]
    /\ age \in [Kinds -> 1 .. 11]

\* Requests taken and not yet performed: the one the machine is busy with has
\* left the FIFO once f_pop is over.
Busy == m_state \in {"ACT", "RD", "WR"} \/ (m_state = "WAIT" /\ m_next \in {"RD", "WR"})
Outstanding == IF Busy /\ ~f_pop THEN <<active>> \o fifo ELSE fifo

Performed == IF m_cmd \in {"RD", "WR"} THEN AtPins ELSE NoRequest

\* The reads marked in the shift register, oldest first, and the one at the pins.
OnTheWay ==
    LET stage(n) == IF rd_valid[n] THEN <<dq[n]>> ELSE <<>>
    IN  stage(3) \o stage(2) \o stage(1) \o
        (IF m_cmd = "RD" THEN <<AtPins>> ELSE <<>>)

Port == INSTANCE MemoryPort WITH
            queue <- Outstanding, performed <- Performed, reading <- OnTheWay,
            answered <- IF za_valid THEN za_data ELSE NoRequest,
            Room <- 3, MaxPending <- 7

\* The chip is asked for the accesses that were requested, in their order, each
\* once and in its own bank, row and column, whatever hits, misses, refreshes
\* and resets lie between; each read is marked valid in the clock its data
\* comes, and nothing else is.
ImplementsPort == Port!PortSpec

\* A row is opened only in a closed bank, and the chip is refreshed and
\* configured only with all banks closed, also after a reset amid an access.
BanksClosedFirst ==
    /\ m_cmd = "ACT" => open[m_bank] = Closed
    /\ m_cmd \in {"ARF", "LMR"} => \A b \in Banks : open[b] = Closed

\* The waits of both machines keep the clocks of system.h between commands,
\* over every path from one command to the other.
CommandsSpaced == \A s \in Spacing : m_cmd = s[2] => age[s[1]] >= s[3]

\* No refresh is skipped: when the counter runs out, the last request has been
\* carried out and its acknowledgement is over.
NoRefreshSkipped ==
    refresh_counter = 0 /\ init_done => ~refresh_request /\ ~ack_refresh_request

\* The controller never drives the data pins while the chip does.
OneDriver == m_cmd = "WR" => dq[3] = NoRequest

\* Whatever is requested is performed, unless a reset forgets it.
Served == Outstanding # <<>> ~> Performed # NoRequest \/ Outstanding = <<>>
=============================================================================
