------------------------------- MODULE Fabric -------------------------------
(***************************************************************************)
(* How the masters share the memory: the multiplexer in front of the SDRAM *)
(* controller (cmd_xbar_mux_001) with its round robin, the adapter that    *)
(* takes the display's bursts apart, and the agent that notes in a FIFO    *)
(* (rsp_fifo) to whom the next word the memory returns belongs.  The       *)
(* memory is module MemoryPort, which Sdram implements.                    *)
(*                                                                         *)
(* One step is one 150 MHz clock.  A master asks with a packet, waits      *)
(* until it is accepted and, after a read, for its words.  A write has one *)
(* word and no answer.  Words carry the master and their number in the     *)
(* packet, which stand for the address.                                    *)
(***************************************************************************)
EXTENDS Naturals, Sequences

CONSTANTS
    N,            \* masters, the inputs of the multiplexer: 5
    Asks,         \* the packets of each master: {"read", "write"} or a part
    Words,        \* the words of its reads: 1, or RD_LENGTH for the display
    NoWord,
    Depth,        \* places in rsp_fifo: 8
    Room, MaxPending    \* of the memory

Masters == 0 .. N - 1

ASSUME FabricAssumption ==
    /\ N \in Nat \ {0}
    /\ Asks \in [Masters -> SUBSET {"read", "write"}]
    /\ Words \in [Masters -> Nat \ {0}]
    /\ Depth \in Nat /\ Room \in Nat /\ MaxPending \in Nat

VARIABLES
    asks,                  \* what each master asks for, or "nothing"
    due,                   \* the words that each master waits for
    saved_grant,           \* a master, or N: nobody
    top_priority, packet_in_progress,
    out,                   \* the word the burst adapter offers
    rsp_fifo,
    queue, performed, reading, answered,    \* the memory
    passed                 \* history: packets accepted since a master asked, up to N

arbiter == <<saved_grant, top_priority, packet_in_progress>>
memory == <<queue, performed, reading, answered>>
fabric == <<asks, due, arbiter, out, rsp_fifo, memory, passed>>

AllWords ==
    {[rnw |-> FALSE, master |-> m, word |-> 1] : m \in Masters} \cup
    UNION {{[rnw |-> TRUE, master |-> m, word |-> w] : w \in 1 .. Words[m]} :
               m \in Masters}

\* No word is not a word, and rsp_fifo has one place more than the memory has
\* reads pending (8 and 7 in NiosSoc.v).
ASSUME NoWordAssumption == NoWord \notin AllWords
ASSUME DepthAssumption == MaxPending < Depth

Memory == INSTANCE MemoryPort WITH Requests <- AllWords, NoRequest <- NoWord

Init ==
    /\ asks = [m \in Masters |-> "nothing"] /\ due = [m \in Masters |-> 0]
    /\ saved_grant = N /\ top_priority = 0 /\ packet_in_progress = FALSE
    /\ out = NoWord /\ rsp_fifo = <<>> /\ Memory!PortInit
    /\ passed = [m \in Masters |-> 0]

-----------------------------------------------------------------------------
(* The multiplexer.                                                        *)

request == {m \in Masters : asks[m] # "nothing"}
src_valid == saved_grant \in request

\* The masters between one and another, in a circle.
distance(from, m) == IF m >= from THEN m - from ELSE m + N - from

\* The first one that asks, from the one with priority on.
next_grant ==
    IF request = {} THEN N
    ELSE CHOOSE m \in request : \A k \in request :
             distance(top_priority, m) <= distance(top_priority, k)

\* Mistake (mutation runs only): the grant moves only when nobody uses it.
update_when_idle(accepted) == ~packet_in_progress /\ ~src_valid

\* Every packet has one word here, so an accepted one is over (last_cycle).
update_grant(accepted) == (~packet_in_progress /\ ~src_valid) \/ accepted

\* Mistake (mutation runs only): priority stays where it is.
fixed_priority(m) == 0

after(m) == IF m = N - 1 THEN 0 ELSE m + 1

Arbitrate(accepted) ==
    /\ saved_grant' = IF update_grant(accepted) THEN next_grant ELSE saved_grant
    /\ top_priority' = IF update_grant(accepted) /\ request # {}
                         THEN after(next_grant) ELSE top_priority
    /\ packet_in_progress' = (~accepted /\ (src_valid \/ packet_in_progress))

-----------------------------------------------------------------------------
(* The burst adapter and the agent.                                        *)

last_word == out.rnw => out.word = Words[out.master]

\* The adapter takes a packet when it is empty or gives its last word away.
sink_ready(taken) == out = NoWord \/ (taken /\ last_word)

Adapt(taken, accepted) ==
    out' = IF accepted
             THEN [rnw |-> asks[saved_grant] = "read",
                   master |-> saved_grant, word |-> 1]
           ELSE IF taken
             THEN IF last_word THEN NoWord ELSE [out EXCEPT !.word = @ + 1]
           ELSE out

\* Mistake (mutation runs only): posted writes are noted, too.
NoteAll(taken) == IF taken THEN <<[master |-> out.master, word |-> out.word]>>
                           ELSE <<>>

\* A read that the memory takes is noted.
Note(taken) == IF taken /\ out.rnw
                 THEN <<[master |-> out.master, word |-> out.word]>> ELSE <<>>

\* Mistake (mutation runs only): one note per packet.
UsedAtEnd ==
    IF answered # NoWord /\ answered.word = Words[answered.master]
      THEN Tail(rsp_fifo) ELSE rsp_fifo

\* The answer uses up the oldest note.
Used == IF answered # NoWord THEN Tail(rsp_fifo) ELSE rsp_fifo

-----------------------------------------------------------------------------
(* The masters.                                                            *)

\* What a master may ask for next: nothing else while it waits.  That is so of the
\* processor and the display; the read master of the DMA controller can ask again
\* before its answer has come, but no code of the program starts it.
Wishes(m, accepted) ==
    IF asks[m] # "nothing" /\ ~(accepted /\ saved_grant = m) THEN {asks[m]}
    ELSE IF due'[m] > 0 THEN {"nothing"}
    ELSE {"nothing"} \cup Asks[m]

Receive(accepted) ==
    due' = [m \in Masters |->
              IF accepted /\ saved_grant = m /\ asks[m] = "read" THEN Words[m]
              ELSE IF answered # NoWord /\ Head(rsp_fifo).master = m THEN due[m] - 1
              ELSE due[m]]

Count(accepted) ==
    passed' = [m \in Masters |->
                 IF asks'[m] = "nothing" \/ (accepted /\ saved_grant = m) THEN 0
                 ELSE IF accepted /\ asks[m] # "nothing" /\ passed[m] < N
                   THEN passed[m] + 1
                 ELSE passed[m]]

-----------------------------------------------------------------------------

\* taken: the memory takes the word offered, that is, the agent has room for a
\* note and the memory does not ask it to wait.
Clock(taken, performs, answers) ==
    LET accepted == src_valid /\ sink_ready(taken)
    IN  /\ taken => out # NoWord /\ Len(rsp_fifo) < Depth
        /\ Memory!PortClock(IF taken THEN <<out>> ELSE <<>>, performs, answers)
        /\ Arbitrate(accepted) /\ Adapt(taken, accepted)
        /\ rsp_fifo' = Used \o Note(taken)
        /\ Receive(accepted)
        /\ asks' \in [Masters -> {"nothing", "read", "write"}]
        /\ \A m \in Masters : asks'[m] \in Wishes(m, accepted)
        /\ Count(accepted)

Tick == \E taken, performs, answers \in BOOLEAN : Clock(taken, performs, answers)
Takes == \E performs, answers \in BOOLEAN : Clock(TRUE, performs, answers)
Performs == \E taken, answers \in BOOLEAN : Clock(taken, TRUE, answers)
Answers == \E taken, performs \in BOOLEAN : Clock(taken, performs, TRUE)

\* KEY0 and the debugger reset everything between the masters and the chip.
Reset ==
    /\ asks' = [m \in Masters |-> "nothing"] /\ due' = [m \in Masters |-> 0]
    /\ saved_grant' = N /\ top_priority' = 0 /\ packet_in_progress' = FALSE
    /\ out' = NoWord /\ rsp_fifo' = <<>> /\ Memory!PortReset
    /\ passed' = [m \in Masters |-> 0]

Next == Tick \/ Reset

Spec == Init /\ [][Next]_fabric

\* The clock runs, and the memory takes, performs and answers what it is given
\* (Sdram: Served).
FairSpec ==
    /\ Spec
    /\ WF_fabric(Tick) /\ WF_fabric(Takes)
    /\ WF_fabric(Performs) /\ WF_fabric(Answers)

-----------------------------------------------------------------------------
(* Properties.                                                             *)

\* A word the memory returns goes to the master that asked for it, and a burst
\* arrives in order and complete, however the masters' packets were interleaved
\* on the way: the notes and the reads in the memory never get out of step.
AnswerToAsker ==
    answered # NoWord =>
        /\ rsp_fifo # <<>>
        /\ Head(rsp_fifo) = [master |-> answered.master, word |-> answered.word]
        /\ answered.word = Words[answered.master] - due[answered.master] + 1

\* "The extra slot should never be used in normal operation"
\* (altera_merlin_slave_agent.sv:247): the notes never fill rsp_fifo, so that a
\* full one never holds up writes.
ExtraSlotUnused == Len(rsp_fifo) < Depth

\* Round robin: each of the other masters goes first at most once.
PassedOnceEach == \A m \in Masters : passed[m] <= N - 1

\* Every master that asks is let through, and every read gets all its words.
PacketServed ==
    \A m \in Masters :
        /\ asks[m] # "nothing" ~> asks[m] = "nothing" \/ (out # NoWord /\ out.master = m)
        /\ due[m] > 0 ~> due[m] = 0
=============================================================================
