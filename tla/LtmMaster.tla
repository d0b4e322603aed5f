----------------------------- MODULE LtmMaster -----------------------------
(***************************************************************************)
(* LTM_Master_Controller.v: it copies the frame buffer, burst by burst,    *)
(* into a FIFO between the system clock and the pixel clock.  Its inputs   *)
(* are the processor's register writes, the memory's answers, the vertical *)
(* sync of the panel and the panel's requests for pixels.  Taken alone,    *)
(* the last three come at any time; module Display connects them.          *)
(*                                                                         *)
(* The FIFO (an Intel dcfifo with its over- and underflow checks off) is   *)
(* external: a queue whose write side sees a read some clocks late, and    *)
(* whose read side gets a written word some clocks late.                   *)
(***************************************************************************)
EXTENDS Integers, Sequences

CONSTANTS
    RD_LENGTH,     \* words of a burst: 256
    Fifo_Depth,    \* range of the usedw counter read by the master: 1024
    BMPLENGTH,     \* words of a frame: 800 * 480
    MaxUnseen,     \* bound: reads the write side has not seen yet
    MaxLate,       \* bound: words written that cannot be read yet
    Black          \* what the FIFO puts out when no word can be read

ASSUME FrameAssumption ==
    /\ RD_LENGTH \in Nat \ {0} /\ BMPLENGTH \in Nat \ {0}
    /\ Fifo_Depth \in Nat /\ MaxUnseen \in Nat /\ MaxLate \in Nat
    \* 800 * 480 is 1500 * 256
    /\ \E n \in 1 .. BMPLENGTH : BMPLENGTH = n * RD_LENGTH
    /\ 2 * RD_LENGTH <= Fifo_Depth

VARIABLES
    rBMPAddr,         \* the frame buffer: 0 after reset, else 1 (LTMDisp)
    rLcmEn,
    pre_vdh, mStart,
    state,            \* 3 stopped, 0 decide, 1 command, 2 data
    avm_m1_address,   \* a frame buffer and a word in it
    rBMPPixelCnt, rRDDataCnt,
    fifo, unseen, late,
    software          \* the next write of the processor

registers == <<rBMPAddr, rLcmEn, software>>
sync == <<pre_vdh, mStart>>
machine == <<state, avm_m1_address, rBMPPixelCnt, rRDDataCnt>>
buffer == <<fifo, unseen, late>>
master == <<registers, sync, machine, buffer>>

MasterInit ==
    /\ rBMPAddr = 0 /\ rLcmEn = FALSE /\ software = "set_buffer"
    /\ pre_vdh = FALSE /\ mStart = FALSE
    /\ state = 3 /\ avm_m1_address = [base |-> 0, word |-> 0]
    /\ rBMPPixelCnt = 0 /\ rRDDataCnt = 0
    /\ fifo = <<>> /\ unseen = 0 /\ late = 0

-----------------------------------------------------------------------------
(* The processor: main sets the buffer, then enables the display.  The     *)
(* register also takes a 0, after which the display stops; main writes     *)
(* none, but the master has to cope with it at any time.                   *)

SetBuffer ==
    /\ software = "set_buffer" /\ software' = "enable"
    /\ rBMPAddr' = 1
    /\ UNCHANGED <<rLcmEn, sync, machine, buffer>>

\* Mistake (mutation runs only): the value goes to register 1.
EnableTestRegister ==
    /\ software = "enable" /\ software' = "done"
    /\ UNCHANGED <<rBMPAddr, rLcmEn, sync, machine, buffer>>

EnableDisplay ==
    /\ software = "enable" /\ software' = "done"
    /\ rLcmEn' = TRUE
    /\ UNCHANGED <<rBMPAddr, sync, machine, buffer>>

DisableDisplay ==
    /\ software = "done" /\ software' = "enable"
    /\ rLcmEn' = FALSE
    /\ UNCHANGED <<rBMPAddr, sync, machine, buffer>>

-----------------------------------------------------------------------------
(* One system clock: the vertical sync, the burst machine and the FIFO.    *)

\* The display starts and stops at a falling edge of the vertical sync.
FollowSync(vd) ==
    /\ pre_vdh' = vd
    /\ mStart' = IF pre_vdh /\ ~vd THEN rLcmEn ELSE mStart

\* The write side of the FIFO, cleared while the display is stopped, takes the
\* words in data.
WriteFifo(data) ==
    /\ fifo' = IF mStart /\ mStart' THEN fifo \o data ELSE <<>>
    /\ unseen' \in IF mStart /\ mStart' THEN 0 .. unseen ELSE {0}
    /\ late' \in IF mStart /\ mStart' THEN {i \in 0 .. MaxLate : i <= late + Len(data)}
                                     ELSE {0}

wusedw == (Len(fifo) + unseen) % Fifo_Depth

\* Mistake (mutation runs only): a stopped frame is gone on with.
StoppedKeepsWord ==
    /\ state = 3
    /\ avm_m1_address' = [avm_m1_address EXCEPT !.base = rBMPAddr]
    /\ rBMPPixelCnt' = 0 /\ rRDDataCnt' = 0
    /\ state' = IF mStart THEN 0 ELSE 3
    /\ WriteFifo(<<>>)

Stopped ==
    /\ state = 3
    /\ avm_m1_address' = [base |-> rBMPAddr, word |-> 0]
    /\ rBMPPixelCnt' = 0 /\ rRDDataCnt' = 0
    /\ state' = IF mStart THEN 0 ELSE 3
    /\ WriteFifo(<<>>)

\* Mistake (mutation runs only): the frame is one word too long.
frame_done_late == rBMPPixelCnt > BMPLENGTH

frame_done == rBMPPixelCnt > BMPLENGTH - 1

\* Mistake (mutation runs only): room for a burst is not asked for.
room_for_two == wusedw < 2 * RD_LENGTH

room == wusedw < RD_LENGTH

Decide ==
    /\ state = 0
    /\ rRDDataCnt' = 0
    /\ avm_m1_address' = IF frame_done THEN [base |-> rBMPAddr, word |-> 0]
                                       ELSE avm_m1_address
    /\ rBMPPixelCnt' = IF frame_done THEN 0 ELSE rBMPPixelCnt
    /\ state' = IF ~mStart THEN 3 ELSE IF room THEN 1 ELSE 0
    /\ WriteFifo(<<>>)

CommandTaken ==
    /\ state = 1
    /\ avm_m1_address' = [avm_m1_address EXCEPT !.word = @ + RD_LENGTH]
    /\ state' = 2 /\ rRDDataCnt' = 0
    /\ UNCHANGED rBMPPixelCnt
    /\ WriteFifo(<<>>)

\* The word the memory returns: the burst began RD_LENGTH before the address.
Datum == [base |-> avm_m1_address.base,
          word |-> avm_m1_address.word - RD_LENGTH + rRDDataCnt]

last_word == rRDDataCnt >= RD_LENGTH - 1

DataValid ==
    /\ state = 2
    /\ rBMPPixelCnt' = rBMPPixelCnt + 1
    /\ rRDDataCnt' = IF last_word THEN 0 ELSE rRDDataCnt + 1
    /\ state' = IF last_word THEN 0 ELSE 2
    /\ UNCHANGED avm_m1_address
    /\ WriteFifo(<<Datum>>)

\* The memory is not ready: waitrequest, or no valid data.
MemoryWaits ==
    /\ state \in {1, 2}
    /\ UNCHANGED machine
    /\ WriteFifo(<<>>)

MemoryAnswers == CommandTaken \/ DataValid

MasterClock(vd) ==
    /\ FollowSync(vd)
    /\ Stopped \/ Decide \/ MemoryAnswers \/ MemoryWaits
    /\ UNCHANGED registers

\* The read side.  A word written is in the RAM at once, but its output shows
\* it only at a later clock of the reader.
Readable == mStart /\ Len(fifo) > late

\* The FIFO shows the next word before it is asked for (show-ahead).
rddata == IF Readable THEN Head(fifo) ELSE Black

\* A pixel is taken.  The panel takes it whether there is one or not; what
\* dcfifo does when empty is left open by never happening.
ReadFifo ==
    /\ Readable
    /\ fifo' = Tail(fifo)
    /\ unseen' \in 0 .. (IF unseen < MaxUnseen THEN unseen + 1 ELSE MaxUnseen)
    /\ UNCHANGED <<late, registers, sync, machine>>

MasterNext ==
    \/ SetBuffer \/ EnableDisplay \/ DisableDisplay
    \/ \E vd \in BOOLEAN : MasterClock(vd)
    \/ ReadFifo

MasterSpec == MasterInit /\ [][MasterNext]_master

-----------------------------------------------------------------------------
(* The inductive invariant behind the safety properties (see the proofs).  *)

\* How full the FIFO may seem to the master, step by step through a burst: a
\* command is given at less than one burst, and reads only lower the sum.
Fill == Len(fifo) + unseen
FillInv ==
    /\ state = 1 => Fill < RD_LENGTH
    /\ state = 2 => Fill < RD_LENGTH + rRDDataCnt
    /\ state \in {0, 3} => Fill < 2 * RD_LENGTH

\* The address runs with the pixel counter, in whole bursts between bursts.
Aligned(c) == \E k \in 0 .. c : c = k * RD_LENGTH
AddressInv ==
    /\ state \in {0, 1} => /\ avm_m1_address.word = rBMPPixelCnt
                           /\ Aligned(rBMPPixelCnt)
    /\ state = 1 => rBMPPixelCnt < BMPLENGTH
    /\ state = 2 => /\ avm_m1_address.word = rBMPPixelCnt - rRDDataCnt + RD_LENGTH
                    /\ avm_m1_address.word <= BMPLENGTH
                    /\ rBMPPixelCnt >= rRDDataCnt
                    /\ Aligned(rBMPPixelCnt - rRDDataCnt)

-----------------------------------------------------------------------------
(* Properties. *)

Words == [base : {0, 1}, word : 0 .. BMPLENGTH]

MasterTypeOK ==
    /\ rBMPAddr \in {0, 1} /\ rLcmEn \in BOOLEAN
    /\ software \in {"set_buffer", "enable", "done"}
    /\ pre_vdh \in BOOLEAN /\ mStart \in BOOLEAN
    /\ state \in 0 .. 3 /\ avm_m1_address \in Words
    /\ rBMPPixelCnt \in 0 .. BMPLENGTH /\ rRDDataCnt \in 0 .. RD_LENGTH - 1
    /\ fifo \in Seq(Words) /\ unseen \in 0 .. MaxUnseen /\ late \in 0 .. MaxLate

\* Whatever the memory, the sync and the panel do, and however late the reads
\* are seen, the FIFO never holds two bursts.  So it never overflows (its check
\* is off), and the fill level, of which the master sees ten of eleven bits, is
\* never cut off.
NeverTwoBursts == Len(fifo) + unseen < 2 * RD_LENGTH

\* A burst never runs past the end of the frame, though the wrap is tested
\* only between bursts and the display may be stopped and started at any time.
BurstInFrame == state = 1 => avm_m1_address.word + RD_LENGTH <= BMPLENGTH
=============================================================================
