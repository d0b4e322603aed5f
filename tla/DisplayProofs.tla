--------------------------- MODULE DisplayProofs ---------------------------
(***************************************************************************)
(* Proofs about the frame-buffer reader, LtmMaster, for every burst, frame *)
(* and FIFO size that meets FrameAssumption, and every behaviour of the    *)
(* memory, the sync and the panel; and that the picture module, Display,   *)
(* implements it, so that what is proved of the reader holds of it as it   *)
(* is wired to the panel.                                                  *)
(*                                                                         *)
(* The invariant is inductive because it follows the burst: a command is   *)
(* given when less than one burst seems to be in the FIFO, each word adds  *)
(* one, and a read cannot raise the sum of what is there and what is not   *)
(* seen to be gone.  The address is tied to the pixel counter, and both to *)
(* whole bursts, so that the frame, a whole number of bursts, ends between *)
(* two of them.                                                            *)
(*                                                                         *)
(* The last part is about the picture: every pixel gets its own word, for  *)
(* every panel, frame and burst and a memory as fast as SpeedAssumption    *)
(* says.                                                                   *)
(***************************************************************************)
EXTENDS Display, SequenceTheorems, TLAPS

-----------------------------------------------------------------------------
(* The reader in any environment. *)

\* Adding a burst to whole bursts gives whole bursts.
LEMMA NextAligned ==
    ASSUME NEW c \in Nat, Aligned(c)
    PROVE  Aligned(c + RD_LENGTH)
<1>1. PICK k \in 0 .. c : c = k * RD_LENGTH
  BY DEF Aligned
<1>2. k + 1 \in 0 .. c + RD_LENGTH
  BY FrameAssumption
<1>3. (k + 1) * RD_LENGTH = k * RD_LENGTH + RD_LENGTH
  BY FrameAssumption
<1> QED
  BY <1>1, <1>2, <1>3, FrameAssumption DEF Aligned

\* Before the end of the frame there is room in it for a whole burst.
LEMMA BurstFits ==
    ASSUME NEW c \in Nat, Aligned(c), c < BMPLENGTH
    PROVE  c + RD_LENGTH <= BMPLENGTH
<1>1. PICK k \in 0 .. c : c = k * RD_LENGTH
  BY DEF Aligned
<1>2. PICK n \in 1 .. BMPLENGTH : BMPLENGTH = n * RD_LENGTH
  BY FrameAssumption
<1>3. RD_LENGTH \in Nat /\ RD_LENGTH > 0 /\ k \in Nat /\ n \in Nat
  BY FrameAssumption
<1>4. k < n
  <2>1. SUFFICES ASSUME n <= k PROVE FALSE
    BY <1>3
  <2>2. n * RD_LENGTH <= k * RD_LENGTH
    BY <1>3, <2>1
  <2> QED
    BY <1>1, <1>2, <1>3, <2>2, FrameAssumption
<1>5. (k + 1) * RD_LENGTH <= n * RD_LENGTH
  BY <1>3, <1>4
<1>6. (k + 1) * RD_LENGTH = k * RD_LENGTH + RD_LENGTH
  BY <1>3
<1> QED
  BY <1>1, <1>2, <1>5, <1>6

-----------------------------------------------------------------------------

IInv == MasterTypeOK /\ FillInv /\ AddressInv

\* Initially.
LEMMA InvInit == MasterInit => IInv
<1> SUFFICES ASSUME MasterInit PROVE IInv
  OBVIOUS
<1>1. MasterTypeOK
  <2>1. avm_m1_address \in Words
    BY FrameAssumption DEF MasterInit, Words
  <2>2. fifo \in Seq(Words)
    BY DEF MasterInit
  <2>3. rBMPPixelCnt \in 0 .. BMPLENGTH /\ rRDDataCnt \in 0 .. RD_LENGTH - 1
        /\ unseen \in 0 .. MaxUnseen /\ late \in 0 .. MaxLate /\ state \in 0 .. 3
    BY FrameAssumption DEF MasterInit
  <2> QED
    BY <2>1, <2>2, <2>3 DEF MasterInit, MasterTypeOK
<1>2. FillInv
  BY FrameAssumption DEF MasterInit, FillInv, Fill
<1>3. AddressInv
  BY DEF MasterInit, AddressInv
<1> QED
  BY <1>1, <1>2, <1>3 DEF IInv

\* The level the master reads is not cut off.
LEMMA LevelIsExact ==
    ASSUME IInv, state = 0
    PROVE  wusedw = Fill
<1>1. Fill \in Nat /\ Fill < Fifo_Depth /\ Fifo_Depth \in Nat
  BY FrameAssumption DEF IInv, MasterTypeOK, FillInv, Fill
<1> QED
  BY <1>1 DEF wusedw, Fill

\* What the write side of the FIFO does to its level.
LEMMA WriteFills ==
    ASSUME MasterTypeOK, NEW data \in Seq(Words), WriteFifo(data)
    PROVE  /\ fifo' \in Seq(Words) /\ unseen' \in 0 .. MaxUnseen /\ late' \in 0 .. MaxLate
           /\ Fill \in Nat /\ Fill' \in Nat /\ Fill' <= Fill + Len(data)
<1>1. /\ fifo \in Seq(Words) /\ Len(fifo) \in Nat
      /\ unseen \in 0 .. MaxUnseen /\ MaxUnseen \in Nat
  BY LenProperties, FrameAssumption DEF MasterTypeOK
<1>2. Len(data) \in Nat
  BY LenProperties
<1>5. late' \in 0 .. MaxLate
  BY FrameAssumption DEF WriteFifo
<1>3. CASE mStart /\ mStart'
  <2>1. fifo' = fifo \o data /\ unseen' \in 0 .. unseen
    BY <1>3 DEF WriteFifo
  <2>2. fifo' \in Seq(Words) /\ Len(fifo') = Len(fifo) + Len(data)
    BY <1>1, <2>1, ConcatProperties
  <2>3. unseen' \in Nat /\ unseen' <= unseen /\ unseen' \in 0 .. MaxUnseen
    BY <1>1, <2>1
  <2>4. Fill = Len(fifo) + unseen /\ Fill' = Len(fifo') + unseen'
    BY DEF Fill
  <2> QED
    BY <1>1, <1>2, <1>5, <2>2, <2>3, <2>4
<1>4. CASE ~(mStart /\ mStart')
  <2>1. fifo' = <<>> /\ unseen' = 0
    BY <1>4 DEF WriteFifo
  <2>2. fifo' \in Seq(Words) /\ Len(fifo') = 0
    BY <2>1, EmptySeq
  <2>3. Fill = Len(fifo) + unseen /\ Fill' = 0 /\ unseen' \in 0 .. MaxUnseen
    BY <1>1, <2>1, <2>2 DEF Fill
  <2> QED
    BY <1>1, <1>2, <1>5, <2>2, <2>3
<1> QED
  BY <1>3, <1>4, <1>5

\* ... when no word arrives.
LEMMA NothingWritten ==
    ASSUME IInv, WriteFifo(<<>>)
    PROVE  /\ fifo' \in Seq(Words) /\ unseen' \in 0 .. MaxUnseen /\ late' \in 0 .. MaxLate
           /\ Fill \in Nat /\ Fill' \in Nat /\ Fill' <= Fill
<1>1. MasterTypeOK
  BY DEF IInv
<1>2. <<>> \in Seq(Words) /\ Len(<<>>) = 0
  BY EmptySeq
<1>3. /\ fifo' \in Seq(Words) /\ unseen' \in 0 .. MaxUnseen /\ late' \in 0 .. MaxLate
      /\ Fill \in Nat /\ Fill' \in Nat /\ Fill' <= Fill + Len(<<>>)
  BY <1>1, <1>2, WriteFills
<1> QED
  BY <1>2, <1>3

-----------------------------------------------------------------------------
(* The steps of the burst machine.  Rest is what the other registers do at *)
(* a system clock.                                                         *)

Rest == UNCHANGED registers /\ pre_vdh' \in BOOLEAN /\ mStart' \in BOOLEAN

LEMMA StoppedStep ==
    ASSUME IInv, Rest, Stopped
    PROVE  IInv'
<1>1. WriteFifo(<<>>)
  BY DEF Stopped
<1>2. /\ fifo' \in Seq(Words) /\ unseen' \in 0 .. MaxUnseen /\ late' \in 0 .. MaxLate
      /\ Fill' <= Fill /\ Fill \in Nat /\ Fill' \in Nat
  BY <1>1, NothingWritten
<1>3. /\ state' \in {0, 3} /\ rBMPPixelCnt' = 0 /\ rRDDataCnt' = 0
      /\ avm_m1_address' = [base |-> rBMPAddr, word |-> 0]
  BY DEF Stopped
<1>4. MasterTypeOK'
  <2>1. avm_m1_address' \in Words
    BY <1>3, FrameAssumption DEF Words, IInv, MasterTypeOK
  <2> QED
    BY <1>2, <1>3, <2>1, FrameAssumption DEF IInv, MasterTypeOK, Rest, registers
<1>5. FillInv'
  <2>1. Fill < 2 * RD_LENGTH
    BY DEF IInv, FillInv, Stopped
  <2> QED
    BY <1>2, <1>3, <2>1, FrameAssumption DEF FillInv
<1>6. AddressInv'
  <2>1. Aligned(0)
    BY FrameAssumption DEF Aligned
  <2> QED
    BY <1>3, <2>1 DEF AddressInv
<1> QED
  BY <1>4, <1>5, <1>6 DEF IInv

LEMMA DecideStep ==
    ASSUME IInv, Rest, Decide
    PROVE  IInv'
<1>1. WriteFifo(<<>>)
  BY DEF Decide
<1>2. /\ fifo' \in Seq(Words) /\ unseen' \in 0 .. MaxUnseen /\ late' \in 0 .. MaxLate
      /\ Fill' <= Fill /\ Fill \in Nat /\ Fill' \in Nat
  BY <1>1, NothingWritten
<1>3. state' \in {0, 1, 3} /\ rRDDataCnt' = 0 /\ (state' = 1 => wusedw < RD_LENGTH)
  BY DEF Decide, room
<1>4. /\ rBMPPixelCnt' \in 0 .. BMPLENGTH /\ rBMPPixelCnt' < BMPLENGTH
      /\ avm_m1_address'.word = rBMPPixelCnt'
      /\ avm_m1_address' \in Words
      /\ Aligned(rBMPPixelCnt')
  <2>1. /\ avm_m1_address.word = rBMPPixelCnt /\ Aligned(rBMPPixelCnt)
        /\ rBMPPixelCnt \in 0 .. BMPLENGTH /\ avm_m1_address \in Words
        /\ rBMPAddr \in {0, 1}
    BY DEF IInv, AddressInv, MasterTypeOK, Decide
  <2>2. CASE frame_done
    <3>1. /\ avm_m1_address' = [base |-> rBMPAddr, word |-> 0]
          /\ rBMPPixelCnt' = 0
      BY <2>2 DEF Decide
    <3> QED
      BY <2>1, <3>1, FrameAssumption DEF Words, Aligned
  <2>3. CASE ~frame_done
    <3>1. avm_m1_address' = avm_m1_address /\ rBMPPixelCnt' = rBMPPixelCnt
      BY <2>3 DEF Decide
    <3>2. rBMPPixelCnt < BMPLENGTH
      BY <2>1, <2>3, FrameAssumption DEF frame_done
    <3> QED
      BY <2>1, <3>1, <3>2
  <2> QED
    BY <2>2, <2>3
<1>5. MasterTypeOK'
  BY <1>2, <1>3, <1>4, FrameAssumption DEF IInv, MasterTypeOK, Rest, registers
<1>6. FillInv'
  <2>1. Fill < 2 * RD_LENGTH /\ wusedw = Fill
    BY LevelIsExact DEF IInv, FillInv, Decide
  <2> QED
    BY <1>2, <1>3, <2>1, FrameAssumption DEF FillInv
<1>7. AddressInv'
  BY <1>3, <1>4 DEF AddressInv
<1> QED
  BY <1>5, <1>6, <1>7 DEF IInv

LEMMA CommandStep ==
    ASSUME IInv, Rest, CommandTaken
    PROVE  IInv'
<1>1. WriteFifo(<<>>)
  BY DEF CommandTaken
<1>2. /\ fifo' \in Seq(Words) /\ unseen' \in 0 .. MaxUnseen /\ late' \in 0 .. MaxLate
      /\ Fill' <= Fill /\ Fill \in Nat /\ Fill' \in Nat
  BY <1>1, NothingWritten
<1>3. state = 1 /\ state' = 2 /\ rRDDataCnt' = 0 /\ rBMPPixelCnt' = rBMPPixelCnt
  BY DEF CommandTaken
<1>4. /\ avm_m1_address.word = rBMPPixelCnt /\ Aligned(rBMPPixelCnt)
      /\ rBMPPixelCnt \in Nat /\ rBMPPixelCnt < BMPLENGTH /\ avm_m1_address \in Words
  BY <1>3, FrameAssumption DEF IInv, AddressInv, MasterTypeOK
<1>5. rBMPPixelCnt + RD_LENGTH <= BMPLENGTH
  BY <1>4, BurstFits
<1>6. /\ avm_m1_address' = [avm_m1_address EXCEPT !.word = @ + RD_LENGTH]
      /\ avm_m1_address'.word = rBMPPixelCnt + RD_LENGTH
  BY <1>4 DEF CommandTaken, Words
<1>7. avm_m1_address' \in Words
  BY <1>4, <1>5, <1>6, FrameAssumption DEF Words
<1>8. MasterTypeOK'
  BY <1>2, <1>3, <1>4, <1>7, FrameAssumption DEF IInv, MasterTypeOK, Rest, registers
<1>9. FillInv'
  <2>1. Fill < RD_LENGTH
    BY <1>3 DEF IInv, FillInv
  <2> QED
    BY <1>2, <1>3, <2>1, FrameAssumption DEF FillInv
<1>10. AddressInv'
  <2>1. rBMPPixelCnt' - rRDDataCnt' = rBMPPixelCnt
    BY <1>3, <1>4
  <2> QED
    BY <1>3, <1>4, <1>5, <1>6, <2>1, FrameAssumption DEF AddressInv
<1> QED
  BY <1>8, <1>9, <1>10 DEF IInv

LEMMA DataStep ==
    ASSUME IInv, Rest, DataValid
    PROVE  IInv'
<1>1. state = 2
  BY DEF DataValid
<1>2. /\ rBMPPixelCnt \in Nat /\ rRDDataCnt \in 0 .. RD_LENGTH - 1
      /\ rBMPPixelCnt >= rRDDataCnt /\ avm_m1_address \in Words
      /\ avm_m1_address.word = rBMPPixelCnt - rRDDataCnt + RD_LENGTH
      /\ avm_m1_address.word <= BMPLENGTH
      /\ Aligned(rBMPPixelCnt - rRDDataCnt)
      /\ RD_LENGTH \in Nat /\ RD_LENGTH > 0 /\ BMPLENGTH \in Nat
  BY <1>1, FrameAssumption DEF IInv, AddressInv, MasterTypeOK
<1>3. Datum \in Words
  <2>1. /\ avm_m1_address.base \in {0, 1}
        /\ avm_m1_address.word - RD_LENGTH + rRDDataCnt \in 0 .. BMPLENGTH
    BY <1>2 DEF Words
  <2> QED
    BY <2>1 DEF Datum, Words
<1>4. <<Datum>> \in Seq(Words) /\ Len(<<Datum>>) = 1
  BY <1>3
<1>5. /\ fifo' \in Seq(Words) /\ unseen' \in 0 .. MaxUnseen /\ late' \in 0 .. MaxLate
      /\ Fill' <= Fill + 1 /\ Fill \in Nat /\ Fill' \in Nat
  <2>1. MasterTypeOK /\ WriteFifo(<<Datum>>)
    BY DEF IInv, DataValid
  <2>2. /\ fifo' \in Seq(Words) /\ unseen' \in 0 .. MaxUnseen /\ late' \in 0 .. MaxLate
        /\ Fill \in Nat /\ Fill' \in Nat /\ Fill' <= Fill + Len(<<Datum>>)
    BY <1>4, <2>1, WriteFills
  <2> QED
    BY <1>4, <2>2
<1>6. Fill < RD_LENGTH + rRDDataCnt
  BY <1>1 DEF IInv, FillInv
<1>7. /\ rBMPPixelCnt' = rBMPPixelCnt + 1 /\ avm_m1_address' = avm_m1_address
      /\ rRDDataCnt' = IF last_word THEN 0 ELSE rRDDataCnt + 1
      /\ state' = IF last_word THEN 0 ELSE 2
  BY DEF DataValid
<1>8. CASE last_word
  <2>1. rRDDataCnt = RD_LENGTH - 1
    BY <1>2, <1>8 DEF last_word
  <2>2. state' = 0 /\ rRDDataCnt' = 0
    BY <1>7, <1>8
  <2>3. rBMPPixelCnt' = (rBMPPixelCnt - rRDDataCnt) + RD_LENGTH
    BY <1>2, <1>7, <2>1
  <2>4. Aligned(rBMPPixelCnt')
    BY <1>2, <2>3, NextAligned
  <2>5. MasterTypeOK'
    BY <1>2, <1>5, <1>7, <2>2, <2>3 DEF IInv, MasterTypeOK, Rest, registers
  <2>6. FillInv'
    BY <1>2, <1>5, <1>6, <2>1, <2>2 DEF FillInv
  <2>7. AddressInv'
    BY <1>2, <1>7, <2>2, <2>3, <2>4 DEF AddressInv
  <2> QED
    BY <2>5, <2>6, <2>7 DEF IInv
<1>9. CASE ~last_word
  <2>1. rRDDataCnt < RD_LENGTH - 1
    BY <1>2, <1>9 DEF last_word
  <2>2. state' = 2 /\ rRDDataCnt' = rRDDataCnt + 1
    BY <1>7, <1>9
  <2>3. rBMPPixelCnt' - rRDDataCnt' = rBMPPixelCnt - rRDDataCnt
    BY <1>2, <1>7, <2>2
  <2>4. rBMPPixelCnt' <= BMPLENGTH
    BY <1>2, <1>7, <2>1
  <2>5. MasterTypeOK'
    BY <1>2, <1>5, <1>7, <2>1, <2>2, <2>4 DEF IInv, MasterTypeOK, Rest, registers
  <2>6. FillInv'
    BY <1>2, <1>5, <1>6, <2>2 DEF FillInv
  <2>7. AddressInv'
    BY <1>2, <1>7, <2>2, <2>3 DEF AddressInv
  <2> QED
    BY <2>5, <2>6, <2>7 DEF IInv
<1> QED
  BY <1>8, <1>9

LEMMA WaitStep ==
    ASSUME IInv, Rest, MemoryWaits
    PROVE  IInv'
<1>1. WriteFifo(<<>>)
  BY DEF MemoryWaits
<1>2. /\ fifo' \in Seq(Words) /\ unseen' \in 0 .. MaxUnseen /\ late' \in 0 .. MaxLate
      /\ Fill' <= Fill /\ Fill \in Nat /\ Fill' \in Nat
  BY <1>1, NothingWritten
<1>3. UNCHANGED machine
  BY DEF MemoryWaits
<1>4. MasterTypeOK'
  BY <1>2, <1>3 DEF IInv, MasterTypeOK, Rest, registers, machine
<1>5. FillInv'
  BY <1>2, <1>3, FrameAssumption DEF IInv, MasterTypeOK, FillInv, machine
<1>6. AddressInv'
  BY <1>3 DEF IInv, AddressInv, machine
<1> QED
  BY <1>4, <1>5, <1>6 DEF IInv

LEMMA ReadStep ==
    ASSUME IInv, ReadFifo
    PROVE  IInv'
<1>1. /\ fifo \in Seq(Words) /\ fifo # <<>> /\ fifo' = Tail(fifo)
      /\ unseen \in 0 .. MaxUnseen /\ late' = late
  <2>1. /\ fifo \in Seq(Words) /\ late \in Nat /\ Len(fifo) > late /\ fifo' = Tail(fifo)
        /\ unseen \in 0 .. MaxUnseen /\ late' = late
    BY DEF IInv, MasterTypeOK, ReadFifo, Readable
  <2> QED
    BY <2>1, EmptySeq
<1>2. /\ fifo' \in Seq(Words) /\ Len(fifo') = Len(fifo) - 1
      /\ Len(fifo) \in Nat /\ Len(fifo') \in Nat
  BY <1>1, HeadTailProperties, LenProperties
<1>3. unseen' \in 0 .. MaxUnseen /\ unseen' <= unseen + 1
  BY <1>1, FrameAssumption DEF ReadFifo
<1>4. Fill' <= Fill /\ Fill \in Nat /\ Fill' \in Nat
  BY <1>1, <1>2, <1>3, FrameAssumption DEF Fill
<1>5. UNCHANGED <<registers, sync, machine>>
  BY DEF ReadFifo
<1>6. MasterTypeOK'
  BY <1>1, <1>2, <1>3, <1>5 DEF IInv, MasterTypeOK, registers, sync, machine
<1>7. FillInv'
  BY <1>4, <1>5, FrameAssumption DEF IInv, MasterTypeOK, FillInv, machine
<1>8. AddressInv'
  BY <1>5 DEF IInv, AddressInv, machine
<1> QED
  BY <1>6, <1>7, <1>8 DEF IInv

LEMMA SoftwareStep ==
    ASSUME IInv, SetBuffer \/ EnableDisplay \/ DisableDisplay
    PROVE  IInv'
<1>1. UNCHANGED <<sync, machine, buffer>>
  BY DEF SetBuffer, EnableDisplay, DisableDisplay
<1>2. rBMPAddr' \in {0, 1} /\ rLcmEn' \in BOOLEAN
      /\ software' \in {"set_buffer", "enable", "done"}
  BY DEF IInv, MasterTypeOK, SetBuffer, EnableDisplay, DisableDisplay
<1> QED
  BY <1>1, <1>2 DEF IInv, MasterTypeOK, FillInv, Fill, AddressInv, sync, machine, buffer

-----------------------------------------------------------------------------

\* Every step keeps the invariant.
LEMMA InvStep == IInv /\ [MasterNext]_master => IInv'
<1> SUFFICES ASSUME IInv, [MasterNext]_master PROVE IInv'
  OBVIOUS
<1>1. CASE SetBuffer \/ EnableDisplay \/ DisableDisplay
  BY <1>1, SoftwareStep
<1>2. ASSUME NEW vd \in BOOLEAN, MasterClock(vd) PROVE IInv'
  <2>1. Rest
    BY <1>2 DEF MasterClock, FollowSync, Rest, IInv, MasterTypeOK
  <2>2. Stopped \/ Decide \/ CommandTaken \/ DataValid \/ MemoryWaits
    BY <1>2 DEF MasterClock, MemoryAnswers
  <2> QED
    BY <2>1, <2>2, StoppedStep, DecideStep, CommandStep, DataStep, WaitStep
<1>3. CASE ReadFifo
  BY <1>3, ReadStep
<1>4. CASE UNCHANGED master
  BY <1>4 DEF IInv, MasterTypeOK, FillInv, Fill, AddressInv, master, registers, sync,
              machine, buffer
<1> QED
  BY <1>1, <1>2, <1>3, <1>4 DEF MasterNext

\* The invariant holds always.
THEOREM Invariance == MasterSpec => []IInv
<1>1. MasterInit => IInv
  BY InvInit
<1>2. IInv /\ [MasterNext]_master => IInv'
  BY InvStep
<1> QED
  BY <1>1, <1>2, PTL DEF MasterSpec

\* The FIFO between the two clocks never holds two bursts, so it never
\* overflows and the fill level is never cut off.
THEOREM FifoIsBounded == MasterSpec => []NeverTwoBursts
<1>1. IInv => NeverTwoBursts
  <2> SUFFICES ASSUME IInv PROVE NeverTwoBursts
    OBVIOUS
  <2>1. state \in 0 .. 3 /\ rRDDataCnt \in 0 .. RD_LENGTH - 1 /\ Fill \in Nat
    BY FrameAssumption DEF IInv, MasterTypeOK, Fill
  <2> QED
    BY <2>1, FrameAssumption DEF IInv, FillInv, Fill, NeverTwoBursts
<1> QED
  BY <1>1, Invariance, PTL

\* No burst runs past the end of the frame.
THEOREM BurstsStayInFrame == MasterSpec => []BurstInFrame
<1>1. IInv => BurstInFrame
  <2> SUFFICES ASSUME IInv, state = 1
               PROVE  avm_m1_address.word + RD_LENGTH <= BMPLENGTH
    BY DEF BurstInFrame
  <2>1. /\ avm_m1_address.word = rBMPPixelCnt /\ Aligned(rBMPPixelCnt)
        /\ rBMPPixelCnt \in Nat /\ rBMPPixelCnt < BMPLENGTH
    BY FrameAssumption DEF IInv, AddressInv, MasterTypeOK
  <2> QED
    BY <2>1, BurstFits
<1> QED
  BY <1>1, Invariance, PTL

-----------------------------------------------------------------------------
(* The reader wired to the panel: the sync is a truth value, which is all    *)
(* that the mapping needs to know of the timing.                             *)

TimingInv == mvd \in BOOLEAN /\ oVD \in BOOLEAN

LEMMA TimingHolds == Spec => []TimingInv
<1>1. Init => TimingInv
  BY DEF Init, TconInit, TimingInv
<1>2. TimingInv /\ [Next]_vars => TimingInv'
  <2> SUFFICES ASSUME TimingInv, [Next]_vars PROVE TimingInv'
    OBVIOUS
  <2>1. CASE Software
    BY <2>1 DEF Software, TimingInv, tcon
  <2>2. CASE SystemClock
    BY <2>2 DEF SystemClock, TimingInv, tcon
  <2>3. CASE RequestPixel
    BY <2>3 DEF RequestPixel, PixelClock, Sync, TimingInv
  <2>4. CASE UNCHANGED vars
    BY <2>4 DEF vars, TimingInv, tcon
  <2> QED
    BY <2>1, <2>2, <2>3, <2>4 DEF Next
<1> QED
  BY <1>1, <1>2, PTL DEF Spec

\* A step of the composed system is a step of the reader, or none.
LEMMA StepMaps == TimingInv /\ [Next]_vars => [MasterNext]_master
<1> SUFFICES ASSUME TimingInv, [Next]_vars PROVE [MasterNext]_master
  OBVIOUS
<1>1. CASE Software
  BY <1>1 DEF Software, MasterNext
<1>2. CASE SystemClock
  BY <1>2 DEF SystemClock, MasterNext, TimingInv
<1>3. CASE RequestPixel
  BY <1>3 DEF RequestPixel, MasterNext
<1>4. CASE UNCHANGED vars
  BY <1>4 DEF vars
<1> QED
  BY <1>1, <1>2, <1>3, <1>4 DEF Next

\* The reader wired to the panel is the reader of LtmMaster: Display drives it
\* only in ways LtmMaster already allows.
THEOREM DisplayImplementsMaster == Spec => MasterSpec
<1>1. Init => MasterInit
  BY DEF Init
<1> QED
  BY <1>1, TimingHolds, StepMaps, PTL DEF Spec, MasterSpec

\* With the panel attached the FIFO never holds two bursts either.
THEOREM DisplayNeverTwoBursts == Spec => []NeverTwoBursts
  BY DisplayImplementsMaster, FifoIsBounded, PTL

\* ... and no burst runs past the end of the frame.
THEOREM DisplayBurstInFrame == Spec => []BurstInFrame
  BY DisplayImplementsMaster, BurstsStayInFrame, PTL

-----------------------------------------------------------------------------
(* The picture.  Three things make it right: the sync starts the reader at *)
(* one place of the frame, what is in the FIFO and what comes next follows *)
(* on from the pixel the panel is at, and the FIFO cannot run dry before   *)
(* the next word comes.                                                    *)

\* The sync falls at one place of the frame, soon enough before the picture.
SyncInv ==
    /\ mvd <=> IF x_cnt = 0 THEN y_cnt # 1 ELSE y_cnt # 0
    /\ x_cnt # 0 \/ y_cnt # 0 =>
           (oVD <=> ~(y_cnt = 0 /\ x_cnt > 1) /\ ~(y_cnt = 1 /\ x_cnt < 2))
    /\ clocks > 0 => (pre_vdh <=> oVD)
    /\ pre_vdh /\ ~oVD => y_cnt = 0 /\ x_cnt = 2 /\ clocks = 0

\* While it is shown, the display shows the buffer main set, from its beginning.
StartInv ==
    /\ software # "set_buffer" => rBMPAddr = 1
    /\ rLcmEn \/ mStart => software # "set_buffer"
    /\ ~mStart => fifo = <<>>
    /\ state = 3 /\ mStart => fifo = <<>> /\ rBMPPixelCnt = 0

\* Places that differ by whole frames.
Same(a, b) == \E k \in Int : a = b + k * BMPLENGTH

\* The pixel of the frame the panel requests next.
NextColumn ==
    IF x_cnt < Hsync_Blank THEN 0
    ELSE IF x_cnt < H_LINE - Hsync_Front_Porch - 1 THEN x_cnt - (Hsync_Blank - 1)
    ELSE Width
Pos == IF DisplayLine THEN (y_cnt - Vertical_Back_Porch) * Width + NextColumn ELSE 0

\* The FIFO holds the words of the next pixels, and the next word to arrive
\* is that of the pixel after them.
OrderInv ==
    mStart =>
        /\ state # 3 => avm_m1_address.base = 1
        /\ Same(Pos + Len(fifo), rBMPPixelCnt)
        /\ \A i \in 1 .. Len(fifo) : /\ fifo[i].base = 1 /\ fifo[i].word < BMPLENGTH
                                     /\ Same(Pos + (i - 1), fifo[i].word)

\* System clocks until the panel finds the FIFO empty, if nothing arrives and
\* there is no blanking but the rest of line 0.
Lead == IF y_cnt = 0 THEN (H_LINE - x_cnt) * ClocksPerPixel ELSE 0
Dry == Len(fifo) * ClocksPerPixel + (ClocksPerPixel - clocks) + Lead

\* System clocks until a stopped burst machine rests at the latest.
Finish ==
    CASE state = 3 -> 0
      [] state = 0 -> 1
      [] state = 1 -> MaxStall - stalls + RD_LENGTH + 2
      [] state = 2 -> MaxStall - stalls + (RD_LENGTH - rRDDataCnt) + 1

\* The machine rests before the display can be started again.
StopInv ==
    ~mStart /\ state # 3 =>
        /\ y_cnt = 0 /\ x_cnt >= 2 /\ ~(pre_vdh /\ ~oVD)
        /\ Lead >= clocks + Finish

\* System clocks until the next word arrives at the latest; inside a burst,
\* with what the words already received must have put by.
Need ==
    CASE state = 3 -> MaxStall + 4
      [] state = 0 -> MaxStall + 3
      [] state = 1 -> MaxStall - stalls + 2
      [] state = 2 -> MaxStall - stalls + 1 + rRDDataCnt * (ClocksPerPixel - 1)

\* The words that cannot be read yet do not count.
Hidden == MaxLate * ClocksPerPixel

SpeedInv == mStart => Dry >= Hidden + Need

\* The enable signals follow the counters.
EnableInv ==
    x_cnt <= H_LINE - Hsync_Front_Porch =>
        /\ x_cnt > Hsync_Blank => (mden <=> DisplayLine)
        /\ x_cnt > Hsync_Blank + 1 => (oDEN <=> DisplayLine)

\* After a request the colour register holds the word requested.
ColourInv ==
    mStart /\ DisplayLine /\ x_cnt \in Hsync_Blank .. H_LINE - Hsync_Front_Porch - 1 =>
        oLCD = [base |-> 1,
                word |-> (y_cnt - Vertical_Back_Porch) * Width + (x_cnt - Hsync_Blank)]

PictureInv ==
    /\ IInv /\ TypeOK /\ SyncInv /\ StartInv /\ StopInv /\ OrderInv /\ SpeedInv
    /\ EnableInv /\ ColourInv

-----------------------------------------------------------------------------
(* Counting modulo the frame. *)

LEMMA SameRefl == \A a \in Int : Same(a, a)
<1> TAKE a \in Int
<1>1. a = a + 0 * BMPLENGTH
  BY FrameAssumption
<1> QED
  BY <1>1 DEF Same

LEMMA SameTrans ==
    ASSUME NEW a \in Int, NEW b \in Int, NEW c \in Int, Same(a, b), Same(b, c)
    PROVE  Same(a, c)
<1>1. PICK k \in Int : a = b + k * BMPLENGTH
  BY DEF Same
<1>2. PICK l \in Int : b = c + l * BMPLENGTH
  BY DEF Same
<1>3. (k + l) * BMPLENGTH = k * BMPLENGTH + l * BMPLENGTH /\ k + l \in Int
  BY FrameAssumption
<1>4. a = c + (k + l) * BMPLENGTH
  BY <1>1, <1>2, <1>3, FrameAssumption
<1> QED
  BY <1>3, <1>4 DEF Same

LEMMA SameShift ==
    ASSUME NEW a \in Int, NEW b \in Int, NEW c \in Int, Same(a, b)
    PROVE  Same(a + c, b + c)
<1>1. PICK k \in Int : a = b + k * BMPLENGTH
  BY DEF Same
<1>2. k * BMPLENGTH \in Int
  BY FrameAssumption
<1>3. a + c = (b + c) + k * BMPLENGTH
  BY <1>1, <1>2
<1> QED
  BY <1>3 DEF Same

\* The end of the frame is its beginning.
LEMMA SameFrame == Same(0, BMPLENGTH) /\ Same(BMPLENGTH, 0)
<1>1. 0 = BMPLENGTH + (-1) * BMPLENGTH /\ BMPLENGTH = 0 + 1 * BMPLENGTH
  BY FrameAssumption
<1>2. -1 \in Int /\ 1 \in Int
  OBVIOUS
<1> QED
  BY <1>1, <1>2 DEF Same

\* Inside the frame a place is the same as itself only.
LEMMA SameEqual ==
    ASSUME NEW a \in 0 .. BMPLENGTH - 1, NEW b \in 0 .. BMPLENGTH - 1, Same(a, b)
    PROVE  a = b
<1>1. PICK k \in Int : a = b + k * BMPLENGTH
  BY DEF Same
<1>2. BMPLENGTH \in Nat /\ BMPLENGTH > 0
  BY FrameAssumption
<1>3. ~(k >= 1)
  <2>1. SUFFICES ASSUME k >= 1 PROVE FALSE
    OBVIOUS
  <2>2. k * BMPLENGTH >= BMPLENGTH
    BY <1>2, <2>1
  <2> QED
    BY <1>1, <1>2, <2>2
<1>4. ~(k <= -1)
  <2>1. SUFFICES ASSUME k <= -1 PROVE FALSE
    OBVIOUS
  <2>2. k * BMPLENGTH <= -BMPLENGTH
    BY <1>2, <2>1
  <2> QED
    BY <1>1, <1>2, <2>2
<1>5. k = 0
  BY <1>3, <1>4
<1> QED
  BY <1>1, <1>2, <1>5

-----------------------------------------------------------------------------
(* The panel's side. *)

\* The constants of the timing, with what makes them a picture.
LEMMA TimingFacts ==
    /\ {H_LINE, V_LINE, Hsync_Blank, Hsync_Front_Porch, Vertical_Back_Porch,
        Vertical_Front_Porch, Width, Height} \subseteq Nat
    /\ Width > 0 /\ Height > 0 /\ Hsync_Blank > 1 /\ Vertical_Back_Porch > 0
    /\ H_LINE = Hsync_Blank + Width + Hsync_Front_Porch /\ Hsync_Front_Porch > 0
    /\ V_LINE = Vertical_Back_Porch + Height + Vertical_Front_Porch
    /\ Vertical_Front_Porch > 0
  BY TimingAssumption DEF Width, Height

\* The counters keep their ranges, and the sync its place.
LEMMA PixelSync ==
    ASSUME TypeOK, SyncInv, PixelClock(rddata), clocks = ClocksPerPixel, clocks' = 0,
           pre_vdh' = pre_vdh
    PROVE  /\ x_cnt' \in 0 .. H_LINE - 1 /\ y_cnt' \in 0 .. V_LINE - 1
           /\ mvd' \in BOOLEAN /\ mden' \in BOOLEAN
           /\ oVD' \in BOOLEAN /\ oDEN' \in BOOLEAN
           /\ SyncInv'
<1>1. /\ x_cnt \in 0 .. H_LINE - 1 /\ y_cnt \in 0 .. V_LINE - 1
      /\ mvd \in BOOLEAN /\ mden \in BOOLEAN /\ oVD \in BOOLEAN /\ oDEN \in BOOLEAN
  BY DEF TypeOK
<1>2. /\ x_cnt' = IF x_cnt = H_LINE - 1 THEN 0 ELSE x_cnt + 1
      /\ y_cnt' = IF x_cnt # H_LINE - 1 THEN y_cnt
                   ELSE IF y_cnt = V_LINE - 1 THEN 0 ELSE y_cnt + 1
  BY DEF PixelClock, CountX, CountY
<1>3. mvd' = (y_cnt # 0) /\ oVD' = mvd /\ mden' = display_area /\ oDEN' = mden
  BY DEF PixelClock, Sync
<1>4. /\ H_LINE \in Nat /\ V_LINE \in Nat /\ H_LINE > 3 /\ V_LINE > 2
  BY TimingFacts
<1>5. x_cnt' \in 0 .. H_LINE - 1 /\ y_cnt' \in 0 .. V_LINE - 1
  BY <1>1, <1>2, <1>4
<1>6. display_area \in BOOLEAN
  BY DEF display_area
<1>7. clocks > 0 /\ ~(clocks' > 0)
  BY ClocksAssumption
<1>8. pre_vdh <=> oVD
  BY <1>7 DEF SyncInv
<1>9. /\ mvd <=> IF x_cnt = 0 THEN y_cnt # 1 ELSE y_cnt # 0
      /\ x_cnt # 0 \/ y_cnt # 0 =>
             (oVD <=> ~(y_cnt = 0 /\ x_cnt > 1) /\ ~(y_cnt = 1 /\ x_cnt < 2))
  BY DEF SyncInv
<1>10. mvd' <=> IF x_cnt' = 0 THEN y_cnt' # 1 ELSE y_cnt' # 0
  <2>1. y_cnt # 0 <=> IF x_cnt' = 0 THEN y_cnt' # 1 ELSE y_cnt' # 0
    BY <1>1, <1>2, <1>4
  <2>2. mvd' <=> y_cnt # 0
    BY <1>3
  <2> QED
    BY <2>1, <2>2
<1>11. oVD' <=> ~(y_cnt' = 0 /\ x_cnt' > 1) /\ ~(y_cnt' = 1 /\ x_cnt' < 2)
  BY <1>1, <1>2, <1>3, <1>4, <1>9
<1>12. pre_vdh' /\ ~oVD' => y_cnt' = 0 /\ x_cnt' = 2
  BY <1>1, <1>2, <1>3, <1>4, <1>8, <1>9
<1>13. SyncInv'
  BY <1>7, <1>10, <1>11, <1>12 DEF SyncInv
<1> QED
  BY <1>1, <1>3, <1>5, <1>6, <1>13

\* A pixel that is requested is the next one of the frame.
LEMMA HereIsPos ==
    ASSUME x_cnt \in 0 .. H_LINE - 1, y_cnt \in 0 .. V_LINE - 1, oREAD_SDRAM_EN
    PROVE  /\ Pos \in Nat /\ Pos < BMPLENGTH
           /\ Here = [base |-> 1, word |-> Pos] /\ y_cnt # 0
<1>1. PICK w \in Nat, h \in Nat : w = Width /\ h = Height
  BY TimingFacts
<1>2. /\ w > 0 /\ h > 0 /\ Hsync_Blank > 1 /\ Vertical_Back_Porch > 0
      /\ H_LINE = Hsync_Blank + w + Hsync_Front_Porch
      /\ V_LINE = Vertical_Back_Porch + h + Vertical_Front_Porch
      /\ Hsync_Blank \in Nat /\ Hsync_Front_Porch \in Nat
      /\ Vertical_Back_Porch \in Nat /\ Vertical_Front_Porch \in Nat
  BY <1>1, TimingFacts
<1>3. /\ x_cnt >= Hsync_Blank - 1 /\ x_cnt < Hsync_Blank - 1 + w
      /\ y_cnt >= Vertical_Back_Porch /\ y_cnt < Vertical_Back_Porch + h /\ DisplayLine
  BY <1>2 DEF oREAD_SDRAM_EN, DisplayLine
<1>4. PICK r \in Nat, q \in Nat : r = y_cnt - Vertical_Back_Porch /\ r < h /\ q = r * w
  BY <1>2, <1>3
<1>5. PICK n \in Nat : n = x_cnt - (Hsync_Blank - 1) /\ n < w /\ NextColumn = n
  BY <1>1, <1>2, <1>3 DEF NextColumn
<1>6. Pos = q + n
  BY <1>1, <1>3, <1>4, <1>5 DEF Pos
<1>7. q + w <= BMPLENGTH /\ BMPLENGTH \in Nat
  <2>1. (r + 1) * w = q + w /\ (r + 1) * w <= w * h
    BY <1>4
  <2> QED
    BY <1>1, <2>1, FrameIsPicture, FrameAssumption
<1>8. Here.word = q + n
  <2>1. Here.word = q + x_cnt - (Hsync_Blank - 1)
    BY <1>1, <1>4 DEF Here
  <2> QED
    BY <1>2, <1>5, <2>1
<1>9. Here = [base |-> 1, word |-> Here.word]
  BY DEF Here
<1> QED
  BY <1>2, <1>3, <1>5, <1>6, <1>7, <1>8, <1>9

\* What a pixel clock does to the pixel that comes next.
LEMMA PosStep ==
    ASSUME x_cnt \in 0 .. H_LINE - 1, y_cnt \in 0 .. V_LINE - 1, PixelClock(rddata)
    PROVE  /\ Pos \in Nat /\ Pos' \in Nat
           /\ oREAD_SDRAM_EN => Pos' = Pos + 1
           /\ ~oREAD_SDRAM_EN => Same(Pos', Pos)
<1>1. /\ x_cnt' = IF x_cnt = H_LINE - 1 THEN 0 ELSE x_cnt + 1
      /\ y_cnt' = IF x_cnt # H_LINE - 1 THEN y_cnt
                   ELSE IF y_cnt = V_LINE - 1 THEN 0 ELSE y_cnt + 1
  BY DEF PixelClock, CountX, CountY
<1>2. PICK w \in Nat, h \in Nat : w = Width /\ h = Height
  BY TimingFacts
<1>3. /\ w > 0 /\ h > 0 /\ Hsync_Blank > 1 /\ Vertical_Back_Porch > 0
      /\ H_LINE = Hsync_Blank + w + Hsync_Front_Porch /\ Hsync_Front_Porch > 0
      /\ V_LINE = Vertical_Back_Porch + h + Vertical_Front_Porch
      /\ Vertical_Front_Porch > 0
      /\ H_LINE \in Nat /\ V_LINE \in Nat /\ Hsync_Blank \in Nat
      /\ Hsync_Front_Porch \in Nat /\ Vertical_Back_Porch \in Nat
      /\ Vertical_Front_Porch \in Nat
  BY <1>2, TimingFacts
<1>4. BMPLENGTH = w * h /\ BMPLENGTH \in Nat
  BY <1>2, FrameIsPicture, FrameAssumption
<1>5. ASSUME ~DisplayLine PROVE Pos = 0 /\ ~oREAD_SDRAM_EN
  BY <1>5 DEF Pos, oREAD_SDRAM_EN
<1>6. ASSUME ~DisplayLine' PROVE Pos' = 0
  BY <1>6 DEF Pos
<1>7. /\ DisplayLine <=> y_cnt >= Vertical_Back_Porch /\ y_cnt < Vertical_Back_Porch + h
      /\ DisplayLine' <=> y_cnt' >= Vertical_Back_Porch /\ y_cnt' < Vertical_Back_Porch + h
  <2>1. /\ y_cnt' \in Nat /\ y_cnt \in Nat
    BY <1>1, <1>3
  <2> QED
    BY <1>3, <2>1 DEF DisplayLine
<1>8. NextColumn \in 0 .. w /\ NextColumn' \in 0 .. w /\ (x_cnt' = 0 => NextColumn' = 0)
  BY <1>1, <1>2, <1>3 DEF NextColumn
<1>9. CASE ~DisplayLine
  <2>1. Pos' = 0
    <3>1. CASE DisplayLine'
      <4>1. y_cnt' = Vertical_Back_Porch /\ x_cnt' = 0
        BY <1>1, <1>3, <1>7, <1>9, <3>1
      <4>2. Pos' = (y_cnt' - Vertical_Back_Porch) * Width + NextColumn'
        BY <3>1 DEF Pos
      <4> QED
        BY <1>2, <1>3, <1>8, <4>1, <4>2
    <3>2. CASE ~DisplayLine'
      BY <1>6, <3>2
    <3> QED
      BY <3>1, <3>2
  <2> QED
    BY <1>5, <1>9, <2>1, SameRefl
<1>10. CASE DisplayLine
  <2>1. PICK r \in Nat : r = y_cnt - Vertical_Back_Porch /\ r < h
    BY <1>3, <1>7, <1>10
  <2>2. Pos = r * w + NextColumn
    BY <1>2, <1>10, <2>1 DEF Pos
  <2>3. r * w \in Nat /\ (r + 1) * w = r * w + w
    OBVIOUS
  <2>4. CASE oREAD_SDRAM_EN
    <3>1. /\ x_cnt >= Hsync_Blank - 1 /\ x_cnt < Hsync_Blank - 1 + w
      BY <1>3, <2>4 DEF oREAD_SDRAM_EN
    <3>2. x_cnt' = x_cnt + 1 /\ y_cnt' = y_cnt
      BY <1>1, <1>3, <3>1
    <3>3. NextColumn = x_cnt - (Hsync_Blank - 1) /\ NextColumn' = NextColumn + 1 /\ NextColumn < w
      BY <1>2, <1>3, <3>1, <3>2 DEF NextColumn
    <3>4. DisplayLine'
      BY <1>7, <1>10, <3>2
    <3>5. Pos' = r * w + NextColumn'
      BY <1>2, <2>1, <3>2, <3>4 DEF Pos
    <3>6. Pos' = Pos + 1 /\ Pos \in Nat
      BY <1>8, <2>2, <2>3, <3>3, <3>5
    <3> QED
      BY <2>4, <3>6
  <2>5. CASE ~oREAD_SDRAM_EN
    <3>1. x_cnt < Hsync_Blank - 1 \/ x_cnt >= Hsync_Blank - 1 + w
      BY <1>3, <1>10, <2>5 DEF oREAD_SDRAM_EN
    <3>2. CASE x_cnt # H_LINE - 1
      <4>1. x_cnt' = x_cnt + 1 /\ y_cnt' = y_cnt
        BY <1>1, <3>2
      <4>2. NextColumn' = NextColumn
        BY <1>2, <1>3, <3>1, <4>1 DEF NextColumn
      <4>3. DisplayLine'
        BY <1>7, <1>10, <4>1
      <4>4. Pos' = r * w + NextColumn'
        BY <1>2, <2>1, <4>1, <4>3 DEF Pos
      <4>5. Pos' = Pos /\ Pos \in Nat
        BY <1>8, <2>2, <2>3, <4>2, <4>4
      <4> QED
        BY <2>5, <4>5, SameRefl
    <3>3. CASE x_cnt = H_LINE - 1
      <4>1. x_cnt' = 0 /\ y_cnt' = y_cnt + 1
        BY <1>1, <1>3, <1>7, <1>10, <3>3
      <4>2. NextColumn = w
        BY <1>2, <1>3, <3>3 DEF NextColumn
      <4>3. Pos = (r + 1) * w /\ Pos \in Nat
        BY <2>2, <2>3, <4>2
      <4>4. CASE r + 1 < h
        <5>1. DisplayLine'
          BY <1>3, <1>7, <2>1, <4>1, <4>4
        <5>2. Pos' = (r + 1) * w + NextColumn'
          <6>1. y_cnt' - Vertical_Back_Porch = r + 1
            BY <1>3, <2>1, <4>1
          <6> QED
            BY <1>2, <5>1, <6>1 DEF Pos
        <5>3. Pos' = Pos
          BY <1>8, <4>1, <4>3, <5>2
        <5> QED
          BY <2>5, <4>3, <5>3, SameRefl
      <4>5. CASE r + 1 = h
        <5>1. ~DisplayLine'
          BY <1>3, <1>7, <2>1, <4>1, <4>5
        <5>2. Pos' = 0 /\ Pos = BMPLENGTH
          <6>1. h * w = w * h
            OBVIOUS
          <6> QED
            BY <1>4, <1>6, <4>3, <4>5, <5>1, <6>1
        <5> QED
          BY <2>5, <4>3, <5>2, SameFrame
      <4> QED
        BY <2>1, <4>4, <4>5
    <3> QED
      BY <3>2, <3>3
  <2> QED
    BY <2>4, <2>5
<1> QED
  BY <1>9, <1>10

-----------------------------------------------------------------------------
(* The steps keep the order of the words.                                  *)

\* A read takes the word of the pixel that is requested.
LEMMA OrderRead ==
    ASSUME OrderInv, mStart, fifo \in Seq(Words), fifo # <<>>, fifo' = Tail(fifo),
           Pos \in Nat, Pos' = Pos + 1, UNCHANGED <<machine, mStart>>
    PROVE  OrderInv'
<1>1. /\ Len(fifo) \in Nat /\ Len(fifo') \in Nat /\ Len(fifo') = Len(fifo) - 1
      /\ \A i \in 1 .. Len(fifo') : fifo'[i] = fifo[i + 1]
  BY HeadTailProperties, LenProperties
<1>2. UNCHANGED <<state, avm_m1_address, rBMPPixelCnt>>
  BY DEF machine
<1>3. Pos' + Len(fifo') = Pos + Len(fifo)
  BY <1>1
<1>4. Same(Pos' + Len(fifo'), rBMPPixelCnt')
  BY <1>2, <1>3 DEF OrderInv
<1>5. ASSUME NEW i \in 1 .. Len(fifo')
      PROVE  /\ fifo'[i].base = 1 /\ fifo'[i].word < BMPLENGTH
             /\ Same(Pos' + (i - 1), fifo'[i].word)
  <2>1. /\ i + 1 \in 1 .. Len(fifo) /\ fifo'[i] = fifo[i + 1]
        /\ Pos' + (i - 1) = Pos + ((i + 1) - 1)
    BY <1>1, <1>5
  <2> QED
    BY <2>1 DEF OrderInv
<1> QED
  BY <1>2, <1>4, <1>5 DEF OrderInv

\* The counters move on without a request.
LEMMA OrderBlank ==
    ASSUME OrderInv, IInv, Pos \in Nat, Pos' \in Nat, Same(Pos', Pos),
           UNCHANGED <<machine, mStart, fifo>>
    PROVE  OrderInv'
<1> SUFFICES ASSUME mStart PROVE OrderInv'
  BY DEF OrderInv
<1>1. /\ Len(fifo) \in Nat /\ rBMPPixelCnt \in Int
      /\ \A i \in 1 .. Len(fifo) : fifo[i].word \in Int
  <2>1. fifo \in Seq(Words) /\ rBMPPixelCnt \in 0 .. BMPLENGTH /\ BMPLENGTH \in Nat
    BY FrameAssumption DEF IInv, MasterTypeOK
  <2>2. Len(fifo) \in Nat /\ \A i \in 1 .. Len(fifo) : fifo[i] \in Words
    BY <2>1, LenProperties, ElementOfSeq
  <2> QED
    BY <2>1, <2>2 DEF Words
<1>2. UNCHANGED <<state, avm_m1_address, rBMPPixelCnt>>
  BY DEF machine
<1>3. ASSUME NEW n \in Int, NEW w \in Int, Same(Pos + n, w) PROVE Same(Pos' + n, w)
  <2>1. Same(Pos' + n, Pos + n)
    BY <1>3, SameShift
  <2> QED
    BY <1>3, <2>1, SameTrans
<1>4. Same(Pos' + Len(fifo'), rBMPPixelCnt')
  BY <1>1, <1>2, <1>3 DEF OrderInv
<1>5. ASSUME NEW i \in 1 .. Len(fifo')
      PROVE  /\ fifo'[i].base = 1 /\ fifo'[i].word < BMPLENGTH
             /\ Same(Pos' + (i - 1), fifo'[i].word)
  <2>1. i \in 1 .. Len(fifo) /\ i - 1 \in Int
    BY <1>1, <1>5
  <2> QED
    BY <1>1, <1>3, <2>1 DEF OrderInv
<1> QED
  BY <1>2, <1>4, <1>5 DEF OrderInv

\* A system clock: the first sets the place, a word that arrives is the next.
LEMMA OrderClock ==
    ASSUME IInv, StartInv, StopInv, OrderInv, TypeOK, SyncInv, MasterClock(oVD),
           UNCHANGED tcon
    PROVE  OrderInv'
<1> SUFFICES ASSUME mStart' PROVE OrderInv'
  BY DEF OrderInv
<1>1. Pos' = Pos
  BY DEF Pos, NextColumn, DisplayLine, tcon
<1>2. fifo \in Seq(Words) /\ Len(fifo) \in Nat /\ Pos \in Nat
  <2>1. Pos \in Nat
    <3>1. x_cnt \in Nat /\ y_cnt \in Nat
      BY TimingFacts DEF TypeOK
    <3>2. PICK w \in Nat : w = Width
      BY TimingFacts
    <3>3. NextColumn \in Nat
      BY <3>1, <3>2, TimingFacts DEF NextColumn
    <3>4. CASE DisplayLine
      <4>1. y_cnt - Vertical_Back_Porch \in Nat
        BY <3>1, <3>4, TimingFacts DEF DisplayLine
      <4>2. (y_cnt - Vertical_Back_Porch) * w \in Nat
        BY <4>1
      <4> QED
        BY <3>2, <3>3, <3>4, <4>2 DEF Pos
    <3>5. CASE ~DisplayLine
      BY <3>5 DEF Pos
    <3> QED
      BY <3>4, <3>5
  <2> QED
    BY <2>1, LenProperties DEF IInv, MasterTypeOK
<1>3. CASE ~mStart
  <2>1. y_cnt = 0 /\ state = 3
    BY <1>3 DEF MasterClock, FollowSync, SyncInv, StopInv
  <2>2. Stopped
    BY <2>1 DEF MasterClock, MemoryAnswers, Decide, CommandTaken, DataValid, MemoryWaits
  <2>3. fifo' = <<>> /\ rBMPPixelCnt' = 0 /\ state' = 3
    BY <1>3, <2>2 DEF Stopped, WriteFifo
  <2>4. Pos = 0
    BY <2>1, TimingFacts DEF Pos, DisplayLine
  <2>5. Len(fifo') = 0 /\ Pos' + Len(fifo') = 0
    BY <1>1, <2>3, <2>4, EmptySeq
  <2>6. Same(Pos' + Len(fifo'), rBMPPixelCnt')
    BY <2>3, <2>5, SameRefl
  <2> QED
    BY <2>3, <2>5, <2>6 DEF OrderInv
<1>4. CASE mStart
  <2> USE <1>4
  <2>1. ASSUME fifo' = fifo, rBMPPixelCnt' = rBMPPixelCnt \/ (rBMPPixelCnt = BMPLENGTH /\ rBMPPixelCnt' = 0),
               state' # 3 => avm_m1_address'.base = 1
        PROVE  OrderInv'
    <3>1. Same(Pos + Len(fifo), rBMPPixelCnt')
      <4>1. CASE rBMPPixelCnt' = rBMPPixelCnt
        BY <4>1 DEF OrderInv
      <4>2. CASE rBMPPixelCnt = BMPLENGTH /\ rBMPPixelCnt' = 0
        <5>1. Same(Pos + Len(fifo), BMPLENGTH)
          BY <4>2 DEF OrderInv
        <5>2. Pos + Len(fifo) \in Int /\ BMPLENGTH \in Int /\ 0 \in Int
          BY <1>2, FrameAssumption
        <5> QED
          BY <4>2, <5>1, <5>2, SameFrame, SameTrans
      <4> QED
        BY <2>1, <4>1, <4>2
    <3> QED
      BY <1>1, <2>1, <3>1 DEF OrderInv
  <2>2. ASSUME WriteFifo(<<>>) PROVE fifo' = fifo
    BY <1>2, <2>2, ConcatEmptySeq DEF WriteFifo
  <2>3. CASE Stopped
    <3>1. fifo' = fifo
      BY <2>2, <2>3 DEF Stopped
    <3>2. rBMPPixelCnt' = rBMPPixelCnt
      BY <2>3 DEF Stopped, StartInv
    <3>3. avm_m1_address'.base = 1
      BY <2>3 DEF Stopped, StartInv
    <3> QED
      BY <2>1, <3>1, <3>2, <3>3
  <2>4. CASE Decide
    <3>1. fifo' = fifo
      BY <2>2, <2>4 DEF Decide
    <3>2. rBMPPixelCnt' = rBMPPixelCnt \/ (rBMPPixelCnt = BMPLENGTH /\ rBMPPixelCnt' = 0)
      BY <2>4, FrameAssumption DEF Decide, frame_done, IInv, MasterTypeOK
    <3>3. avm_m1_address'.base = 1
      <4>1. rBMPAddr = 1 /\ avm_m1_address.base = 1
        BY <2>4 DEF Decide, StartInv, OrderInv
      <4>2. avm_m1_address' = [base |-> rBMPAddr, word |-> 0] \/ avm_m1_address' = avm_m1_address
        BY <2>4 DEF Decide
      <4> QED
        BY <4>1, <4>2
    <3> QED
      BY <2>1, <3>1, <3>2, <3>3
  <2>5. CASE CommandTaken
    <3>1. fifo' = fifo
      BY <2>2, <2>5 DEF CommandTaken
    <3>2. rBMPPixelCnt' = rBMPPixelCnt
      BY <2>5 DEF CommandTaken
    <3>3. avm_m1_address'.base = 1
      <4>1. avm_m1_address.base = 1 /\ avm_m1_address \in Words
        BY <2>5 DEF CommandTaken, OrderInv, IInv, MasterTypeOK
      <4>2. avm_m1_address' = [avm_m1_address EXCEPT !.word = @ + RD_LENGTH]
        BY <2>5 DEF CommandTaken
      <4> QED
        BY <4>1, <4>2 DEF Words
    <3> QED
      BY <2>1, <3>1, <3>2, <3>3
  <2>6. CASE MemoryWaits
    <3>1. fifo' = fifo
      BY <2>2, <2>6 DEF MemoryWaits
    <3>2. rBMPPixelCnt' = rBMPPixelCnt /\ avm_m1_address' = avm_m1_address /\ state' = state
      BY <2>6 DEF MemoryWaits, machine
    <3> QED
      BY <2>1, <3>1, <3>2 DEF OrderInv
  <2>7. CASE DataValid
    <3>1. state = 2 /\ rBMPPixelCnt' = rBMPPixelCnt + 1 /\ avm_m1_address' = avm_m1_address
      BY <2>7 DEF DataValid
    <3>2. fifo' = fifo \o <<Datum>>
      BY <2>7 DEF DataValid, WriteFifo
    <3>3. /\ rBMPPixelCnt \in Nat /\ rBMPPixelCnt < BMPLENGTH
          /\ Datum = [base |-> 1, word |-> rBMPPixelCnt] /\ Datum \in Words
      <4>1. /\ rBMPPixelCnt \in 0 .. BMPLENGTH /\ rRDDataCnt \in 0 .. RD_LENGTH - 1
            /\ avm_m1_address.word = rBMPPixelCnt - rRDDataCnt + RD_LENGTH
            /\ avm_m1_address.word <= BMPLENGTH
            /\ avm_m1_address.base = 1
        BY <3>1 DEF IInv, MasterTypeOK, AddressInv, OrderInv
      <4>2. avm_m1_address.word - RD_LENGTH + rRDDataCnt = rBMPPixelCnt
        BY <4>1, FrameAssumption
      <4>3. rBMPPixelCnt < BMPLENGTH /\ rBMPPixelCnt \in Nat
        BY <4>1, FrameAssumption
      <4> QED
        BY <4>1, <4>2, <4>3, FrameAssumption DEF Datum, Words
    <3>4. /\ Len(fifo') = Len(fifo) + 1
          /\ \A i \in 1 .. Len(fifo) : fifo'[i] = fifo[i]
          /\ fifo'[Len(fifo) + 1] = Datum
      BY <1>2, <3>2, <3>3
    <3>5. Same(Pos + Len(fifo), rBMPPixelCnt)
      BY DEF OrderInv
    <3>6. Same(Pos' + Len(fifo'), rBMPPixelCnt')
      <4>1. Same((Pos + Len(fifo)) + 1, rBMPPixelCnt + 1)
        <5>1. Pos + Len(fifo) \in Int /\ rBMPPixelCnt \in Int /\ 1 \in Int
          BY <1>2, <3>3
        <5> QED
          BY <3>5, <5>1, SameShift
      <4>2. (Pos + Len(fifo)) + 1 = Pos' + Len(fifo')
        BY <1>1, <1>2, <3>4
      <4> QED
        BY <3>1, <4>1, <4>2
    <3>7. ASSUME NEW i \in 1 .. Len(fifo')
          PROVE  /\ fifo'[i].base = 1 /\ fifo'[i].word < BMPLENGTH
                 /\ Same(Pos' + (i - 1), fifo'[i].word)
      <4>1. CASE i \in 1 .. Len(fifo)
        BY <1>1, <3>4, <4>1 DEF OrderInv
      <4>2. CASE i = Len(fifo) + 1
        <5>1. Pos' + (i - 1) = Pos + Len(fifo)
          BY <1>1, <1>2, <4>2
        <5> QED
          BY <3>3, <3>4, <3>5, <4>2, <5>1
      <4> QED
        BY <1>2, <3>4, <3>7, <4>1, <4>2
    <3> QED
      BY <3>1, <3>6, <3>7 DEF OrderInv
  <2> QED
    BY <2>3, <2>4, <2>5, <2>6, <2>7 DEF MasterClock, MemoryAnswers
<1> QED
  BY <1>3, <1>4 DEF IInv, MasterTypeOK

-----------------------------------------------------------------------------
(* The steps keep the FIFO from running dry.                               *)

\* What SpeedAssumption says in the terms of the proofs.
LEMMA SpeedFacts ==
    /\ ClocksPerPixel \in Nat /\ ClocksPerPixel > 0 /\ MaxStall \in Nat
    /\ RD_LENGTH \in Nat /\ RD_LENGTH > 0
    /\ Hidden \in Nat
    /\ \A n \in Nat : n >= RD_LENGTH - MaxUnseen =>
                         n * ClocksPerPixel >= Hidden + MaxStall + 3
    /\ (RD_LENGTH - 1) * (ClocksPerPixel - 1) + ClocksPerPixel >= MaxStall + 3
    /\ (H_LINE - 2) * ClocksPerPixel >= Hidden + MaxStall + 4
    /\ (H_LINE - 2) * ClocksPerPixel >= MaxStall + RD_LENGTH + 3
    /\ \A n \in Nat : n * ClocksPerPixel \in Nat /\ n * (ClocksPerPixel - 1) \in Nat
    /\ \A n \in Nat : (n + 1) * ClocksPerPixel = n * ClocksPerPixel + ClocksPerPixel
    /\ \A n \in Nat : (n + 1) * (ClocksPerPixel - 1)
                          = n * (ClocksPerPixel - 1) + (ClocksPerPixel - 1)
<1>1. PICK c \in Nat \ {0} : c = ClocksPerPixel
  BY ClocksAssumption
<1>2. /\ MaxStall \in Nat /\ RD_LENGTH \in Nat /\ RD_LENGTH > 0 /\ MaxUnseen \in Nat
      /\ MaxLate \in Nat /\ H_LINE \in Nat /\ c - 1 \in Nat
  BY <1>1, ClocksAssumption, FrameAssumption, TimingFacts
<1>3. /\ MaxStall + 3 <= (RD_LENGTH - MaxUnseen - MaxLate) * c
      /\ MaxStall + 2 <= RD_LENGTH * (c - 1)
      /\ MaxStall + 4 <= (H_LINE - 2 - MaxLate) * c
      /\ MaxStall + RD_LENGTH + 3 <= (H_LINE - 2) * c
  BY <1>1, SpeedAssumption
<1>9. PICK h \in Nat : h = MaxLate * c /\ h = Hidden
  BY <1>1, <1>2 DEF Hidden
<1>10. /\ (RD_LENGTH - MaxUnseen) * c >= h + MaxStall + 3
       /\ (H_LINE - 2) * c >= h + MaxStall + 4
  <2>1. /\ (RD_LENGTH - MaxUnseen) * c = (RD_LENGTH - MaxUnseen - MaxLate) * c + MaxLate * c
        /\ (H_LINE - 2) * c = (H_LINE - 2 - MaxLate) * c + MaxLate * c
    BY <1>2
  <2>2. /\ (RD_LENGTH - MaxUnseen - MaxLate) * c \in Int
        /\ (H_LINE - 2 - MaxLate) * c \in Int
    BY <1>2
  <2> QED
    BY <1>2, <1>3, <1>9, <2>1, <2>2
<1>4. ASSUME NEW n \in Nat, n >= RD_LENGTH - MaxUnseen
      PROVE  n * c >= h + MaxStall + 3
  <2>1. PICK d \in Nat : n = (RD_LENGTH - MaxUnseen) + d
    BY <1>2, <1>4
  <2>2. n * c = (RD_LENGTH - MaxUnseen) * c + d * c
    BY <1>2, <2>1
  <2>3. d * c >= 0 /\ (RD_LENGTH - MaxUnseen) * c \in Int /\ d * c \in Int
    BY <1>2
  <2> QED
    BY <1>2, <1>10, <2>2, <2>3
<1>5. (RD_LENGTH - 1) * (c - 1) + c >= MaxStall + 3
  <2>1. RD_LENGTH * (c - 1) = (RD_LENGTH - 1) * (c - 1) + (c - 1)
    BY <1>2
  <2>2. (RD_LENGTH - 1) * (c - 1) \in Int
    BY <1>2
  <2> QED
    BY <1>2, <1>3, <2>1, <2>2
<1>6. ASSUME NEW n \in Nat, NEW m \in Nat
      PROVE  n * m \in Nat /\ (n + 1) * m = n * m + m
  OBVIOUS
<1>7. \A n \in Nat : n * c \in Nat /\ (n + 1) * c = n * c + c
  BY <1>6
<1>8. \A n \in Nat : n * (c - 1) \in Nat /\ (n + 1) * (c - 1) = n * (c - 1) + (c - 1)
  BY <1>2, <1>6
<1> QED
  BY <1>1, <1>2, <1>3, <1>4, <1>5, <1>7, <1>8, <1>9, <1>10

\* What is in the FIFO at each step of the burst machine.
LEMMA DryFacts ==
    ASSUME IInv, TypeOK
    PROVE  /\ fifo \in Seq(Words) /\ Len(fifo) \in Nat /\ Lead \in Nat /\ Dry \in Nat
           /\ Dry = Len(fifo) * ClocksPerPixel + (ClocksPerPixel - clocks) + Lead
           /\ clocks \in Nat /\ clocks <= ClocksPerPixel
           /\ stalls \in Nat /\ stalls <= MaxStall
           /\ rRDDataCnt \in Nat /\ rRDDataCnt < RD_LENGTH /\ state \in 0 .. 3
           /\ unseen \in Nat /\ unseen <= MaxUnseen
           /\ late \in Nat /\ late <= MaxLate
<1>1. fifo \in Seq(Words) /\ Len(fifo) \in Nat
  BY LenProperties DEF IInv, MasterTypeOK
<1>2. Lead \in Nat
  <2>1. H_LINE - x_cnt \in Nat
    BY TimingFacts DEF TypeOK
  <2>2. (H_LINE - x_cnt) * ClocksPerPixel \in Nat
    BY <2>1, SpeedFacts
  <2> QED
    BY <2>2 DEF Lead
<1>3. /\ clocks \in Nat /\ clocks <= ClocksPerPixel
      /\ stalls \in Nat /\ stalls <= MaxStall
      /\ rRDDataCnt \in Nat /\ rRDDataCnt < RD_LENGTH /\ state \in 0 .. 3
      /\ unseen \in Nat /\ unseen <= MaxUnseen
      /\ late \in Nat /\ late <= MaxLate
  BY SpeedFacts, FrameAssumption DEF TypeOK, IInv, MasterTypeOK
<1>4. Len(fifo) * ClocksPerPixel \in Nat
  BY <1>1, SpeedFacts
<1>5. Dry = Len(fifo) * ClocksPerPixel + (ClocksPerPixel - clocks) + Lead
  BY DEF Dry
<1> QED
  BY <1>1, <1>2, <1>3, <1>4, <1>5, SpeedFacts

\* What is needed at each step of it.
LEMMA NeedFacts ==
    ASSUME IInv, TypeOK
    PROVE  /\ Need \in Nat /\ Need > 0
           /\ state = 3 => Need = MaxStall + 4
           /\ state = 0 => Need = MaxStall + 3
           /\ state = 1 => Need = MaxStall - stalls + 2
           /\ state = 2 => Need = MaxStall - stalls + 1 + rRDDataCnt * (ClocksPerPixel - 1)
<1>1. /\ state \in {0, 1, 2, 3} /\ stalls \in Nat /\ stalls <= MaxStall /\ MaxStall \in Nat
      /\ rRDDataCnt * (ClocksPerPixel - 1) \in Nat
  <2>1. state \in 0 .. 3 /\ stalls \in Nat /\ stalls <= MaxStall /\ rRDDataCnt \in Nat
    BY DryFacts
  <2> QED
    BY <2>1, SpeedFacts
<1>2. CASE state = 3
  BY <1>1, <1>2 DEF Need
<1>3. CASE state = 0
  BY <1>1, <1>3 DEF Need
<1>4. CASE state = 1
  BY <1>1, <1>4 DEF Need
<1>5. CASE state = 2
  BY <1>1, <1>5 DEF Need
<1> QED
  BY <1>1, <1>2, <1>3, <1>4, <1>5

\* When a pixel is due its word can be read.
LEMMA NotDry ==
    ASSUME IInv, TypeOK, SpeedInv, mStart, clocks = ClocksPerPixel, y_cnt # 0
    PROVE  Readable /\ fifo # <<>>
<1>1. PICK c \in Nat, l \in Nat, m \in Nat :
          c = ClocksPerPixel /\ l = Len(fifo) /\ m = MaxLate
  BY DryFacts, SpeedFacts, FrameAssumption
<1>2. Dry = l * c /\ Lead = 0
  <2>1. Lead = 0
    BY DEF Lead
  <2>2. Dry = Len(fifo) * ClocksPerPixel + (ClocksPerPixel - clocks) + Lead
    BY DEF Dry
  <2> QED
    BY <1>1, <2>1, <2>2
<1>3. Hidden = m * c
  BY <1>1 DEF Hidden
<1>4. Need \in Nat /\ Need > 0
  BY NeedFacts
<1>5. l * c > m * c
  BY <1>1, <1>2, <1>3, <1>4 DEF SpeedInv
<1>6. l > m
  <2>1. SUFFICES ASSUME l <= m PROVE FALSE
    BY <1>1
  <2>2. l * c <= m * c
    BY <2>1
  <2> QED
    BY <1>5, <2>2
<1>7. Len(fifo) > late
  BY <1>1, <1>6, DryFacts
<1> QED
  BY <1>7, DryFacts, EmptySeq DEF Readable

\* A pixel clock takes no time from the reader: the request for a word uses up
\* the clocks that the word stood for, and a clock without a request is a gain.
LEMMA SpeedPixel ==
    ASSUME IInv, TypeOK, SpeedInv, clocks = ClocksPerPixel, clocks' = 0,
           PixelClock(rddata), UNCHANGED <<machine, stalls, mStart>>,
           \/ fifo' = fifo
           \/ fifo # <<>> /\ fifo' = Tail(fifo) /\ y_cnt # 0,
           IInv', TypeOK'
    PROVE  SpeedInv'
<1> SUFFICES ASSUME mStart PROVE Dry' >= Hidden + Need'
  BY DEF SpeedInv, Hidden
<1>1. PICK c \in Nat, l \in Nat, l1 \in Nat, d \in Nat, d1 \in Nat :
          /\ c = ClocksPerPixel /\ l = Len(fifo) /\ l1 = Len(fifo') /\ d = Lead /\ d1 = Lead'
  <2>1. Len(fifo) \in Nat /\ Lead \in Nat /\ ClocksPerPixel \in Nat
    BY DryFacts, SpeedFacts
  <2>2. (IInv /\ TypeOK => Len(fifo) \in Nat /\ Lead \in Nat)'
    BY DryFacts, PTL
  <2> QED
    BY <2>1, <2>2
<1>2. Dry = l * c + d /\ Dry' = l1 * c + c + d1
  <2>1. Dry = l * c + (c - clocks) + d /\ Dry' = l1 * c + (c - clocks') + d1
    BY <1>1 DEF Dry
  <2>2. l * c \in Nat /\ l1 * c \in Nat
    BY <1>1
  <2> QED
    BY <1>1, <2>1, <2>2
<1>3. d1 + c >= d
  <2>1. /\ x_cnt \in 0 .. H_LINE - 1 /\ y_cnt \in 0 .. V_LINE - 1
        /\ H_LINE \in Nat /\ V_LINE \in Nat /\ V_LINE > 2
        /\ x_cnt' = IF x_cnt = H_LINE - 1 THEN 0 ELSE x_cnt + 1
        /\ y_cnt' = IF x_cnt # H_LINE - 1 THEN y_cnt
                     ELSE IF y_cnt = V_LINE - 1 THEN 0 ELSE y_cnt + 1
    <3>1. x_cnt \in 0 .. H_LINE - 1 /\ y_cnt \in 0 .. V_LINE - 1
      BY DEF TypeOK
    <3>2. H_LINE \in Nat /\ V_LINE \in Nat /\ V_LINE > 2
      BY TimingFacts
    <3> QED
      BY <3>1, <3>2 DEF PixelClock, CountX, CountY
  <2>2. CASE y_cnt # 0
    BY <1>1, <2>2 DEF Lead
  <2>3. CASE y_cnt = 0
    <3>1. PICK n \in Nat : n + 1 = H_LINE - x_cnt
      BY <2>1
    <3>2. PICK p \in Nat : p = n * c /\ (n + 1) * c = p + c
      BY <1>1
    <3>3. d = p + c
      BY <1>1, <2>3, <3>1, <3>2 DEF Lead
    <3>4. CASE n = 0
      <4>1. p = 0
        BY <1>1, <3>2, <3>4
      <4> QED
        BY <3>3, <4>1
    <3>5. CASE n # 0
      <4>1. y_cnt' = 0 /\ H_LINE - x_cnt' = n
        BY <2>1, <2>3, <3>1, <3>5
      <4>2. d1 = p
        BY <1>1, <3>2, <4>1 DEF Lead
      <4> QED
        BY <3>3, <4>2
    <3> QED
      BY <3>4, <3>5
  <2> QED
    BY <2>2, <2>3
<1>4. Dry' >= Dry
  <2>1. PICK p \in Nat, q \in Nat : p = l * c /\ q = l1 * c
    BY <1>1
  <2>2. Dry = p + d /\ Dry' = q + c + d1
    BY <1>2, <2>1
  <2>3. CASE fifo' = fifo
    <3>1. q = p
      BY <1>1, <2>1, <2>3
    <3> QED
      BY <1>3, <2>2, <3>1
  <2>4. CASE fifo # <<>> /\ fifo' = Tail(fifo) /\ y_cnt # 0
    <3>1. d = 0
      BY <1>1, <2>4 DEF Lead
    <3>2. l = l1 + 1
      BY <1>1, <2>4, HeadTailProperties, DryFacts
    <3>3. p = q + c
      BY <1>1, <2>1, <3>2
    <3> QED
      BY <2>2, <3>1, <3>3
  <2> QED
    BY <2>3, <2>4
<1>5. Need' = Need /\ Need \in Nat
  BY NeedFacts DEF Need, machine
<1>6. Dry \in Nat /\ Dry' \in Nat /\ Dry >= Hidden + Need /\ Hidden \in Nat
  <2>1. (IInv /\ TypeOK => Dry \in Nat)'
    BY DryFacts, PTL
  <2> QED
    BY <2>1, DryFacts, SpeedFacts DEF SpeedInv
<1> QED
  BY <1>4, <1>5, <1>6

\* A system clock: either a word comes, which stands for a pixel's clocks, or
\* the machine is one clock nearer to it.
LEMMA SpeedClock ==
    ASSUME IInv, TypeOK, SyncInv, StartInv, StopInv, SpeedInv, SystemClock, IInv', TypeOK'
    PROVE  SpeedInv'
<1> SUFFICES ASSUME mStart' PROVE Dry' >= Hidden + Need'
  BY DEF SpeedInv, Hidden
<1>1. /\ clocks < ClocksPerPixel /\ clocks' = clocks + 1 /\ MasterClock(oVD)
      /\ Waited => stalls < MaxStall /\ stalls' = stalls + 1
      /\ ~Waited => stalls' = IF state \in {1, 2} THEN stalls ELSE 0
      /\ UNCHANGED tcon
  BY DEF SystemClock
<1>2. Lead' = Lead
  BY <1>1 DEF Lead, tcon
<1>3. PICK c \in Nat, l \in Nat, l1 \in Nat, d \in Nat, k \in Nat, m \in Nat, h \in Nat,
             p \in Nat, p1 \in Nat :
          /\ c = ClocksPerPixel /\ l = Len(fifo) /\ l1 = Len(fifo') /\ d = Lead /\ k = clocks
          /\ m = MaxStall /\ h = Hidden /\ p = l * c /\ p1 = l1 * c /\ c > 0
  <2>1. Len(fifo) \in Nat /\ Lead \in Nat /\ clocks \in Nat
    BY DryFacts
  <2>2. (IInv /\ TypeOK => Len(fifo) \in Nat)'
    BY DryFacts, PTL
  <2> QED
    BY <2>1, <2>2, SpeedFacts
<1>4. k < c /\ Dry = p + (c - k) + d
  BY <1>1, <1>3 DEF Dry
<1>5. Dry' = p1 + (c - (k + 1)) + d
  <2>1. Dry' = Len(fifo') * ClocksPerPixel + (ClocksPerPixel - clocks') + Lead'
    BY DEF Dry
  <2> QED
    BY <1>1, <1>2, <1>3, <2>1
<1>6. PICK s \in Nat, s1 \in Nat, r \in Nat, r1 \in Nat :
          /\ s = stalls /\ s1 = stalls' /\ s <= m /\ s1 <= m
          /\ r = rRDDataCnt * (ClocksPerPixel - 1) /\ r1 = rRDDataCnt' * (ClocksPerPixel - 1)
  <2>1. /\ stalls \in Nat /\ stalls <= MaxStall
        /\ rRDDataCnt \in Nat
    BY DryFacts
  <2>2. (IInv /\ TypeOK => stalls \in Nat /\ stalls <= MaxStall /\ rRDDataCnt \in Nat)'
    BY DryFacts, PTL
  <2> QED
    BY <1>3, <2>1, <2>2, SpeedFacts
<1>7. /\ state = 3 => Need = m + 4
      /\ state = 0 => Need = m + 3
      /\ state = 1 => Need = m - s + 2
      /\ state = 2 => Need = m - s + 1 + r
  BY <1>3, <1>6, NeedFacts
<1>8. /\ state' = 3 => Need' = m + 4
      /\ state' = 0 => Need' = m + 3
      /\ state' = 1 => Need' = m - s1 + 2
      /\ state' = 2 => Need' = m - s1 + 1 + r1
  <2>1. (IInv /\ TypeOK =>
            /\ state = 3 => Need = MaxStall + 4
            /\ state = 0 => Need = MaxStall + 3
            /\ state = 1 => Need = MaxStall - stalls + 2
            /\ state = 2 => Need = MaxStall - stalls + 1 + rRDDataCnt * (ClocksPerPixel - 1))'
    BY NeedFacts, PTL
  <2> QED
    BY <1>3, <1>6, <2>1
<1>9. CASE ~mStart
  <2>1. y_cnt = 0 /\ x_cnt = 2 /\ state = 3
    BY <1>1, <1>9 DEF MasterClock, FollowSync, SyncInv, StopInv
  <2>2. Stopped
    BY <1>1, <2>1 DEF MasterClock, MemoryAnswers, Decide, CommandTaken, DataValid, MemoryWaits
  <2>3. state' = 3
    BY <1>9, <2>2 DEF Stopped
  <2>4. d >= h + m + 4
    BY <1>3, <2>1, SpeedFacts DEF Lead
  <2>5. Dry' >= d
    BY <1>4, <1>5
  <2> QED
    BY <1>3, <1>5, <1>8, <2>3, <2>4, <2>5
<1>10. CASE mStart
  <2> USE <1>10
  <2>1. Dry >= h + Need
    BY <1>3 DEF SpeedInv
  <2>2. ASSUME WriteFifo(<<>>) PROVE p1 = p
    <3>1. fifo' = fifo
      BY <2>2, ConcatEmptySeq, DryFacts DEF WriteFifo
    <3> QED
      BY <1>3, <3>1
  <2>3. CASE Stopped
    <3>1. p1 = p
      BY <2>2, <2>3 DEF Stopped
    <3>2. state = 3 /\ state' = 0
      BY <2>3 DEF Stopped
    <3> QED
      BY <1>3, <1>4, <1>5, <1>7, <1>8, <2>1, <3>1, <3>2
  <2>4. CASE Decide
    <3>1. p1 = p
      BY <2>2, <2>4 DEF Decide
    <3>2. state = 0 /\ state' = IF room THEN 1 ELSE 0
      BY <2>4 DEF Decide
    <3>3. CASE room
      <4>1. s1 = 0
        BY <1>1, <1>6, <3>2 DEF Waited
      <4> QED
        BY <1>3, <1>4, <1>5, <1>7, <1>8, <2>1, <3>1, <3>2, <3>3, <4>1
    <3>4. CASE ~room
      <4>1. wusedw = Fill /\ Fill = Len(fifo) + unseen /\ unseen \in Nat /\ unseen <= MaxUnseen
        BY <3>2, LevelIsExact, DryFacts DEF Fill
      <4>2. l >= RD_LENGTH - MaxUnseen
        BY <1>3, <3>4, <4>1, FrameAssumption DEF room
      <4>3. p >= h + m + 3
        BY <1>3, <4>2, SpeedFacts
      <4>4. Dry' >= p
        BY <1>4, <1>5, <3>1
      <4> QED
        BY <1>3, <1>5, <1>8, <3>2, <3>4, <4>3, <4>4
    <3> QED
      BY <3>3, <3>4
  <2>5. CASE CommandTaken
    <3>1. p1 = p
      BY <2>2, <2>5 DEF CommandTaken
    <3>2. state = 1 /\ state' = 2 /\ rRDDataCnt' = 0
      BY <2>5 DEF CommandTaken
    <3>3. s1 = s
      BY <1>1, <1>6, <3>2 DEF Waited
    <3>4. r1 = 0
      BY <1>3, <1>6, <3>2
    <3> QED
      BY <1>3, <1>4, <1>5, <1>7, <1>8, <2>1, <3>1, <3>2, <3>3, <3>4
  <2>6. CASE MemoryWaits
    <3>1. p1 = p
      BY <2>2, <2>6 DEF MemoryWaits
    <3>2. state \in {1, 2} /\ state' = state /\ rRDDataCnt' = rRDDataCnt
      BY <2>6 DEF MemoryWaits, machine
    <3>3. s1 = s + 1 /\ r1 = r
      BY <1>1, <1>6, <3>2 DEF Waited
    <3> QED
      BY <1>3, <1>4, <1>5, <1>7, <1>8, <2>1, <3>1, <3>2, <3>3
  <2>7. CASE DataValid
    <3>1. state = 2 /\ state' = IF last_word THEN 0 ELSE 2
      BY <2>7 DEF DataValid
    <3>2. p1 = p + c
      <4>1. fifo' = fifo \o <<Datum>>
        BY <2>7 DEF DataValid, WriteFifo
      <4>2. fifo \in Seq(Words)
        BY DryFacts
      <4>3. Len(fifo') = Len(fifo) + 1
        BY <4>1, <4>2
      <4>4. l1 = l + 1
        BY <1>3, <4>3
      <4>5. (l + 1) * c = l * c + c
        OBVIOUS
      <4>6. p = l * c /\ p1 = l1 * c
        BY <1>3
      <4> QED
        BY <4>4, <4>5, <4>6
    <3>3. CASE last_word
      <4>1. r + c >= m + 3
        <5>1. rRDDataCnt >= RD_LENGTH - 1
          BY <3>3 DEF last_word
        <5>2. rRDDataCnt \in Nat /\ rRDDataCnt < RD_LENGTH /\ RD_LENGTH \in Nat
          BY DryFacts, FrameAssumption
        <5>3. rRDDataCnt = RD_LENGTH - 1
          BY <5>1, <5>2
        <5>4. (RD_LENGTH - 1) * (ClocksPerPixel - 1) + ClocksPerPixel >= MaxStall + 3
          BY SpeedFacts
        <5> QED
          BY <1>3, <1>6, <5>3, <5>4
      <4>2. Need' = m + 3 /\ Need = m - s + 1 + r
        BY <1>7, <1>8, <3>1, <3>3
      <4>3. p + (c - k) + d >= h + (m - s + 1 + r)
        BY <1>4, <2>1, <4>2
      <4>4. p + c + (c - (k + 1)) + d >= h + (m + 3)
        BY <1>6, <4>1, <4>3
      <4> QED
        BY <1>3, <1>5, <3>2, <4>2, <4>4
    <3>4. CASE ~last_word
      <4>1. rRDDataCnt' = rRDDataCnt + 1 /\ state' = 2
        BY <2>7, <3>4 DEF DataValid
      <4>2. r1 = r + (c - 1)
        BY <1>3, <1>6, <4>1, DryFacts, SpeedFacts
      <4>3. s1 = s
        BY <1>1, <1>6, <3>1, <4>1, DryFacts DEF Waited
      <4> QED
        BY <1>3, <1>4, <1>5, <1>7, <1>8, <2>1, <3>1, <3>2, <4>1, <4>2, <4>3
    <3> QED
      BY <3>3, <3>4
  <2> QED
    BY <1>1, <2>3, <2>4, <2>5, <2>6, <2>7 DEF MasterClock, MemoryAnswers
<1> QED
  BY <1>9, <1>10 DEF IInv, MasterTypeOK

-----------------------------------------------------------------------------
(* A display that is stopped comes to rest before it can be started again. *)

LEMMA FinishFacts ==
    ASSUME IInv, TypeOK
    PROVE  /\ Finish \in Nat
           /\ state = 3 => Finish = 0
           /\ state = 0 => Finish = 1
           /\ state = 1 => Finish = MaxStall - stalls + RD_LENGTH + 2
           /\ state = 2 => Finish = MaxStall - stalls + (RD_LENGTH - rRDDataCnt) + 1
           /\ Finish <= MaxStall + RD_LENGTH + 2
<1>1. /\ state \in {0, 1, 2, 3} /\ stalls \in Nat /\ stalls <= MaxStall /\ MaxStall \in Nat
      /\ rRDDataCnt \in Nat /\ rRDDataCnt < RD_LENGTH /\ RD_LENGTH \in Nat
  <2>1. state \in 0 .. 3 /\ stalls \in Nat /\ stalls <= MaxStall
        /\ rRDDataCnt \in Nat /\ rRDDataCnt < RD_LENGTH
    BY DryFacts
  <2> QED
    BY <2>1, SpeedFacts
<1>2. CASE state = 3
  BY <1>1, <1>2 DEF Finish
<1>3. CASE state = 0
  BY <1>1, <1>3 DEF Finish
<1>4. CASE state = 1
  BY <1>1, <1>4 DEF Finish
<1>5. CASE state = 2
  BY <1>1, <1>5 DEF Finish
<1> QED
  BY <1>1, <1>2, <1>3, <1>4, <1>5

\* A system clock brings a stopped machine nearer to its rest, and the sync
\* that stops it comes early enough in the frame.
LEMMA StopClock ==
    ASSUME IInv, TypeOK, SyncInv, StopInv, SystemClock, IInv', TypeOK'
    PROVE  StopInv'
<1> SUFFICES ASSUME ~mStart', state' # 3
             PROVE  /\ y_cnt' = 0 /\ x_cnt' >= 2 /\ ~(pre_vdh' /\ ~oVD')
                    /\ Lead' >= clocks' + Finish'
  BY DEF StopInv
<1>1. /\ clocks' = clocks + 1 /\ MasterClock(oVD) /\ UNCHANGED tcon
      /\ pre_vdh' = oVD /\ mStart' = IF pre_vdh /\ ~oVD THEN rLcmEn ELSE mStart
      /\ Waited => stalls < MaxStall /\ stalls' = stalls + 1
      /\ ~Waited => stalls' = IF state \in {1, 2} THEN stalls ELSE 0
  BY DEF SystemClock, MasterClock, FollowSync
<1>2. x_cnt' = x_cnt /\ y_cnt' = y_cnt /\ oVD' = oVD /\ Lead' = Lead
  BY <1>1 DEF tcon, Lead
<1>3. PICK f \in Nat, f1 \in Nat, d \in Nat, k \in Nat, m \in Nat, n \in Nat :
          /\ f = Finish /\ f1 = Finish' /\ d = Lead /\ k = clocks
          /\ m = MaxStall /\ n = RD_LENGTH
  <2>1. (IInv /\ TypeOK => Finish \in Nat)'
    BY FinishFacts, PTL
  <2> QED
    BY <2>1, FinishFacts, DryFacts, SpeedFacts
<1>4. /\ state' = 0 => f1 = 1
      /\ state' = 1 => f1 = m - stalls' + n + 2
      /\ state' = 2 => f1 = m - stalls' + (n - rRDDataCnt') + 1
      /\ f1 <= m + n + 2
  <2>1. (IInv /\ TypeOK =>
            /\ state = 0 => Finish = 1
            /\ state = 1 => Finish = MaxStall - stalls + RD_LENGTH + 2
            /\ state = 2 => Finish = MaxStall - stalls + (RD_LENGTH - rRDDataCnt) + 1
            /\ Finish <= MaxStall + RD_LENGTH + 2)'
    BY FinishFacts, PTL
  <2> QED
    BY <1>3, <2>1
<1>7. ~(pre_vdh' /\ ~oVD')
  BY <1>1, <1>2
<1>8. ASSUME y_cnt = 0, x_cnt >= 2, d >= (k + 1) + f1
      PROVE  y_cnt' = 0 /\ x_cnt' >= 2 /\ Lead' >= clocks' + Finish'
  BY <1>1, <1>2, <1>3, <1>8
<1>5. CASE mStart
  <2>1. y_cnt = 0 /\ x_cnt = 2 /\ k = 0
    BY <1>1, <1>3, <1>5 DEF SyncInv
  <2>2. d >= m + n + 3
    BY <1>3, <2>1, SpeedFacts DEF Lead
  <2>3. d >= (k + 1) + f1
    BY <1>4, <2>1, <2>2
  <2>4. x_cnt >= 2
    BY <2>1
  <2> QED
    BY <1>7, <1>8, <2>1, <2>3, <2>4
<1>6. CASE ~mStart
  <2>1. state # 3
    BY <1>6 DEF SystemClock, MasterClock, MemoryAnswers, Stopped, Decide, CommandTaken,
                DataValid, MemoryWaits
  <2>2. y_cnt = 0 /\ x_cnt >= 2 /\ d >= k + f
    BY <1>3, <1>6, <2>1 DEF StopInv
  <2>3. /\ stalls \in Nat /\ stalls <= m /\ stalls' \in Nat
        /\ rRDDataCnt \in Nat /\ rRDDataCnt < n
    <3>1. (IInv /\ TypeOK => stalls \in Nat)'
      BY DryFacts, PTL
    <3> QED
      BY <1>3, <3>1, DryFacts
  <2>4. /\ state = 1 => f = m - stalls + n + 2
        /\ state = 2 => f = m - stalls + (n - rRDDataCnt) + 1
    BY <1>3, FinishFacts
  <2>6. PICK s \in Nat, s1 \in Nat, q \in Nat :
            s = stalls /\ s1 = stalls' /\ q = rRDDataCnt /\ s <= m /\ q < n
    BY <2>3
  <2>5. f1 + 1 <= f
    <3>1. CASE Decide
      BY <1>6, <3>1 DEF Decide
    <3>2. CASE CommandTaken
      <4>1. state = 1 /\ state' = 2 /\ rRDDataCnt' = 0
        BY <3>2 DEF CommandTaken
      <4>2. stalls' = stalls
        BY <1>1, <4>1 DEF Waited
      <4> QED
        BY <1>3, <1>4, <2>3, <2>4, <4>1, <4>2
    <3>3. CASE MemoryWaits
      <4>1. state \in {1, 2} /\ state' = state /\ rRDDataCnt' = rRDDataCnt
        BY <3>3 DEF MemoryWaits, machine
      <4>2. stalls' = stalls + 1
        BY <1>1, <4>1 DEF Waited
      <4>3. s1 = s + 1
        BY <2>6, <4>2
      <4>4. CASE state = 1
        <5>1. f = m - s + n + 2 /\ f1 = m - s1 + n + 2
          BY <1>4, <2>4, <2>6, <4>1, <4>4
        <5> QED
          BY <4>3, <5>1
      <4>5. CASE state = 2
        <5>1. f = m - s + (n - q) + 1 /\ f1 = m - s1 + (n - q) + 1
          BY <1>4, <2>4, <2>6, <4>1, <4>5
        <5> QED
          BY <4>3, <5>1
      <4> QED
        BY <4>1, <4>4, <4>5
    <3>4. CASE DataValid
      <4>1. state = 2 /\ state' = IF last_word THEN 0 ELSE 2
        BY <3>4 DEF DataValid
      <4>2. CASE last_word
        <5>1. f = m - s + (n - q) + 1 /\ f1 = 1
          BY <1>4, <2>4, <2>6, <4>1, <4>2
        <5> QED
          BY <2>6, <5>1
      <4>3. CASE ~last_word
        <5>1. rRDDataCnt' = rRDDataCnt + 1
          BY <3>4, <4>3 DEF DataValid
        <5>2. stalls' = stalls
          BY <1>1, <2>3, <4>1, <5>1 DEF Waited
        <5>3. f = m - s + (n - q) + 1 /\ f1 = m - s + (n - (q + 1)) + 1
          BY <1>4, <2>4, <2>6, <4>1, <4>3, <5>1, <5>2
        <5> QED
          BY <2>6, <5>3
      <4> QED
        BY <4>2, <4>3
    <3> QED
      BY <1>1, <2>1, <3>1, <3>2, <3>3, <3>4 DEF MasterClock, MemoryAnswers, Stopped
  <2>7. d >= (k + 1) + f1
    BY <2>2, <2>5
  <2> QED
    BY <1>7, <1>8, <2>2, <2>7
<1> QED
  BY <1>5, <1>6 DEF IInv, MasterTypeOK

\* A pixel clock takes a pixel's clocks from it.
LEMMA StopPixel ==
    ASSUME IInv, TypeOK, StopInv, SyncInv', clocks = ClocksPerPixel, clocks' = 0,
           PixelClock(rddata), UNCHANGED <<machine, stalls, mStart, pre_vdh>>
    PROVE  StopInv'
<1> SUFFICES ASSUME ~mStart, state # 3
             PROVE  /\ y_cnt' = 0 /\ x_cnt' >= 2 /\ ~(pre_vdh' /\ ~oVD')
                    /\ Lead' >= clocks' + Finish'
  BY DEF StopInv, machine
<1>1. Finish' = Finish
  BY DEF Finish, machine
<1>2. PICK c \in Nat, f \in Nat, n \in Nat :
          /\ c = ClocksPerPixel /\ f = Finish /\ f > 0 /\ n = H_LINE - x_cnt /\ n > 0
  <2>1. Finish > 0
    <3>1. /\ state \in {0, 1, 2} /\ stalls \in Nat /\ stalls <= MaxStall /\ MaxStall \in Nat
          /\ rRDDataCnt \in Nat /\ rRDDataCnt < RD_LENGTH /\ RD_LENGTH \in Nat
      <4>1. state \in 0 .. 3
        BY DryFacts
      <4> QED
        BY <4>1, DryFacts, SpeedFacts
    <3>2. /\ state = 0 => Finish = 1
          /\ state = 1 => Finish = MaxStall - stalls + RD_LENGTH + 2
          /\ state = 2 => Finish = MaxStall - stalls + (RD_LENGTH - rRDDataCnt) + 1
      BY FinishFacts
    <3> QED
      BY <3>1, <3>2
  <2>2. H_LINE - x_cnt \in Nat /\ H_LINE - x_cnt > 0
    BY TimingFacts DEF TypeOK
  <2> QED
    BY <2>1, <2>2, FinishFacts, SpeedFacts
<1>3. y_cnt = 0 /\ x_cnt >= 2 /\ n * c >= c + f
  BY <1>2 DEF StopInv, Lead
<1>4. n # 1
  <2>1. 1 * c = c
    BY <1>2
  <2> QED
    BY <1>2, <1>3, <2>1
<1>5. PICK p \in Nat : n = p + 1 /\ p > 0
  BY <1>2, <1>4
<1>6. p * c >= f
  <2>1. n * c = p * c + c /\ p * c \in Nat
    BY <1>2, <1>5
  <2> QED
    BY <1>2, <1>3, <2>1
<1>7. x_cnt' = x_cnt + 1 /\ y_cnt' = 0 /\ H_LINE - x_cnt' = p
  <2>1. x_cnt \in Nat /\ H_LINE \in Nat
    BY TimingFacts DEF TypeOK
  <2> QED
    BY <1>2, <1>3, <1>5, <2>1 DEF PixelClock, CountX, CountY
<1>8. Lead' = p * c
  BY <1>2, <1>7 DEF Lead
<1>9. x_cnt' >= 2 /\ ~(pre_vdh' /\ ~oVD')
  <2>1. x_cnt \in Nat
    BY TimingFacts DEF TypeOK
  <2> QED
    BY <1>3, <1>7, <2>1 DEF SyncInv
<1> QED
  BY <1>1, <1>2, <1>6, <1>7, <1>8, <1>9

-----------------------------------------------------------------------------
(* What the panel is given.                                                *)

\* In the invariant's states a request finds its pixel.
LEMMA RequestFinds == PictureInv => RequestInPlace
<1> SUFFICES ASSUME PictureInv, Requested PROVE Readable /\ Head(fifo) = Here
  BY DEF RequestInPlace
<1>1. clocks = ClocksPerPixel /\ oREAD_SDRAM_EN /\ mStart
  BY DEF Requested
<1>2. fifo \in Seq(Words)
  BY DEF PictureInv, IInv, MasterTypeOK
<1>3. Pos \in Nat /\ Pos < BMPLENGTH /\ Here = [base |-> 1, word |-> Pos] /\ y_cnt # 0
  BY <1>1, HereIsPos DEF PictureInv, TypeOK
<1>4. Readable /\ fifo # <<>>
  BY <1>1, <1>3, NotDry DEF PictureInv
<1>5. Len(fifo) \in Nat /\ 1 \in 1 .. Len(fifo) /\ fifo[1] = Head(fifo) /\ fifo[1] \in Words
  BY <1>2, <1>4
<1>6. fifo[1].base = 1 /\ fifo[1].word < BMPLENGTH /\ Same(Pos + (1 - 1), fifo[1].word)
  BY <1>1, <1>5 DEF PictureInv, OrderInv
<1>7. fifo[1].word = Pos
  <2>1. Pos + (1 - 1) = Pos /\ Pos \in 0 .. BMPLENGTH - 1
    BY <1>3, FrameAssumption
  <2>2. fifo[1].word \in 0 .. BMPLENGTH - 1
    BY <1>5, <1>6, FrameAssumption DEF Words
  <2> QED
    BY <1>6, <2>1, <2>2, SameEqual
<1> QED
  BY <1>3, <1>4, <1>5, <1>6, <1>7 DEF Words

\* ... and its colours come out behind an enable signal that is two clocks later.
LEMMA ColoursFollow == PictureInv => ColourInPlace
<1> SUFFICES ASSUME PictureInv, mStart, Column \in 0 .. Width - 3
             PROVE  /\ oDEN <=> DisplayLine
                    /\ oDEN => oLCD = [base |-> 1,
                           word |-> (y_cnt - Vertical_Back_Porch) * Width + Column + 2]
  BY DEF ColourInPlace
<1>1. PICK x \in Nat, b \in Nat, w \in Nat, v \in Int :
          x = x_cnt /\ b = Hsync_Blank /\ w = Width /\ v = y_cnt - Vertical_Back_Porch
  BY TimingFacts DEF PictureInv, TypeOK
<1>2. x = b + 2 + Column /\ x > b + 1 /\ x < H_LINE - Hsync_Front_Porch
  BY <1>1, TimingFacts DEF Column
<1>3. oDEN <=> DisplayLine
  BY <1>1, <1>2, TimingFacts DEF PictureInv, EnableInv
<1>4. ASSUME DisplayLine PROVE oLCD = [base |-> 1, word |-> v * w + Column + 2]
  <2>1. x \in b .. H_LINE - Hsync_Front_Porch - 1
    BY <1>1, <1>2, TimingFacts
  <2>2. oLCD = [base |-> 1, word |-> v * w + (x - b)]
    BY <1>1, <1>4, <2>1 DEF PictureInv, ColourInv
  <2>3. v * w + (x - b) = v * w + Column + 2
    <3>1. PICK q \in Int : q = v * w
      BY <1>1
    <3>2. Column = x - b - 2
      BY <1>1 DEF Column
    <3> QED
      BY <3>1, <3>2
  <2> QED
    BY <2>2, <2>3
<1> QED
  BY <1>1, <1>3, <1>4

\* The enable and colour registers after a pixel clock.
LEMMA ColourPixel ==
    ASSUME TypeOK, RequestInPlace, EnableInv, clocks = ClocksPerPixel,
           PixelClock(rddata), mStart' = mStart
    PROVE  EnableInv' /\ ColourInv'
<1>1. /\ x_cnt \in 0 .. H_LINE - 1 /\ y_cnt \in 0 .. V_LINE - 1
      /\ x_cnt' = IF x_cnt = H_LINE - 1 THEN 0 ELSE x_cnt + 1
      /\ y_cnt' = IF x_cnt # H_LINE - 1 THEN y_cnt
                   ELSE IF y_cnt = V_LINE - 1 THEN 0 ELSE y_cnt + 1
      /\ mden' = display_area /\ oDEN' = mden /\ oLCD' = rddata
  BY DEF PixelClock, CountX, CountY, Sync, TypeOK
<1>2. ASSUME x_cnt' > 0
      PROVE  x_cnt = x_cnt' - 1 /\ y_cnt' = y_cnt /\ (DisplayLine' <=> DisplayLine)
  BY <1>1, <1>2, TimingFacts DEF DisplayLine
<1>3. EnableInv'
  <2> SUFFICES ASSUME x_cnt' <= H_LINE - Hsync_Front_Porch, x_cnt' > Hsync_Blank
               PROVE  /\ mden' <=> DisplayLine'
                      /\ x_cnt' > Hsync_Blank + 1 => (oDEN' <=> DisplayLine')
    BY TimingFacts, <1>1 DEF EnableInv
  <2>1. /\ x_cnt \in Nat /\ x_cnt' \in Nat /\ x_cnt = x_cnt' - 1
        /\ (DisplayLine' <=> DisplayLine)
    BY <1>1, <1>2, TimingFacts
  <2>2. mden' <=> DisplayLine
    BY <1>1, <2>1, TimingFacts DEF display_area
  <2>3. x_cnt' > Hsync_Blank + 1 => (oDEN' <=> DisplayLine)
    BY <1>1, <2>1, TimingFacts DEF EnableInv
  <2> QED
    BY <2>1, <2>2, <2>3
<1>4. ColourInv'
  <2> SUFFICES ASSUME mStart', DisplayLine',
                      x_cnt' \in Hsync_Blank .. H_LINE - Hsync_Front_Porch - 1
               PROVE  oLCD' = [base |-> 1,
                          word |-> (y_cnt' - Vertical_Back_Porch) * Width
                                       + (x_cnt' - Hsync_Blank)]
    BY DEF ColourInv
  <2>1. x_cnt' \in Nat /\ x_cnt' > 0
    BY TimingFacts
  <2>2. x_cnt = x_cnt' - 1 /\ y_cnt' = y_cnt /\ DisplayLine
    BY <1>2, <2>1
  <2>3. oREAD_SDRAM_EN
    BY <2>1, <2>2, TimingFacts DEF oREAD_SDRAM_EN
  <2>4. Readable /\ Head(fifo) = Here
    BY <2>3 DEF RequestInPlace, Requested
  <2>5. oLCD' = Here
    BY <1>1, <2>4 DEF rddata
  <2>6. PICK q \in Int : q = (y_cnt - Vertical_Back_Porch) * Width
    BY <1>1, TimingFacts
  <2>7. Here = [base |-> 1, word |-> q + x_cnt - (Hsync_Blank - 1)]
    BY <2>6 DEF Here
  <2>8. q + x_cnt - (Hsync_Blank - 1) = q + (x_cnt' - Hsync_Blank)
    BY <2>1, <2>2, TimingFacts
  <2> QED
    BY <2>2, <2>5, <2>6, <2>7, <2>8
<1> QED
  BY <1>3, <1>4

-----------------------------------------------------------------------------
(* The whole system.                                                       *)

LEMMA PictureInit == Init => PictureInv
<1> SUFFICES ASSUME Init PROVE PictureInv
  OBVIOUS
<1>1. IInv
  BY InvInit DEF Init
<1>2. TypeOK
  <2>1. x_cnt \in 0 .. H_LINE - 1 /\ y_cnt \in 0 .. V_LINE - 1
    BY TimingFacts DEF Init, TconInit
  <2>2. clocks \in 0 .. ClocksPerPixel /\ stalls \in 0 .. MaxStall
    BY ClocksAssumption DEF Init
  <2> QED
    BY <1>1, <2>1, <2>2 DEF Init, TconInit, IInv, TypeOK
<1>3. SyncInv
  BY DEF Init, TconInit, MasterInit, SyncInv
<1>4. StartInv /\ StopInv
  BY DEF Init, MasterInit, StartInv, StopInv
<1>5. OrderInv /\ SpeedInv /\ ColourInv
  BY DEF Init, MasterInit, OrderInv, SpeedInv, ColourInv
<1>6. EnableInv
  BY TimingFacts DEF Init, TconInit, EnableInv
<1> QED
  BY <1>1, <1>2, <1>3, <1>4, <1>5, <1>6 DEF PictureInv

\* The processor touches neither the picture nor what is on its way.
LEMMA PictureSoftware ==
    ASSUME PictureInv, Software, IInv'
    PROVE  PictureInv'
<1>1. /\ UNCHANGED <<tcon, clocks, stalls>> /\ UNCHANGED <<sync, machine, buffer>>
      /\ software' # "set_buffer"
      /\ \/ rBMPAddr' = 1 /\ rLcmEn' = rLcmEn
         \/ rBMPAddr' = rBMPAddr /\ software # "set_buffer"
  BY DEF Software, SetBuffer, EnableDisplay, DisableDisplay
<1>2. TypeOK'
  BY <1>1 DEF PictureInv, TypeOK, IInv, tcon
<1>3. SyncInv'
  BY <1>1 DEF PictureInv, SyncInv, tcon, sync
<1>4. StartInv'
  BY <1>1 DEF PictureInv, StartInv, sync, machine, buffer
<1>5. OrderInv'
  BY <1>1 DEF PictureInv, OrderInv, Pos, NextColumn, DisplayLine, tcon, sync, machine, buffer
<1>6. SpeedInv'
  BY <1>1 DEF PictureInv, SpeedInv, Dry, Lead, Need, tcon, sync, machine, buffer
<1>7. StopInv'
  BY <1>1 DEF PictureInv, StopInv, Lead, Finish, tcon, sync, machine
<1>8. EnableInv' /\ ColourInv'
  BY <1>1 DEF PictureInv, EnableInv, ColourInv, DisplayLine, tcon, sync
<1> QED
  BY <1>2, <1>3, <1>4, <1>5, <1>6, <1>7, <1>8 DEF PictureInv

LEMMA PictureClock ==
    ASSUME PictureInv, SystemClock, IInv'
    PROVE  PictureInv'
<1>1. /\ clocks < ClocksPerPixel /\ clocks' = clocks + 1 /\ MasterClock(oVD)
      /\ UNCHANGED tcon /\ UNCHANGED registers
      /\ pre_vdh' = oVD /\ mStart' = IF pre_vdh /\ ~oVD THEN rLcmEn ELSE mStart
  BY DEF SystemClock, MasterClock, FollowSync
<1>2. TypeOK'
  <2>1. clocks' \in 0 .. ClocksPerPixel
    BY <1>1, ClocksAssumption DEF PictureInv, TypeOK
  <2>2. stalls' \in 0 .. MaxStall
    BY ClocksAssumption DEF PictureInv, TypeOK, SystemClock
  <2> QED
    BY <1>1, <2>1, <2>2 DEF PictureInv, TypeOK, IInv, tcon
<1>3. SyncInv'
  BY <1>1 DEF PictureInv, SyncInv, tcon
<1>4. StartInv'
  <2>1. /\ rLcmEn' = rLcmEn /\ rBMPAddr' = rBMPAddr /\ software' = software
    BY <1>1 DEF registers
  <2>2. mStart' => rLcmEn \/ mStart
    BY <1>1
  <2>3. ASSUME ~mStart' PROVE fifo' = <<>>
    BY <1>1, <2>3 DEF MasterClock, MemoryAnswers, Stopped, Decide, CommandTaken, DataValid,
                      MemoryWaits, WriteFifo
  <2>4. ASSUME state' = 3, mStart' PROVE fifo' = <<>> /\ rBMPPixelCnt' = 0
    <3>1. Stopped
      <4>1. ~CommandTaken /\ ~DataValid /\ ~MemoryWaits
        BY <2>4 DEF CommandTaken, DataValid, MemoryWaits, machine
      <4>2. ~Decide
        <5>1. SUFFICES ASSUME Decide PROVE FALSE
          OBVIOUS
        <5>2. ~mStart /\ state # 3
          BY <2>4, <5>1 DEF Decide
        <5>3. ~(pre_vdh /\ ~oVD)
          BY <5>2 DEF PictureInv, StopInv
        <5> QED
          BY <1>1, <2>4, <5>2, <5>3
      <4> QED
        BY <1>1, <4>1, <4>2 DEF MasterClock, MemoryAnswers
    <3> QED
      BY <2>4, <3>1 DEF Stopped, WriteFifo
  <2> QED
    BY <2>1, <2>2, <2>3, <2>4 DEF PictureInv, StartInv
<1>5. OrderInv'
  BY <1>1, OrderClock DEF PictureInv
<1>6. SpeedInv'
  BY <1>2, SpeedClock DEF PictureInv
<1>7. StopInv'
  BY <1>2, StopClock DEF PictureInv
<1>8. EnableInv'
  BY <1>1 DEF PictureInv, EnableInv, DisplayLine, tcon
<1>9. ColourInv'
  <2>1. mStart' => mStart \/ ~DisplayLine
    <3>1. pre_vdh /\ ~oVD => y_cnt = 0
      BY DEF PictureInv, SyncInv
    <3>2. y_cnt = 0 => ~DisplayLine
      BY TimingFacts DEF DisplayLine
    <3> QED
      BY <1>1, <3>1, <3>2
  <2>2. DisplayLine' <=> DisplayLine
    BY <1>1 DEF DisplayLine, tcon
  <2> QED
    BY <1>1, <2>1, <2>2 DEF PictureInv, ColourInv, tcon
<1> QED
  BY <1>2, <1>3, <1>4, <1>5, <1>6, <1>7, <1>8, <1>9 DEF PictureInv

LEMMA PicturePixel ==
    ASSUME PictureInv, RequestPixel, IInv'
    PROVE  PictureInv'
<1>1. clocks = ClocksPerPixel /\ clocks' = 0 /\ PixelClock(rddata) /\ stalls' = stalls
  BY DEF RequestPixel
<1>2. /\ UNCHANGED <<registers, sync, machine>>
      /\ oREAD_SDRAM_EN /\ Readable => fifo' = Tail(fifo)
      /\ ~(oREAD_SDRAM_EN /\ Readable) => fifo' = fifo
  BY DEF RequestPixel, ReadFifo, master, buffer
<1>3. /\ x_cnt' \in 0 .. H_LINE - 1 /\ y_cnt' \in 0 .. V_LINE - 1
      /\ mvd' \in BOOLEAN /\ mden' \in BOOLEAN /\ oVD' \in BOOLEAN /\ oDEN' \in BOOLEAN
      /\ SyncInv'
  BY <1>1, <1>2, PixelSync DEF PictureInv, sync
<1>5. fifo \in Seq(Words) /\ (Readable => mStart /\ fifo # <<>>)
  <2>1. fifo \in Seq(Words) /\ late \in Nat
    BY DryFacts DEF PictureInv
  <2> QED
    BY <2>1, EmptySeq DEF Readable
<1>4. TypeOK'
  <2>1. clocks' \in 0 .. ClocksPerPixel /\ stalls' \in 0 .. MaxStall
    BY <1>1, ClocksAssumption DEF PictureInv, TypeOK
  <2>2. oLCD' \in Words \cup {Black}
    <3>1. oLCD' = rddata
      BY <1>1 DEF PixelClock, Sync
    <3> QED
      BY <1>5, <3>1, HeadTailProperties DEF rddata
  <2> QED
    BY <1>3, <2>1, <2>2 DEF TypeOK, IInv
<1>9. mStart' = mStart /\ pre_vdh' = pre_vdh /\ UNCHANGED machine
  BY <1>2 DEF sync
<1>6. StartInv'
  <2>1. ~mStart \/ state = 3 => fifo' = fifo
    BY <1>2, <1>5 DEF PictureInv, StartInv
  <2> QED
    BY <1>2, <2>1 DEF PictureInv, StartInv, registers, sync, machine
<1>7. /\ Pos \in Nat /\ Pos' \in Nat
      /\ oREAD_SDRAM_EN => Pos' = Pos + 1
      /\ ~oREAD_SDRAM_EN => Same(Pos', Pos)
  BY <1>1, PosStep DEF PictureInv, TypeOK
<1>8. oREAD_SDRAM_EN => y_cnt # 0 /\ (mStart => Readable /\ fifo # <<>>)
  BY <1>1, HereIsPos, NotDry DEF PictureInv, TypeOK
<1>10. OrderInv'
  <2>1. CASE ~mStart
    BY <1>9, <2>1 DEF OrderInv
  <2>2. CASE mStart /\ oREAD_SDRAM_EN
    BY <1>2, <1>5, <1>7, <1>8, <1>9, <2>2, OrderRead DEF PictureInv
  <2>3. CASE mStart /\ ~oREAD_SDRAM_EN
    BY <1>2, <1>7, <1>9, <2>3, OrderBlank DEF PictureInv
  <2> QED
    BY <2>1, <2>2, <2>3 DEF PictureInv, IInv, MasterTypeOK
<1>11. SpeedInv'
  <2>1. fifo' = fifo \/ (fifo # <<>> /\ fifo' = Tail(fifo) /\ y_cnt # 0)
    BY <1>2, <1>5, <1>8
  <2> QED
    BY <1>1, <1>4, <1>9, <2>1, SpeedPixel DEF PictureInv
<1>12. StopInv'
  BY <1>1, <1>3, <1>9, StopPixel DEF PictureInv
<1>13. EnableInv' /\ ColourInv'
  BY <1>1, <1>9, ColourPixel, RequestFinds DEF PictureInv
<1> QED
  BY <1>3, <1>4, <1>6, <1>10, <1>11, <1>12, <1>13 DEF PictureInv

\* The counters and registers of the composed display keep their ranges; the
\* sync, the reader, the FIFO and the panel stay in step, through stops and
\* starts, and the FIFO stays full enough: for any frame, burst, FIFO and panel
\* timing that meets SpeedAssumption.
THEOREM PictureInvariant == Spec => []PictureInv
<1>1. Init => PictureInv
  BY PictureInit
<1>2. PictureInv /\ [Next]_vars => PictureInv'
  <2> SUFFICES ASSUME PictureInv, [Next]_vars PROVE PictureInv'
    OBVIOUS
  <2>1. IInv'
    <3>1. TimingInv
      BY DEF PictureInv, TypeOK, TimingInv
    <3> QED
      BY <3>1, StepMaps, InvStep DEF PictureInv
  <2>2. CASE Software
    BY <2>1, <2>2, PictureSoftware
  <2>3. CASE SystemClock
    BY <2>1, <2>3, PictureClock
  <2>4. CASE RequestPixel
    BY <2>1, <2>4, PicturePixel
  <2>5. CASE UNCHANGED vars
    <3>1. UNCHANGED <<tcon, clocks, stalls, registers, sync, machine, buffer>>
      BY <2>5 DEF vars, master
    <3>2. TypeOK' /\ SyncInv'
      BY <2>1, <3>1 DEF PictureInv, TypeOK, IInv, SyncInv, tcon, sync
    <3>3. StartInv'
      BY <3>1 DEF PictureInv, StartInv, registers, sync, machine, buffer
    <3>4. OrderInv'
      BY <3>1 DEF PictureInv, OrderInv, Pos, NextColumn, DisplayLine, tcon, sync, machine, buffer
    <3>5. SpeedInv'
      BY <3>1 DEF PictureInv, SpeedInv, Dry, Lead, Need, tcon, sync, machine, buffer
    <3>6. StopInv'
      BY <3>1 DEF PictureInv, StopInv, Lead, Finish, tcon, sync, machine
    <3>7. EnableInv' /\ ColourInv'
      BY <3>1 DEF PictureInv, EnableInv, ColourInv, DisplayLine, tcon, sync
    <3> QED
      BY <2>1, <3>2, <3>3, <3>4, <3>5, <3>6, <3>7 DEF PictureInv
  <2> QED
    BY <2>2, <2>3, <2>4, <2>5 DEF Next
<1> QED
  BY <1>1, <1>2, PTL DEF Spec

\* The panel gets for every pixel it requests the word of that pixel, the FIFO
\* is never empty when one is due, and the enabled columns of a line show the
\* pixels two columns on.
THEOREM EveryPixelInPlace == Spec => []PixelInPlace
<1>1. PictureInv => PixelInPlace
  BY RequestFinds, ColoursFollow DEF PixelInPlace
<1> QED
  BY <1>1, PictureInvariant, PTL
=============================================================================
