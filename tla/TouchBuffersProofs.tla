------------------------ MODULE TouchBuffersProofs ------------------------
(***************************************************************************)
(* Proofs about TouchBuffers for every FIFO_SIZE, STACK_SIZE and number of *)
(* touches, in particular the program's 32 and 512.                        *)
(***************************************************************************)
EXTENDS TouchBuffers, SequenceTheorems, TLAPS

\* Succ (hello_world.c:69, 92 and 103) steps to the next slot of the ring and
\* wraps after the last one.
LEMMA SuccFacts ==
    ASSUME NEW i \in Slots
    PROVE  /\ Succ(i) \in Slots
           /\ Succ(i) = IF i = FIFO_SIZE - 1 THEN 0 ELSE i + 1
           /\ Succ(i) # i
<1>1. CASE i = FIFO_SIZE - 1
  BY <1>1, SizesAssumption DEF Slots, Succ
<1>2. CASE i # FIFO_SIZE - 1
  BY <1>2, SizesAssumption DEF Slots, Succ
<1>3. QED
  BY <1>1, <1>2

-----------------------------------------------------------------------------
(* Types.  TypeOK is not inductive alone: the stores of the two pops keep    *)
(* the indices inside the arrays only because a buffer found non-empty stays *)
(* so until the pop is over, which is PopGuard.                              *)

TypeInv == TypeOK /\ PopGuard

LEMMA TypeInvInit == Init => TypeInv
BY SizesAssumption DEF Init, TypeInv, TypeOK, PopGuard, Slots, Cells, Points, Labels

\* The interrupt (hello_world.c:139-148), whatever the main loop is doing.
LEMMA TypeInvIsr == TypeInv /\ touch_isr => TypeInv'
<1> SUFFICES ASSUME TypeInv, touch_isr PROVE TypeInv'
  OBVIOUS
<1> USE SizesAssumption DEF TypeInv, touch_isr, locals, panel, marks
<1>1. touches + 1 \in Points /\ touches' \in Points
  BY DEF TypeOK, Points
<1>2. /\ fifo' \in [Slots -> Points]
      /\ fifo_head' \in Slots
      /\ fifo_dropped' \subseteq Points
      /\ fifo_head # fifo_tail => fifo_head' # fifo_tail
  <2>1. CASE is_fifo_full
    BY <1>1, <2>1 DEF TypeOK, fifo_push
  <2>2. CASE ~is_fifo_full
    BY <1>1, <2>2, SuccFacts DEF TypeOK, fifo_push, is_fifo_full
  <2>3. QED
    BY <2>1, <2>2
<1>3. /\ stack' \in [Cells -> Points]
      /\ stack_top' \in Cells \cup {-1}
      /\ stack_dropped' \subseteq Points
      /\ stack_top' >= stack_top
  <2> DEFINE p == touches + 1
  <2>1. stack_top \in Int /\ stack_top >= -1 /\ stack_top <= STACK_SIZE - 1
    BY DEF TypeOK, Cells
  <2>2. CASE is_stack_full
    <3>1. stack' = stack /\ stack_top' = stack_top
      BY <2>2 DEF stack_push
    <3>2. stack_dropped' = stack_dropped \cup {p}
      BY <2>2 DEF stack_push
    <3>3. QED
      BY <1>1, <2>1, <3>1, <3>2 DEF TypeOK
  <2>3. CASE ~is_stack_full
    <3>1. /\ stack' = [stack EXCEPT ![stack_top + 1] = p]
          /\ stack_top' = stack_top + 1
          /\ stack_dropped' = stack_dropped
      BY <2>3 DEF stack_push
    <3>2. stack_top + 1 \in Cells
      BY <2>1, <2>3 DEF is_stack_full, Cells
    <3>3. QED
      BY <1>1, <2>1, <3>1, <3>2 DEF TypeOK
  <2>4. QED
    BY <2>2, <2>3
<1>4. TypeOK'
  BY <1>1, <1>2, <1>3 DEF TypeOK
<1>5. PopGuard'
  BY <1>2, <1>3 DEF TypeOK, PopGuard, Cells
<1>6. QED
  BY <1>4, <1>5

\* The steps of the main loop.
LEMMA TypeInvMain == TypeInv /\ Main => TypeInv'
<1> SUFFICES ASSUME TypeInv, Main PROVE TypeInv'
  OBVIOUS
<1> USE SizesAssumption DEF TypeInv, TypeOK, PopGuard, ring, lifo, locals, panel, marks
<1>1. CASE PollButton
  BY <1>1 DEF PollButton, Labels
<1>2. CASE OLED_Clear
  BY <1>2 DEF OLED_Clear, Labels
<1>3. CASE stack_clear
  BY <1>3 DEF stack_clear, Labels
<1>4. CASE ClearHead
  BY <1>4 DEF ClearHead, Labels, Slots
<1>5. CASE ClearTail
  BY <1>5 DEF ClearTail, Labels, Slots
<1>6. CASE Snapshot \/ Inference
  BY <1>6 DEF Snapshot, Inference, Labels
<1>7. CASE FifoTest
  BY <1>7 DEF FifoTest, Labels, is_fifo_empty
<1>8. CASE FifoFetch
  BY <1>8 DEF FifoFetch, Labels
<1>9. CASE FifoAdvance
  BY <1>9, SuccFacts DEF FifoAdvance, Labels
<1>10. CASE DrawStroke
  BY <1>10 DEF DrawStroke, Labels
<1>11. CASE StackTest
  BY <1>11 DEF StackTest, Labels, is_stack_empty, Cells
<1>12. CASE StackLoad
  BY <1>12 DEF StackLoad, Labels, Cells
<1>13. CASE StackFetch
  BY <1>13 DEF StackFetch, Labels, Cells
<1>14. CASE StackStore
  BY <1>14 DEF StackStore, Labels, Cells
<1>15. CASE DrawThumb
  BY <1>15 DEF DrawThumb, Labels
<1>16. QED
  BY <1>1, <1>2, <1>3, <1>4, <1>5, <1>6, <1>7, <1>8, <1>9, <1>10, <1>11,
     <1>12, <1>13, <1>14, <1>15 DEF Main

\* Every index stays inside its array and a pop never starts on a buffer that
\* has become empty, for every size of the buffers.
THEOREM TypeCorrect == Spec => []TypeInv
<1>1. TypeInv /\ [Next]_vars => TypeInv'
  <2> SUFFICES ASSUME TypeInv, [Next]_vars PROVE TypeInv'
    OBVIOUS
  <2>1. CASE UNCHANGED vars
    BY <2>1 DEF TypeInv, TypeOK, PopGuard, vars, ring, lifo, locals, panel, marks
  <2>2. QED
    BY <2>1, TypeInvIsr, TypeInvMain DEF Next
<1>2. QED
  BY TypeInvInit, <1>1, PTL DEF Spec

-----------------------------------------------------------------------------
(* The copies and the stack.  The invariant says which slot each copy is of, *)
(* and that a point pushed now is newer than all that is stacked or painted: *)
(* that is what makes the stack free of repeats, although a pop that meets a *)
(* push stores an index that forgets the pushed point.                       *)

IInv == TypeInv /\ CopyIsSlot /\ PaintedSoFar /\ StackNeverRepeats

LEMMA IInvInit == Init => IInv
<1> SUFFICES ASSUME Init PROVE IInv
  OBVIOUS
<1>1. TypeInv
  BY TypeInvInit
<1>2. CopyIsSlot
  BY DEF Init, CopyIsSlot
<1>3. 0 .. stack_top = {}
  BY DEF Init
<1>4. PaintedSoFar /\ StackNeverRepeats
  BY <1>3 DEF Init, PaintedSoFar, StackNeverRepeats, Stacked, ThumbInFlight
<1>5. QED
  BY <1>1, <1>2, <1>4 DEF IInv

\* StackNeverRepeats, cell by cell.
LEMMA NeverRepeatsCells ==
    StackNeverRepeats <=>
        /\ \A i, j \in 0 .. stack_top : i < j => stack[i] < stack[j]
        /\ \A i \in 0 .. stack_top :
               /\ stack[i] \notin thumb
               /\ pc = "draw_thumb" => stack[i] # thumb_point
BY DEF StackNeverRepeats, Stacked, ThumbInFlight

LEMMA NeverRepeatsCellsNext ==
    StackNeverRepeats' <=>
        /\ \A i, j \in 0 .. stack_top' : i < j => stack'[i] < stack'[j]
        /\ \A i \in 0 .. stack_top' :
               /\ stack'[i] \notin thumb'
               /\ pc' = "draw_thumb" => stack'[i] # thumb_point'
BY DEF StackNeverRepeats, Stacked, ThumbInFlight

LEMMA IInvIsr == IInv /\ touch_isr => IInv'
<1> SUFFICES ASSUME IInv, touch_isr PROVE IInv'
  OBVIOUS
<1> USE SizesAssumption
<1>1. TypeInv'
  BY TypeInvIsr DEF IInv
<1>2. /\ touches \in Nat /\ touches' = touches + 1
      /\ stack_top \in Int /\ stack_top >= -1
      /\ UNCHANGED <<fifo_tail, pc, fetched, top, thumb_point, thumb>>
  BY DEF IInv, TypeInv, TypeOK, Points, Cells, touch_isr, locals, panel
<1>3. pc = "fifo_advance" => fifo'[fifo_tail] = fifo[fifo_tail]
  BY DEF IInv, TypeInv, TypeOK, PopGuard, touch_isr, fifo_push
<1>4. \/ UNCHANGED <<stack, stack_top>>
      \/ /\ stack_top' = stack_top + 1
         /\ stack'[stack_top + 1] = touches + 1
         /\ \A i \in 0 .. stack_top : stack'[i] = stack[i]
  <2>1. CASE is_stack_full
    BY <2>1 DEF touch_isr, stack_push
  <2>2. CASE ~is_stack_full
    <3>1. stack' = [stack EXCEPT ![stack_top + 1] = touches + 1]
          /\ stack_top' = stack_top + 1
      BY <2>2 DEF touch_isr, stack_push
    <3>2. stack_top + 1 \in Cells
      BY <1>2, <2>2 DEF is_stack_full, Cells
    <3>3. stack \in [Cells -> Points] /\ stack_top \in Cells \cup {-1}
      BY DEF IInv, TypeInv, TypeOK
    <3>4. \A i \in 0 .. stack_top : i \in Cells /\ i # stack_top + 1
      BY <1>2, <3>3 DEF Cells
    <3>5. QED
      BY <3>1, <3>2, <3>3, <3>4
  <2>3. QED
    BY <2>1, <2>2
<1>5. CopyIsSlot'
  BY <1>2, <1>3, <1>4 DEF IInv, CopyIsSlot, TypeInv, PopGuard
<1>6. PaintedSoFar'
  BY <1>2, <1>4 DEF IInv, PaintedSoFar
<1>7. StackNeverRepeats'
  <2>1. \A i \in 0 .. stack_top : stack[i] \in 0 .. touches
    BY DEF IInv, PaintedSoFar
  <2>2. thumb \subseteq 0 .. touches /\ thumb_point \in 0 .. touches
    BY DEF IInv, PaintedSoFar
  <2>3. CASE UNCHANGED <<stack, stack_top>>
    BY <1>2, <2>3, NeverRepeatsCells, NeverRepeatsCellsNext DEF IInv
  <2>4. CASE /\ stack_top' = stack_top + 1
             /\ stack'[stack_top + 1] = touches + 1
             /\ \A i \in 0 .. stack_top : stack'[i] = stack[i]
    <3>1. \A i, j \in 0 .. stack_top' : i < j => stack'[i] < stack'[j]
      BY <1>2, <2>1, <2>4, NeverRepeatsCells DEF IInv
    <3>2. ASSUME NEW i \in 0 .. stack_top'
          PROVE  /\ stack'[i] \notin thumb'
                 /\ pc' = "draw_thumb" => stack'[i] # thumb_point'
      BY <1>2, <2>1, <2>2, <2>4, NeverRepeatsCells DEF IInv
    <3>3. QED
      BY <3>1, <3>2, NeverRepeatsCellsNext
  <2>5. QED
    BY <1>4, <2>3, <2>4
<1>8. QED
  BY <1>1, <1>5, <1>6, <1>7 DEF IInv

LEMMA IInvMain == IInv /\ Main => IInv'
<1> SUFFICES ASSUME IInv, Main PROVE IInv'
  OBVIOUS
<1> USE SizesAssumption DEF ring, lifo, locals, panel, marks
<1>1. TypeInv'
  BY TypeInvMain DEF IInv
<1>2. TypeOK /\ PopGuard /\ CopyIsSlot /\ PaintedSoFar
  BY DEF IInv, TypeInv
<1>3. /\ touches \in Nat /\ touches' = touches /\ stack' = stack
      /\ stack_top \in Int /\ stack_top >= -1
  BY <1>2 DEF TypeOK, Points, Cells, Main, PollButton, OLED_Clear, stack_clear,
     ClearHead, ClearTail, Snapshot, Inference, FifoTest, FifoFetch,
     FifoAdvance, DrawStroke, StackTest, StackLoad, StackFetch, StackStore,
     DrawThumb
<1>4. /\ \A i, j \in 0 .. stack_top : i < j => stack[i] < stack[j]
      /\ \A i \in 0 .. stack_top :
             /\ stack[i] \notin thumb
             /\ pc = "draw_thumb" => stack[i] # thumb_point
  BY NeverRepeatsCells DEF IInv
\* Steps that touch neither the stack, nor the thumbnail, nor a copy.
<1>5. CASE PollButton \/ ClearHead \/ ClearTail \/ Snapshot \/ Inference
           \/ FifoTest \/ FifoFetch \/ FifoAdvance \/ DrawStroke
           \/ StackTest \/ StackLoad \/ StackFetch
  <2>1. /\ UNCHANGED <<stack, stack_top, thumb, thumb_point, touches>>
        /\ pc # "draw_thumb" /\ pc' # "draw_thumb"
        /\ pc' \in {"stack_clear", "clear_head", "clear_tail"} =>
              pc \in {"stack_clear", "clear_head", "clear_tail"}
    BY <1>5 DEF PollButton, ClearHead, ClearTail, Snapshot, Inference,
       FifoTest, FifoFetch, FifoAdvance, DrawStroke, StackTest, StackLoad,
       StackFetch
  <2>2. CopyIsSlot'
    BY <1>5 DEF CopyIsSlot, PollButton, ClearHead, ClearTail, Snapshot,
       Inference, FifoTest, FifoFetch, FifoAdvance, DrawStroke, StackTest,
       StackLoad, StackFetch
  <2>3. PaintedSoFar'
    BY <1>2, <2>1 DEF PaintedSoFar
  <2>4. StackNeverRepeats'
    BY <1>4, <2>1, NeverRepeatsCellsNext
  <2>5. QED
    BY <1>1, <2>2, <2>3, <2>4 DEF IInv
<1>6. CASE OLED_Clear
  <2>1. CopyIsSlot'
    BY <1>6 DEF OLED_Clear, CopyIsSlot
  <2>2. PaintedSoFar'
    BY <1>2, <1>6 DEF OLED_Clear, PaintedSoFar
  <2>3. StackNeverRepeats'
    BY <1>4, <1>6, NeverRepeatsCellsNext DEF OLED_Clear
  <2>4. QED
    BY <1>1, <2>1, <2>2, <2>3 DEF IInv
<1>7. CASE stack_clear
  <2>1. /\ 0 .. stack_top' = {} /\ pc' = "clear_head" /\ pc = "stack_clear"
        /\ UNCHANGED <<thumb, thumb_point, touches>>
    BY <1>7 DEF stack_clear
  <2>2. CopyIsSlot'
    BY <2>1 DEF CopyIsSlot
  <2>3. PaintedSoFar'
    BY <1>2, <2>1 DEF PaintedSoFar
  <2>4. StackNeverRepeats'
    BY <2>1, NeverRepeatsCellsNext
  <2>5. QED
    BY <1>1, <2>2, <2>3, <2>4 DEF IInv
<1>8. CASE StackStore
  <2>1. /\ top \in 0 .. stack_top /\ fetched = stack[top]
        /\ stack_top' = top - 1 /\ thumb_point' = fetched
        /\ pc' = "draw_thumb" /\ UNCHANGED <<stack, thumb, touches>>
    BY <1>2, <1>8 DEF StackStore, PopGuard, CopyIsSlot
  <2>2. \A i \in 0 .. stack_top' : i \in 0 .. stack_top /\ i < top
    BY <1>3, <2>1
  <2>3. CopyIsSlot'
    BY <2>1 DEF CopyIsSlot
  <2>4. PaintedSoFar'
    BY <1>2, <2>1, <2>2 DEF PaintedSoFar
  <2>5. \A i \in 0 .. stack_top' : stack[i] # fetched
    <3>1. TAKE i \in 0 .. stack_top'
    <3>2. stack[i] < stack[top]
      BY <1>4, <2>1, <2>2
    <3>3. stack[i] \in Int /\ stack[top] \in Int
      BY <1>2, <1>3, <2>1, <2>2 DEF PaintedSoFar
    <3>4. QED
      BY <2>1, <3>2, <3>3
  <2>6. StackNeverRepeats'
    BY <1>4, <2>1, <2>2, <2>5, NeverRepeatsCellsNext
  <2>7. QED
    BY <1>1, <2>3, <2>4, <2>6 DEF IInv
<1>9. CASE DrawThumb
  <2>1. /\ thumb' = thumb \cup {thumb_point}
        /\ pc = "draw_thumb" /\ pc' = "poll"
        /\ UNCHANGED <<stack, stack_top, thumb_point, touches>>
    BY <1>9 DEF DrawThumb
  <2>2. CopyIsSlot'
    BY <2>1 DEF CopyIsSlot
  <2>3. PaintedSoFar'
    BY <1>2, <2>1 DEF PaintedSoFar
  <2>4. StackNeverRepeats'
    BY <1>4, <2>1, NeverRepeatsCellsNext
  <2>5. QED
    BY <1>1, <2>2, <2>3, <2>4 DEF IInv
<1>10. QED
  BY <1>5, <1>6, <1>7, <1>8, <1>9 DEF Main

\* The inductive invariant holds of every behaviour.
LEMMA IInvHolds == Spec => []IInv
<1>1. IInv /\ UNCHANGED vars => IInv'
  BY DEF IInv, TypeInv, TypeOK, PopGuard, CopyIsSlot, PaintedSoFar,
     StackNeverRepeats, Stacked, ThumbInFlight, vars, ring, lifo, locals,
     panel, marks
<1>2. IInv /\ [Next]_vars => IInv'
  BY <1>1, IInvIsr, IInvMain DEF Next
<1>3. QED
  BY IInvInit, <1>2, PTL DEF Spec

\* stack[stack_top--] never reads below the array (hello_world.c:122).
THEOREM PopIndexSafe == Spec => []PopIndexInArray
<1>1. IInv => PopIndexInArray
  BY SizesAssumption DEF IInv, TypeInv, TypeOK, PopGuard, PopIndexInArray, Cells
<1>2. QED
  BY IInvHolds, <1>1, PTL

\* The slot fifo_pop copies is not written until it is given back
\* (hello_world.c:102-103 against 90-92).
THEOREM SlotIsStable == Spec => []SlotStable
<1>1. IInv => SlotStable
  BY DEF IInv, TypeInv, PopGuard, CopyIsSlot, SlotStable
<1>2. QED
  BY IInvHolds, <1>1, PTL

\* No touch is painted into the thumbnail twice, and the stack is ordered,
\* whatever the unlocked stack_top-- does to points pushed meanwhile.
THEOREM NeverRepeats == Spec => []StackNeverRepeats
<1>1. IInv => StackNeverRepeats
  BY DEF IInv
<1>2. QED
  BY IInvHolds, <1>1, PTL

-----------------------------------------------------------------------------
(* The queue, slot by slot: the slots from the base up to the head, round    *)
(* the end of the ring.                                                      *)

InQueue(base, i) ==
    IF base <= fifo_head THEN base <= i /\ i < fifo_head
                         ELSE base <= i \/ i < fifo_head

LEMMA Wrap ==
    ASSUME NEW a \in 0 .. 2 * FIFO_SIZE - 1
    PROVE  a % FIFO_SIZE = IF a < FIFO_SIZE THEN a ELSE a - FIFO_SIZE
<1>1. CASE a < FIFO_SIZE
  BY <1>1, SizesAssumption
<1>2. CASE a >= FIFO_SIZE
  BY <1>2, SizesAssumption
<1> QED
  BY <1>1, <1>2, SizesAssumption

LEMMA QueuedSlots ==
    ASSUME TypeOK
    PROVE  \A p : p \in Queued <=> \E i \in Slots : InQueue(Base, i) /\ fifo[i] = p
<1> USE SizesAssumption
<1>1. Base \in Slots /\ fifo_head \in Slots /\ FIFO_SIZE \in Nat
  BY DEF TypeOK, Base, Slots
<1> DEFINE b == Base
           slot(i) == (b + i - 1) % FIFO_SIZE
<1>2. b \in Slots
  BY <1>1
<1> HIDE DEF b
<1>3. QueueLength = IF b <= fifo_head THEN fifo_head - b ELSE fifo_head - b + FIFO_SIZE
  <2>1. fifo_head - b + FIFO_SIZE \in 0 .. 2 * FIFO_SIZE - 1
    BY <1>1, <1>2 DEF Slots
  <2> QED
    BY <1>1, <1>2, <2>1, Wrap DEF QueueLength, Slots, b
<1>4. \A i \in 1 .. QueueLength :
          slot(i) = IF b + i - 1 < FIFO_SIZE THEN b + i - 1 ELSE b + i - 1 - FIFO_SIZE
  <2> TAKE i \in 1 .. QueueLength
  <2>1. PICK a \in 0 .. 2 * FIFO_SIZE - 1 : a = b + i - 1
    BY <1>1, <1>2, <1>3 DEF Slots
  <2>2. slot(i) = a % FIFO_SIZE
    BY <2>1
  <2>3. a % FIFO_SIZE = IF a < FIFO_SIZE THEN a ELSE a - FIFO_SIZE
    BY Wrap
  <2>4. b \in Int /\ i \in Int
    BY <1>1, <1>2, <1>3 DEF Slots
  <2> HIDE DEF slot
  <2> QED
    BY <2>1, <2>2, <2>3, <2>4
<1>5. \A i \in 1 .. QueueLength : slot(i) \in Slots /\ InQueue(b, slot(i))
  BY <1>1, <1>2, <1>3, <1>4 DEF Slots, InQueue
<1>6. ASSUME NEW j \in Slots, InQueue(b, j)
      PROVE  \E i \in 1 .. QueueLength : slot(i) = j
  <2> DEFINE i == IF b <= j THEN j - b + 1 ELSE j - b + 1 + FIFO_SIZE
  <2>1. i \in 1 .. QueueLength
    BY <1>1, <1>2, <1>3, <1>6 DEF Slots, InQueue
  <2>2. slot(i) = j
    <3>1. slot(i) = IF b + i - 1 < FIFO_SIZE THEN b + i - 1 ELSE b + i - 1 - FIFO_SIZE
      BY <1>4, <2>1
    <3> QED
      BY <1>1, <1>2, <3>1 DEF Slots
  <2> QED
    BY <2>1, <2>2
<1>7. Queued = {fifo[slot(i)] : i \in 1 .. QueueLength}
  BY DEF Queued, QueueContent, b
<1>8. \A p : p \in Queued <=> \E i \in Slots : InQueue(b, i) /\ fifo[i] = p
  BY <1>5, <1>6, <1>7
<1> QED
  BY <1>8 DEF b

-----------------------------------------------------------------------------
(* CLEAR and the order of its stores.  After the panel is wiped everything   *)
(* pushed is new; the old points are in the stack until it is cleared and in *)
(* the ring until its head is.                                               *)

InkInv ==
    /\ oled_mark <= touches
    /\ \A p \in stroke \cup thumb \cup StrokeInFlight \cup ThumbInFlight : p > oled_mark
    /\ pc # "stack_clear" => \A i \in 0 .. stack_top : stack[i] > oled_mark
    /\ pc \notin {"stack_clear", "clear_head"} =>
           \A i \in Slots : InQueue(Base, i) => fifo[i] > oled_mark

\* Between the two stores of fifo_clear the new queue stays behind the old tail.
ClearOrder == pc = "clear_tail" => fifo_head < fifo_tail \/ fifo_tail = 0

\* A thumbnail point has its stroke, or will get it, or lost it with notice.
Backed(p) ==
    \/ p \in stroke \cup StrokeInFlight \cup fifo_dropped
    \/ \E i \in Slots : InQueue(Base, i) /\ fifo[i] = p
    \/ p <= fifo_mark

BackInv ==
    /\ fifo_mark <= touches
    /\ \A p \in thumb \cup ThumbInFlight : Backed(p)
    /\ pc # "stack_clear" => \A p \in Stacked : Backed(p)

ClearInv == InkInv /\ ClearOrder /\ BackInv

LEMMA ClearInvInit == Init => ClearInv
<1> SUFFICES ASSUME Init PROVE ClearInv
  OBVIOUS
<1>1. /\ 0 .. stack_top = {} /\ Base = 0 /\ fifo_head = 0
      /\ \A i \in Slots : ~InQueue(Base, i)
  BY SizesAssumption DEF Init, Base, InQueue, Slots
<1> QED
  BY <1>1 DEF Init, ClearInv, InkInv, ClearOrder, BackInv, Stacked, StrokeInFlight, ThumbInFlight

\* What a push does to the queue.
LEMMA PushedSlots ==
    ASSUME TypeInv, ClearOrder, touch_isr
    PROVE  /\ Base' = Base
           /\ \A i \in Slots : InQueue(Base, i) => InQueue(Base, i)' /\ fifo'[i] = fifo[i]
           /\ \A i \in Slots : InQueue(Base, i)' =>
                  \/ InQueue(Base, i) /\ fifo'[i] = fifo[i]
                  \/ fifo'[i] = touches + 1
           /\ \/ \E i \in Slots : InQueue(Base, i)' /\ fifo'[i] = touches + 1
              \/ touches + 1 \in fifo_dropped'
<1> USE SizesAssumption
<1>1. /\ fifo_head \in Slots /\ fifo_tail \in Slots /\ Base \in Slots
      /\ fifo \in [Slots -> Points] /\ FIFO_SIZE \in Nat
  BY DEF TypeInv, TypeOK, Base, Slots
<1>2. Base' = Base
  BY DEF touch_isr, Base
<1>3. CASE is_fifo_full
  <2>1. UNCHANGED <<fifo, fifo_head>> /\ touches + 1 \in fifo_dropped'
    BY <1>3 DEF touch_isr, fifo_push
  <2> QED
    BY <1>2, <2>1 DEF InQueue
<1>4. CASE ~is_fifo_full
  <2>1. /\ fifo' = [fifo EXCEPT ![fifo_head] = touches + 1]
        /\ fifo_head' = Succ(fifo_head)
    BY <1>4 DEF touch_isr, fifo_push
  <2>2. /\ Succ(fifo_head) \in Slots /\ Succ(fifo_head) # fifo_tail
        /\ Succ(fifo_head) = IF fifo_head = FIFO_SIZE - 1 THEN 0 ELSE fifo_head + 1
    BY <1>1, <1>4, SuccFacts DEF is_fifo_full
  <2>3. Succ(fifo_head) # Base
    BY <1>1, <2>2 DEF Base, ClearOrder, Slots
  <2>4. \A i \in Slots : InQueue(Base, i)' <=> InQueue(Base, i) \/ i = fifo_head
    BY <1>1, <1>2, <2>1, <2>2, <2>3 DEF InQueue, Slots
  <2>5. ~InQueue(Base, fifo_head)
    BY <1>1 DEF InQueue, Slots
  <2>6. /\ \A i \in Slots : i # fifo_head => fifo'[i] = fifo[i]
        /\ fifo'[fifo_head] = touches + 1
    BY <1>1, <2>1
  <2> QED
    BY <1>1, <1>2, <2>4, <2>5, <2>6
<1> QED
  BY <1>3, <1>4

\* What a push does to the stack.
LEMMA PushedCells ==
    ASSUME TypeInv, touch_isr
    PROVE  \A i \in 0 .. stack_top' :
               \/ i \in 0 .. stack_top /\ stack'[i] = stack[i]
               \/ stack'[i] = touches + 1
<1> USE SizesAssumption
<1>1. /\ stack_top \in Int /\ stack_top >= -1 /\ stack \in [Cells -> Points]
      /\ stack_top <= STACK_SIZE - 1
  BY DEF TypeInv, TypeOK, Cells
<1>2. CASE is_stack_full
  BY <1>2 DEF touch_isr, stack_push
<1>3. CASE ~is_stack_full
  <2>1. stack' = [stack EXCEPT ![stack_top + 1] = touches + 1] /\ stack_top' = stack_top + 1
    BY <1>3 DEF touch_isr, stack_push
  <2>2. \A i \in 0 .. stack_top' : i \in Cells /\ (i \in 0 .. stack_top \/ i = stack_top + 1)
    BY <1>1, <1>3, <2>1 DEF is_stack_full, Cells
  <2> QED
    BY <1>1, <2>1, <2>2
<1> QED
  BY <1>2, <1>3

LEMMA ClearInvIsr == IInv /\ ClearInv /\ touch_isr => ClearInv'
<1> SUFFICES ASSUME IInv, ClearInv, touch_isr PROVE ClearInv'
  OBVIOUS
<1>1. TypeInv /\ ClearOrder /\ InkInv /\ BackInv
  BY DEF IInv, ClearInv
<1>2. /\ touches \in Nat /\ oled_mark \in Nat /\ fifo_mark \in Nat /\ touches' = touches + 1
      /\ UNCHANGED <<pc, fifo_tail, stroke, thumb, stroke_point, thumb_point, oled_mark,
                     fifo_mark>>
  BY <1>1 DEF TypeInv, TypeOK, Points, touch_isr, locals, panel, marks
<1>3. StrokeInFlight' = StrokeInFlight /\ ThumbInFlight' = ThumbInFlight
  BY <1>2 DEF StrokeInFlight, ThumbInFlight
<1>4. InkInv'
  <2>1. touches + 1 > oled_mark /\ oled_mark <= touches'
    BY <1>1, <1>2 DEF InkInv
  <2>2. pc # "stack_clear" => \A i \in 0 .. stack_top' : stack'[i] > oled_mark
    BY <1>1, <2>1, PushedCells DEF InkInv
  <2>3. pc \notin {"stack_clear", "clear_head"} =>
            \A i \in Slots : InQueue(Base, i)' => fifo'[i] > oled_mark
    BY <1>1, <2>1, PushedSlots DEF InkInv
  <2> QED
    BY <1>1, <1>2, <1>3, <2>1, <2>2, <2>3 DEF InkInv
<1>5. ClearOrder'
  <2>1. CASE is_fifo_full
    BY <1>1, <1>2, <2>1 DEF ClearOrder, touch_isr, fifo_push
  <2>2. CASE ~is_fifo_full
    <3>1. fifo_head \in Slots /\ fifo_tail \in Slots /\ FIFO_SIZE \in Nat
      BY <1>1, SizesAssumption DEF TypeInv, TypeOK
    <3>2. /\ fifo_head' = Succ(fifo_head) /\ Succ(fifo_head) # fifo_tail
          /\ Succ(fifo_head) = IF fifo_head = FIFO_SIZE - 1 THEN 0 ELSE fifo_head + 1
      BY <2>2, <3>1, SuccFacts DEF touch_isr, fifo_push, is_fifo_full
    <3> QED
      BY <1>1, <1>2, <3>1, <3>2 DEF ClearOrder, Slots
  <2> QED
    BY <2>1, <2>2
<1>6. BackInv'
  <2>1. \A p : Backed(p) => Backed(p)'
    <3>1. fifo_dropped \subseteq fifo_dropped'
      BY DEF touch_isr, fifo_push
    <3> QED
      BY <1>1, <1>2, <1>3, <3>1, PushedSlots DEF Backed
  <2>2. \A p : p = touches + 1 => Backed(p)'
    BY <1>1, PushedSlots DEF Backed
  <2>3. \A p \in thumb' \cup ThumbInFlight' : Backed(p)'
    BY <1>1, <1>2, <1>3, <2>1 DEF BackInv
  <2>4. \A p \in Stacked' : p \in Stacked \/ p = touches + 1
    BY <1>1, PushedCells DEF Stacked
  <2>5. pc # "stack_clear" => \A p \in Stacked' : Backed(p)'
    BY <1>1, <2>1, <2>2, <2>4 DEF BackInv
  <2>6. fifo_mark' <= touches'
    BY <1>1, <1>2 DEF BackInv
  <2> QED
    BY <1>2, <2>3, <2>5, <2>6 DEF BackInv
<1> QED
  BY <1>4, <1>5, <1>6 DEF ClearInv

\* The panel, the marks and what is queued or stacked stay as they are.
LEMMA ClearInvKept ==
    ASSUME ClearInv, UNCHANGED <<fifo, fifo_head, fifo_tail, fifo_dropped, stack, stack_top,
                                 stroke, thumb, touches, oled_mark, fifo_mark>>,
           pc \notin {"stack_clear", "clear_head", "clear_tail", "draw_stroke", "draw_thumb"},
           pc' \notin {"stack_clear", "clear_head", "clear_tail", "draw_stroke", "draw_thumb"}
    PROVE  ClearInv'
<1>1. /\ \A i \in Slots : InQueue(Base, i)' <=> InQueue(Base, i)
      /\ Stacked' = Stacked
      /\ StrokeInFlight = {} /\ StrokeInFlight' = {}
      /\ ThumbInFlight = {} /\ ThumbInFlight' = {}
  BY DEF Base, InQueue, Stacked, StrokeInFlight, ThumbInFlight
<1>2. \A p : Backed(p) => Backed(p)'
  BY <1>1 DEF Backed
<1> QED
  BY <1>1, <1>2 DEF ClearInv, InkInv, ClearOrder, BackInv

LEMMA ClearInvMain == IInv /\ ClearInv /\ Main => ClearInv'
<1> SUFFICES ASSUME IInv, ClearInv, Main PROVE ClearInv'
  OBVIOUS
<1> USE SizesAssumption DEF ring, lifo, locals, panel, marks
<1>1. TypeOK /\ PopGuard /\ CopyIsSlot /\ PaintedSoFar /\ InkInv /\ ClearOrder /\ BackInv
  BY DEF IInv, TypeInv, ClearInv
<1>2. /\ touches \in Nat /\ oled_mark \in Nat /\ fifo_mark \in Nat
      /\ stack_top \in Int /\ stack_top >= -1
      /\ fifo_head \in Slots /\ fifo_tail \in Slots
      /\ FIFO_SIZE \in Nat /\ \A i \in Slots : i \in Int /\ i >= 0
  BY <1>1 DEF TypeOK, Points, Cells, Slots
<1>3. CASE PollButton \/ Snapshot \/ Inference \/ FifoTest \/ FifoFetch \/ StackTest
           \/ StackLoad \/ StackFetch
  BY <1>3, ClearInvKept DEF PollButton, Snapshot, Inference, FifoTest, FifoFetch, StackTest,
                            StackLoad, StackFetch
<1>4. CASE OLED_Clear
  <2>1. /\ pc' = "stack_clear" /\ stroke' = {} /\ thumb' = {} /\ oled_mark' = touches
        /\ UNCHANGED <<fifo_mark, touches>>
    BY <1>4 DEF OLED_Clear
  <2>2. StrokeInFlight' = {} /\ ThumbInFlight' = {}
    BY <2>1 DEF StrokeInFlight, ThumbInFlight
  <2> QED
    BY <1>1, <1>2, <2>1, <2>2 DEF ClearInv, InkInv, ClearOrder, BackInv
<1>5. CASE stack_clear
  <2>1. /\ pc = "stack_clear" /\ pc' = "clear_head" /\ 0 .. stack_top' = {}
        /\ UNCHANGED <<stroke, thumb, touches, oled_mark, fifo_mark>> /\ thumb = {}
    BY <1>1, <1>5 DEF stack_clear, PaintedSoFar
  <2>2. /\ StrokeInFlight' = {} /\ ThumbInFlight' = {} /\ Stacked' = {}
    BY <2>1 DEF StrokeInFlight, ThumbInFlight, Stacked
  <2> QED
    BY <1>1, <2>1, <2>2 DEF ClearInv, InkInv, ClearOrder, BackInv
<1>6. CASE ClearHead
  <2>1. /\ pc = "clear_head" /\ pc' = "clear_tail" /\ fifo_head' = 0 /\ fifo_mark' = touches
        /\ UNCHANGED <<fifo_tail, stack, stack_top, stroke, thumb, touches, oled_mark>>
        /\ thumb = {}
    BY <1>1, <1>6 DEF ClearHead, PaintedSoFar
  <2>2. /\ StrokeInFlight' = {} /\ ThumbInFlight' = {} /\ Stacked' = Stacked
        /\ \A i \in Slots : ~InQueue(Base, i)'
    BY <1>2, <2>1 DEF StrokeInFlight, ThumbInFlight, Stacked, InQueue, Base
  <2>3. InkInv'
    BY <1>1, <2>1, <2>2 DEF InkInv
  <2>4. ClearOrder'
    BY <1>2, <2>1 DEF ClearOrder
  <2>5. \A p \in Stacked : p <= touches
    BY <1>1 DEF PaintedSoFar, Stacked
  <2>6. BackInv'
    BY <1>2, <2>1, <2>2, <2>5 DEF BackInv, Backed
  <2> QED
    BY <2>3, <2>4, <2>6 DEF ClearInv
<1>7. CASE ClearTail
  <2>1. /\ pc = "clear_tail" /\ pc' = "fifo_test" /\ fifo_tail' = 0
        /\ UNCHANGED <<fifo, fifo_head, fifo_dropped, stack, stack_top, stroke, thumb,
                       touches, oled_mark, fifo_mark>>
    BY <1>7 DEF ClearTail
  <2>2. /\ StrokeInFlight' = {} /\ ThumbInFlight' = {} /\ Stacked' = Stacked
        /\ StrokeInFlight = {} /\ ThumbInFlight = {}
        /\ \A i \in Slots : InQueue(Base, i)' <=> InQueue(Base, i)
    BY <2>1 DEF StrokeInFlight, ThumbInFlight, Stacked, InQueue, Base
  <2>3. \A p : Backed(p) => Backed(p)'
    BY <2>1, <2>2 DEF Backed
  <2> QED
    BY <1>1, <2>1, <2>2, <2>3 DEF ClearInv, InkInv, ClearOrder, BackInv
<1>8. CASE FifoAdvance
  <2>1. /\ pc = "fifo_advance" /\ pc' = "draw_stroke" /\ fifo_tail' = Succ(fifo_tail)
        /\ stroke_point' = fetched /\ fetched = fifo[fifo_tail] /\ fifo_head # fifo_tail
        /\ UNCHANGED <<fifo, fifo_head, fifo_dropped, stack, stack_top, stroke, thumb,
                       touches, oled_mark, fifo_mark>>
    BY <1>1, <1>8 DEF FifoAdvance, CopyIsSlot, PopGuard
  <2>2. Succ(fifo_tail) = IF fifo_tail = FIFO_SIZE - 1 THEN 0 ELSE fifo_tail + 1
    BY <1>2, SuccFacts
  <2>3. /\ InQueue(Base, fifo_tail)
        /\ \A i \in Slots : InQueue(Base, i)' <=> InQueue(Base, i) /\ i # fifo_tail
    BY <1>2, <2>1, <2>2 DEF InQueue, Base, Slots
  <2>4. /\ StrokeInFlight = {} /\ StrokeInFlight' = {fifo[fifo_tail]}
        /\ ThumbInFlight = {} /\ ThumbInFlight' = {} /\ Stacked' = Stacked
    BY <2>1 DEF StrokeInFlight, ThumbInFlight, Stacked
  <2>5. \A p : Backed(p) => Backed(p)'
    BY <2>1, <2>3, <2>4 DEF Backed
  <2>6. fifo[fifo_tail] > oled_mark
    BY <1>1, <1>2, <2>1, <2>3 DEF InkInv
  <2> QED
    BY <1>1, <2>1, <2>3, <2>4, <2>5, <2>6 DEF ClearInv, InkInv, ClearOrder, BackInv
<1>9. CASE DrawStroke
  <2>1. /\ pc = "draw_stroke" /\ pc' = "stack_test" /\ stroke' = stroke \cup {stroke_point}
        /\ UNCHANGED <<fifo, fifo_head, fifo_tail, fifo_dropped, stack, stack_top, thumb,
                       touches, oled_mark, fifo_mark>>
    BY <1>9 DEF DrawStroke
  <2>2. /\ StrokeInFlight = {stroke_point} /\ StrokeInFlight' = {}
        /\ ThumbInFlight = {} /\ ThumbInFlight' = {} /\ Stacked' = Stacked
        /\ \A i \in Slots : InQueue(Base, i)' <=> InQueue(Base, i)
    BY <2>1 DEF StrokeInFlight, ThumbInFlight, Stacked, InQueue, Base
  <2>3. \A p : Backed(p) => Backed(p)'
    BY <2>1, <2>2 DEF Backed
  <2> QED
    BY <1>1, <2>1, <2>2, <2>3 DEF ClearInv, InkInv, ClearOrder, BackInv
<1>10. CASE StackStore
  <2>1. /\ pc = "stack_store" /\ pc' = "draw_thumb" /\ top \in 0 .. stack_top
        /\ fetched = stack[top] /\ stack_top' = top - 1 /\ thumb_point' = fetched
        /\ UNCHANGED <<fifo, fifo_head, fifo_tail, fifo_dropped, stack, stroke, thumb,
                       touches, oled_mark, fifo_mark>>
    BY <1>1, <1>10 DEF StackStore, CopyIsSlot, PopGuard
  <2>2. \A i \in 0 .. stack_top' : i \in 0 .. stack_top
    BY <1>2, <2>1
  <2>3. /\ StrokeInFlight = {} /\ StrokeInFlight' = {} /\ ThumbInFlight = {}
        /\ ThumbInFlight' = {stack[top]} /\ stack[top] \in Stacked /\ Stacked' \subseteq Stacked
        /\ \A i \in Slots : InQueue(Base, i)' <=> InQueue(Base, i)
    BY <2>1, <2>2 DEF StrokeInFlight, ThumbInFlight, Stacked, InQueue, Base
  <2>4. \A p : Backed(p) => Backed(p)'
    BY <2>1, <2>3 DEF Backed
  <2>5. InkInv'
    BY <1>1, <2>1, <2>2, <2>3 DEF InkInv
  <2>6. BackInv'
    BY <1>1, <2>1, <2>3, <2>4 DEF BackInv
  <2> QED
    BY <2>1, <2>5, <2>6 DEF ClearInv, ClearOrder
<1>11. CASE DrawThumb
  <2>1. /\ pc = "draw_thumb" /\ pc' = "poll" /\ thumb' = thumb \cup {thumb_point}
        /\ UNCHANGED <<fifo, fifo_head, fifo_tail, fifo_dropped, stack, stack_top, stroke,
                       touches, oled_mark, fifo_mark>>
    BY <1>11 DEF DrawThumb
  <2>2. /\ StrokeInFlight = {} /\ StrokeInFlight' = {}
        /\ ThumbInFlight = {thumb_point} /\ ThumbInFlight' = {} /\ Stacked' = Stacked
        /\ \A i \in Slots : InQueue(Base, i)' <=> InQueue(Base, i)
    BY <2>1 DEF StrokeInFlight, ThumbInFlight, Stacked, InQueue, Base
  <2>3. \A p : Backed(p) => Backed(p)'
    BY <2>1, <2>2 DEF Backed
  <2> QED
    BY <1>1, <2>1, <2>2, <2>3 DEF ClearInv, InkInv, ClearOrder, BackInv
<1> QED
  BY <1>3, <1>4, <1>5, <1>6, <1>7, <1>8, <1>9, <1>10, <1>11 DEF Main

LEMMA ClearInvHolds == Spec => []ClearInv
<1>1. ClearInv /\ UNCHANGED vars => ClearInv'
  BY DEF ClearInv, InkInv, ClearOrder, BackInv, Backed, InQueue, Base, Stacked,
         StrokeInFlight, ThumbInFlight, vars, ring, lifo, locals, panel, marks
<1>2. IInv /\ ClearInv /\ [Next]_vars => ClearInv'
  BY <1>1, ClearInvIsr, ClearInvMain DEF Next
<1> QED
  BY ClearInvInit, IInvHolds, <1>2, PTL DEF Spec

\* What inference works on is what the thumbnail showed when RUN was read.
FrameIsThumb == pc = "inference" => frame = thumb

LEMMA FrameIsThumbHolds == Spec => []FrameIsThumb
<1>1. Init => FrameIsThumb
  BY DEF Init, FrameIsThumb
<1>2. ASSUME FrameIsThumb, [Next]_vars PROVE FrameIsThumb'
  <2>1. CASE touch_isr \/ UNCHANGED vars
    BY <1>2, <2>1 DEF touch_isr, fifo_push, stack_push, FrameIsThumb, vars, locals, panel
  <2>2. CASE Snapshot
    BY <2>2 DEF Snapshot, FrameIsThumb, panel
  <2>3. CASE PollButton
    BY <2>3 DEF PollButton, FrameIsThumb
  <2>4. CASE OLED_Clear \/ stack_clear \/ ClearHead \/ ClearTail
    BY <2>4 DEF OLED_Clear, stack_clear, ClearHead, ClearTail, FrameIsThumb
  <2>5. CASE Inference \/ FifoTest \/ FifoFetch \/ FifoAdvance \/ DrawStroke
    BY <2>5 DEF Inference, FifoTest, FifoFetch, FifoAdvance, DrawStroke, FrameIsThumb
  <2>6. CASE StackTest \/ StackLoad \/ StackFetch \/ StackStore \/ DrawThumb
    BY <2>6 DEF StackTest, StackLoad, StackFetch, StackStore, DrawThumb, FrameIsThumb
  <2> QED
    BY <1>2, <2>1, <2>2, <2>3, <2>4, <2>5, <2>6 DEF Next, Main
<1> QED
  BY <1>1, <1>2, PTL DEF Spec

\* For every size of the buffers: nothing touched before the panel was wiped comes
\* back, from either buffer, although touches go on while they are emptied.
THEOREM ClearIsFinal == Spec => []NoStaleInk
<1>1. IInv /\ ClearInv /\ FrameIsThumb => NoStaleInk
  <2> SUFFICES ASSUME IInv, ClearInv, FrameIsThumb PROVE NoStaleInk
    OBVIOUS
  <2>1. TypeOK /\ InkInv
    BY DEF IInv, TypeInv, ClearInv
  <2>2. ~Clearing => \A p \in Queued \cup Stacked : p > oled_mark
    BY <2>1, QueuedSlots DEF InkInv, Clearing, Stacked
  <2>3. \A p \in stroke \cup thumb \cup StrokeInFlight \cup ThumbInFlight : p > oled_mark
    BY <2>1 DEF InkInv
  <2>4. pc = "inference" => \A p \in frame : p > oled_mark
    BY <2>3 DEF FrameIsThumb
  <2> QED
    BY <2>2, <2>3, <2>4 DEF NoStaleInk
<1> QED
  BY <1>1, IInvHolds, ClearInvHolds, FrameIsThumbHolds, PTL

\* For every size of the buffers: what is recognised is, or will be, visible.
THEOREM ThumbnailIsVisible == Spec => []ThumbnailBackedByStroke
<1>1. IInv /\ ClearInv => ThumbnailBackedByStroke
  <2> SUFFICES ASSUME IInv, ClearInv, ~Clearing, NEW p \in thumb \cup Stacked \cup ThumbInFlight
               PROVE  \/ p \in stroke \cup Queued \cup StrokeInFlight
                      \/ p \in fifo_dropped
                      \/ p <= fifo_mark
    BY DEF ThumbnailBackedByStroke
  <2>1. TypeOK /\ Backed(p)
    BY DEF IInv, TypeInv, ClearInv, BackInv, Clearing
  <2> QED
    BY <2>1, QueuedSlots DEF Backed
<1> QED
  BY <1>1, IInvHolds, ClearInvHolds, PTL

-----------------------------------------------------------------------------
(* The ring as a queue.  Ring(f, b, h) is the sequence held by the slots from *)
(* b up to h; the lemmas say what a push at h and a pop at b do to it.        *)

Distance(b, h) == (h - b + FIFO_SIZE) % FIFO_SIZE
SlotAt(b, i) == (b + i - 1) % FIFO_SIZE
Ring(f, b, h) == [i \in 1 .. Distance(b, h) |-> f[SlotAt(b, i)]]

LEMMA DistanceFacts ==
    ASSUME NEW b \in Slots, NEW h \in Slots
    PROVE  /\ Distance(b, h) = IF b <= h THEN h - b ELSE h - b + FIFO_SIZE
           /\ Distance(b, h) \in 0 .. FIFO_SIZE - 1
<1>1. h - b + FIFO_SIZE \in 0 .. 2 * FIFO_SIZE - 1
  BY SizesAssumption DEF Slots
<1> QED
  BY <1>1, Wrap, SizesAssumption DEF Distance, Slots

LEMMA SlotAtFacts ==
    ASSUME NEW b \in Slots, NEW i \in 1 .. FIFO_SIZE
    PROVE  /\ SlotAt(b, i) = IF b + i - 1 < FIFO_SIZE THEN b + i - 1 ELSE b + i - 1 - FIFO_SIZE
           /\ SlotAt(b, i) \in Slots
<1>1. b + i - 1 \in 0 .. 2 * FIFO_SIZE - 1
  BY SizesAssumption DEF Slots
<1> QED
  BY <1>1, Wrap, SizesAssumption DEF SlotAt, Slots

LEMMA RingIsSeq ==
    ASSUME NEW f \in [Slots -> Points], NEW b \in Slots, NEW h \in Slots
    PROVE  /\ Ring(f, b, h) \in Seq(Points)
           /\ Len(Ring(f, b, h)) = Distance(b, h)
           /\ \A i \in 1 .. Distance(b, h) : Ring(f, b, h)[i] = f[SlotAt(b, i)]
<1>1. PICK n \in Nat : n = Distance(b, h) /\ n <= FIFO_SIZE
  BY DistanceFacts, SizesAssumption
<1>2. \A i \in 1 .. n : i \in 1 .. FIFO_SIZE
  BY <1>1, SizesAssumption
<1>3. \A i \in 1 .. n : f[SlotAt(b, i)] \in Points
  BY <1>2, SlotAtFacts
<1>4. PICK r : r = [i \in 1 .. n |-> f[SlotAt(b, i)]]
  OBVIOUS
<1>5. r \in [1 .. n -> Points] /\ \A i \in 1 .. n : r[i] = f[SlotAt(b, i)]
  BY <1>3, <1>4
<1>6. r \in Seq(Points) /\ Len(r) = n
  BY <1>1, <1>5
<1>7. Ring(f, b, h) = r
  BY <1>1, <1>4 DEF Ring
<1> QED
  BY <1>1, <1>5, <1>6, <1>7

\* Only an equal head and base leave the ring empty, and it is full when one
\* more push would make them equal.
LEMMA RingBounds ==
    ASSUME NEW f \in [Slots -> Points], NEW b \in Slots, NEW h \in Slots
    PROVE  /\ h = b => Ring(f, b, h) = <<>>
           /\ h # b => Ring(f, b, h) # <<>>
           /\ Succ(h) = b => Len(Ring(f, b, h)) = FIFO_SIZE - 1
           /\ Succ(h) # b => Len(Ring(f, b, h)) < FIFO_SIZE - 1
<1>1. PICK n \in Nat : n = Distance(b, h) /\ n = IF b <= h THEN h - b ELSE h - b + FIFO_SIZE
  BY DistanceFacts, SizesAssumption
<1>2. Len(Ring(f, b, h)) = n /\ Ring(f, b, h) \in Seq(Points)
  BY <1>1, RingIsSeq
<1>3. Succ(h) = IF h = FIFO_SIZE - 1 THEN 0 ELSE h + 1
  BY SuccFacts
<1>4. b \in Int /\ h \in Int /\ 0 <= b /\ 0 <= h /\ b < FIFO_SIZE /\ h < FIFO_SIZE
  BY SizesAssumption DEF Slots
<1>5. (h = b) <=> (n = 0)
  BY <1>1, <1>4, SizesAssumption
<1>6. /\ Succ(h) = b => n = FIFO_SIZE - 1
      /\ Succ(h) # b => n < FIFO_SIZE - 1
  BY <1>1, <1>3, <1>4, SizesAssumption
<1>7. n = 0 <=> Ring(f, b, h) = <<>>
  BY <1>2, EmptySeq, Zenon
<1> QED
  BY <1>2, <1>5, <1>6, <1>7

LEMMA RingPush ==
    ASSUME NEW f \in [Slots -> Points], NEW b \in Slots, NEW h \in Slots,
           NEW p \in Points, Succ(h) # b
    PROVE  Ring([f EXCEPT ![h] = p], b, Succ(h)) = Append(Ring(f, b, h), p)
<1>1. PICK n \in Nat : n = Distance(b, h) /\ n = IF b <= h THEN h - b ELSE h - b + FIFO_SIZE
  BY DistanceFacts, SizesAssumption
<1>2. /\ b \in Int /\ h \in Int /\ 0 <= b /\ 0 <= h /\ b < FIFO_SIZE /\ h < FIFO_SIZE
      /\ FIFO_SIZE \in Nat
  BY SizesAssumption DEF Slots
<1>3. Succ(h) \in Slots /\ Succ(h) = IF h = FIFO_SIZE - 1 THEN 0 ELSE h + 1
  BY SuccFacts
<1>4. Distance(b, Succ(h)) = n + 1 /\ n + 1 <= FIFO_SIZE
  <2>1. PICK s \in Slots : s = Succ(h)
    BY <1>3
  <2>2. Distance(b, s) = IF b <= s THEN s - b ELSE s - b + FIFO_SIZE
    BY DistanceFacts
  <2> QED
    BY <1>1, <1>2, <1>3, <2>1, <2>2
<1>5. SlotAt(b, n + 1) = h
  <2>1. n + 1 \in 1 .. FIFO_SIZE
    BY <1>1, <1>4
  <2>2. SlotAt(b, n + 1) = IF b + (n + 1) - 1 < FIFO_SIZE THEN b + (n + 1) - 1
                                                        ELSE b + (n + 1) - 1 - FIFO_SIZE
    BY <2>1, SlotAtFacts
  <2> QED
    BY <1>1, <1>2, <2>2
<1>6. ASSUME NEW i \in 1 .. n PROVE SlotAt(b, i) # h /\ SlotAt(b, i) \in Slots
  <2>1. i \in 1 .. FIFO_SIZE /\ i \in Int
    BY <1>1, <1>2, <1>4
  <2>2. /\ SlotAt(b, i) = IF b + i - 1 < FIFO_SIZE THEN b + i - 1 ELSE b + i - 1 - FIFO_SIZE
        /\ SlotAt(b, i) \in Slots
    BY <2>1, SlotAtFacts
  <2> QED
    BY <1>1, <1>2, <2>1, <2>2
<1>7. PICK g \in [Slots -> Points] : g = [f EXCEPT ![h] = p]
  OBVIOUS
<1>8. g[h] = p /\ \A j \in Slots : j # h => g[j] = f[j]
  BY <1>7
<1> DEFINE r == Ring(f, b, h)
           s == Ring(g, b, Succ(h))
<1>9. r \in Seq(Points) /\ Len(r) = n /\ \A i \in 1 .. n : r[i] = f[SlotAt(b, i)]
  <2>1. /\ r \in Seq(Points)
        /\ Len(r) = Distance(b, h)
        /\ \A i \in 1 .. Distance(b, h) : r[i] = f[SlotAt(b, i)]
    BY RingIsSeq
  <2> HIDE DEF r
  <2> QED
    BY <1>1, <2>1
<1>10. s \in Seq(Points) /\ Len(s) = n + 1 /\ \A i \in 1 .. n + 1 : s[i] = g[SlotAt(b, i)]
  <2>1. /\ s \in Seq(Points)
        /\ Len(s) = Distance(b, Succ(h))
        /\ \A i \in 1 .. Distance(b, Succ(h)) : s[i] = g[SlotAt(b, i)]
    BY <1>3, RingIsSeq
  <2> HIDE DEF s
  <2> QED
    BY <1>4, <2>1
<1> HIDE DEF r, s
<1>11. /\ Append(r, p) \in Seq(Points) /\ Len(Append(r, p)) = n + 1
       /\ \A i \in 1 .. n : Append(r, p)[i] = r[i]
       /\ Append(r, p)[n + 1] = p
  BY <1>9, AppendProperties
<1>12. \A i \in 1 .. n + 1 : s[i] = Append(r, p)[i]
  <2> TAKE i \in 1 .. n + 1
  <2>1. CASE i = n + 1
    BY <1>5, <1>8, <1>10, <1>11, <2>1
  <2>2. CASE i # n + 1
    <3>1. i \in 1 .. n
      BY <2>2
    <3> QED
      BY <1>6, <1>8, <1>9, <1>10, <1>11, <3>1
  <2> QED
    BY <2>1, <2>2
<1>13. s = Append(r, p)
  BY <1>10, <1>11, <1>12, SeqEqual
<1> QED
  BY <1>7, <1>13 DEF r, s

LEMMA RingPop ==
    ASSUME NEW f \in [Slots -> Points], NEW b \in Slots, NEW h \in Slots, h # b
    PROVE  /\ Head(Ring(f, b, h)) = f[b]
           /\ Tail(Ring(f, b, h)) = Ring(f, Succ(b), h)
<1>1. PICK n \in Nat : n = Distance(b, h) /\ n = IF b <= h THEN h - b ELSE h - b + FIFO_SIZE
  BY DistanceFacts, SizesAssumption
<1>2. /\ b \in Int /\ h \in Int /\ 0 <= b /\ 0 <= h /\ b < FIFO_SIZE /\ h < FIFO_SIZE
      /\ FIFO_SIZE \in Nat
  BY SizesAssumption DEF Slots
<1>3. PICK c \in Slots : c = Succ(b) /\ c = IF b = FIFO_SIZE - 1 THEN 0 ELSE b + 1
  BY SuccFacts
<1>4. n >= 1 /\ n <= FIFO_SIZE
  BY <1>1, <1>2
<1>5. Distance(c, h) = n - 1
  <2>1. Distance(c, h) = IF c <= h THEN h - c ELSE h - c + FIFO_SIZE
    BY DistanceFacts
  <2> QED
    BY <1>1, <1>2, <1>3, <2>1
<1>6. SlotAt(b, 1) = b
  <2>1. SlotAt(b, 1) = IF b + 1 - 1 < FIFO_SIZE THEN b + 1 - 1 ELSE b + 1 - 1 - FIFO_SIZE
    BY <1>2, <1>4, SlotAtFacts
  <2> QED
    BY <1>2, <2>1
<1>7. ASSUME NEW i \in 1 .. n - 1 PROVE SlotAt(c, i) = SlotAt(b, i + 1)
  <2>1. i \in 1 .. FIFO_SIZE /\ i + 1 \in 1 .. FIFO_SIZE /\ i \in Int
    BY <1>2, <1>4
  <2>2. PICK j \in 1 .. FIFO_SIZE : j = i + 1
    BY <2>1
  <2>3. SlotAt(c, i) = IF c + i - 1 < FIFO_SIZE THEN c + i - 1 ELSE c + i - 1 - FIFO_SIZE
    BY <2>1, SlotAtFacts
  <2>4. SlotAt(b, j) = IF b + j - 1 < FIFO_SIZE THEN b + j - 1 ELSE b + j - 1 - FIFO_SIZE
    BY SlotAtFacts
  <2>5. SlotAt(c, i) = SlotAt(b, j)
    BY <1>2, <1>3, <1>4, <2>1, <2>2, <2>3, <2>4
  <2> QED
    BY <2>2, <2>5
<1> DEFINE r == Ring(f, b, h)
           s == Ring(f, c, h)
<1>8. r \in Seq(Points) /\ Len(r) = n /\ \A i \in 1 .. n : r[i] = f[SlotAt(b, i)]
  <2>1. /\ r \in Seq(Points)
        /\ Len(r) = Distance(b, h)
        /\ \A i \in 1 .. Distance(b, h) : r[i] = f[SlotAt(b, i)]
    BY RingIsSeq
  <2> HIDE DEF r
  <2> QED
    BY <1>1, <2>1
<1>9. s \in Seq(Points) /\ Len(s) = n - 1 /\ \A i \in 1 .. n - 1 : s[i] = f[SlotAt(c, i)]
  <2>1. /\ s \in Seq(Points)
        /\ Len(s) = Distance(c, h)
        /\ \A i \in 1 .. Distance(c, h) : s[i] = f[SlotAt(c, i)]
    BY RingIsSeq
  <2> HIDE DEF s
  <2> QED
    BY <1>5, <2>1
<1> HIDE DEF r, s
<1>10. r # <<>>
  BY <1>4, <1>8, EmptySeq
<1>11. /\ Tail(r) \in Seq(Points) /\ Len(Tail(r)) = n - 1
       /\ \A i \in 1 .. n - 1 : Tail(r)[i] = r[i + 1]
  BY <1>8, <1>10, HeadTailProperties
<1>12. \A i \in 1 .. n - 1 : Tail(r)[i] = s[i]
  <2> TAKE i \in 1 .. n - 1
  <2>1. i + 1 \in 1 .. n
    BY <1>4
  <2> QED
    BY <1>7, <1>8, <1>9, <1>11, <2>1
<1>13. Tail(r) = s
  BY <1>9, <1>11, <1>12, SeqEqual
<1>14. Head(r) = f[b]
  <2>1. Head(r) = r[1]
    BY <1>8, <1>10
  <2> QED
    BY <1>4, <1>6, <1>8, <2>1
<1> QED
  BY <1>3, <1>13, <1>14 DEF r, s

LEMMA QueueIsRing ==
    /\ QueueContent = Ring(fifo, Base, fifo_head)
    /\ QueueContent' = Ring(fifo', Base', fifo_head')
BY DEF QueueContent, QueueLength, Ring, Distance, SlotAt

\* The interrupt offers a touch: it is queued, or dropped for a stated reason.
\* Between the two stores of fifo_clear the test for a full ring compares with
\* the old tail, which ClearOrder keeps out of the new queue's way.
LEMMA OfferStep == ASSUME IInv, ClearInv, touch_isr PROVE Queue!Accept \/ Queue!Drop
<1>1. /\ fifo \in [Slots -> Points] /\ fifo_head \in Slots /\ fifo_tail \in Slots
      /\ touches + 1 \in Points /\ FIFO_SIZE \in Nat
  BY SizesAssumption DEF IInv, TypeInv, TypeOK, touch_isr, Points
<1>2. Base \in Slots /\ Base' = Base
  BY <1>1, SizesAssumption DEF Base, Slots, touch_isr
<1>3. /\ touches < MaxTouches /\ touches' = touches + 1
      /\ UNCHANGED <<stroke_point, pc, fifo_tail>>
  BY DEF touch_isr, locals
<1>4. CASE ~is_fifo_full
  <2>1. fifo' = [fifo EXCEPT ![fifo_head] = touches + 1] /\ fifo_head' = Succ(fifo_head)
    BY <1>4 DEF touch_isr, fifo_push
  <2>2. Succ(fifo_head) # Base
    <3>1. /\ Succ(fifo_head) # fifo_tail
          /\ Succ(fifo_head) = IF fifo_head = FIFO_SIZE - 1 THEN 0 ELSE fifo_head + 1
      BY <1>1, <1>4, SuccFacts DEF is_fifo_full
    <3> QED
      BY <1>1, <3>1 DEF ClearInv, ClearOrder, Base, Slots
  <2>3. QueueContent' = Append(QueueContent, touches + 1)
    BY <1>1, <1>2, <2>1, <2>2, RingPush, QueueIsRing
  <2>4. Len(QueueContent) < FIFO_SIZE - 1
    BY <1>1, <1>2, <2>2, RingBounds, QueueIsRing
  <2> QED
    BY <1>3, <2>3, <2>4 DEF Queue!Accept
<1>5. CASE is_fifo_full
  <2>1. UNCHANGED <<fifo, fifo_head>>
    BY <1>5 DEF touch_isr, fifo_push
  <2>2. QueueContent' = QueueContent
    BY <1>2, <2>1, QueueIsRing
  <2>3. pc # "clear_tail" => Len(QueueContent) = FIFO_SIZE - 1
    BY <1>1, <1>2, <1>5, RingBounds, QueueIsRing DEF is_fifo_full, Base
  <2> QED
    BY <1>3, <2>2, <2>3 DEF Queue!Drop
<1> QED
  BY <1>4, <1>5

\* The main loop takes, flushes, or leaves the queue alone.
LEMMA ConsumerStep == ASSUME IInv, ClearInv, Main PROVE [Queue!Next]_(Queue!queueVars)
<1> USE DEF ring, lifo, locals, panel, marks
<1>1. fifo \in [Slots -> Points] /\ fifo_head \in Slots /\ fifo_tail \in Slots
  BY DEF IInv, TypeInv, TypeOK
<1>2. CASE PollButton \/ OLED_Clear \/ stack_clear \/ Snapshot \/ Inference \/ FifoTest
           \/ FifoFetch \/ DrawStroke \/ StackTest \/ StackLoad \/ StackFetch \/ StackStore
           \/ DrawThumb
  <2>1. /\ UNCHANGED <<fifo, fifo_head, fifo_tail, stroke_point, touches>>
        /\ pc # "clear_tail" /\ pc' # "clear_tail"
    BY <1>2 DEF PollButton, OLED_Clear, stack_clear, Snapshot, Inference, FifoTest, FifoFetch,
                DrawStroke, StackTest, StackLoad, StackFetch, StackStore, DrawThumb
  <2>2. Base' = Base
    BY <2>1 DEF Base
  <2>3. QueueContent' = QueueContent
    BY <2>1, <2>2, QueueIsRing
  <2> QED
    BY <2>1, <2>3 DEF Queue!queueVars
<1>3. CASE ClearHead
  <2>1. /\ pc = "clear_head" /\ pc' = "clear_tail" /\ fifo_head' = 0
        /\ UNCHANGED <<fifo, stroke_point, touches>>
    BY <1>3 DEF ClearHead
  <2>2. 0 \in Slots /\ Base' = 0
    BY <2>1, SizesAssumption DEF Base, Slots
  <2>3. Ring(fifo, 0, 0) = <<>>
    BY <1>1, <2>2, RingBounds
  <2>4. QueueContent' = <<>>
    BY <2>1, <2>2, <2>3, QueueIsRing
  <2> QED
    BY <2>1, <2>4 DEF Queue!FlushBegin, Queue!Next
<1>4. CASE ClearTail
  <2>1. /\ pc = "clear_tail" /\ pc' = "fifo_test" /\ fifo_tail' = 0
        /\ UNCHANGED <<fifo, fifo_head, stroke_point, touches>>
    BY <1>4 DEF ClearTail
  <2>2. Base' = Base
    BY <2>1 DEF Base
  <2>3. QueueContent' = QueueContent
    BY <2>1, <2>2, QueueIsRing
  <2> QED
    BY <2>1, <2>3 DEF Queue!FlushEnd, Queue!Next
<1>5. CASE FifoAdvance
  <2>1. /\ pc = "fifo_advance" /\ pc' = "draw_stroke" /\ fifo_tail' = Succ(fifo_tail)
        /\ stroke_point' = fifo[fifo_tail] /\ fifo_head # fifo_tail
        /\ UNCHANGED <<fifo, fifo_head, touches>>
    BY <1>5 DEF FifoAdvance, IInv, TypeInv, PopGuard, CopyIsSlot
  <2>2. Base = fifo_tail /\ Base' = Succ(fifo_tail)
    BY <2>1 DEF Base
  <2>3. /\ stroke_point' = Head(QueueContent)
        /\ QueueContent' = Tail(QueueContent)
    BY <1>1, <2>1, <2>2, RingPop, QueueIsRing
  <2>4. QueueContent # <<>>
    BY <1>1, <2>1, <2>2, RingBounds, QueueIsRing
  <2> QED
    BY <2>1, <2>3, <2>4 DEF Queue!Take, Queue!Next
<1> QED
  BY <1>2, <1>3, <1>4, <1>5 DEF Main

\* For every size of the ring: it is the bounded queue of TouchQueue, its pushes,
\* pops and two-store clear (hello_world.c:86-109) interleaved in any way.
THEOREM RingImplementsQueue == Spec => RingIsQueue
<1>1. Init => Queue!Init
  <2> SUFFICES ASSUME Init PROVE Queue!Init
    OBVIOUS
  <2>1. fifo \in [Slots -> Points] /\ 0 \in Slots /\ fifo_head = 0 /\ Base = 0
    BY SizesAssumption DEF Init, Base, Slots, Points
  <2>2. QueueContent = <<>>
    BY <2>1, RingBounds, QueueIsRing
  <2> QED
    BY <2>2 DEF Init, Queue!Init
<1>2. IInv /\ ClearInv /\ [Next]_vars => [Queue!Next]_(Queue!queueVars)
  <2> SUFFICES ASSUME IInv, ClearInv, [Next]_vars PROVE [Queue!Next]_(Queue!queueVars)
    OBVIOUS
  <2>1. CASE touch_isr
    BY <2>1, OfferStep DEF Queue!Next
  <2>2. CASE Main
    BY <2>2, ConsumerStep
  <2>3. CASE UNCHANGED vars
    BY <2>3 DEF vars, ring, locals, QueueContent, QueueLength, Base, Queue!queueVars
  <2> QED
    BY <2>1, <2>2, <2>3 DEF Next
<1> QED
  BY <1>1, <1>2, IInvHolds, ClearInvHolds, PTL DEF Spec, RingIsQueue, Queue!Spec
=============================================================================
