--------------------------- MODULE TouchBuffers ---------------------------
(***************************************************************************)
(* The two buffers of hello_world.c that carry touch points from the touch *)
(* interrupt to the main loop: a ring FIFO, whose points become strokes on *)
(* the panel, and a stack, whose points become the 28x28 thumbnail that is *)
(* recognised.                                                             *)
(*                                                                         *)
(* Two actors share them without a lock.  touch_isr runs with interrupts   *)
(* disabled, so it is one step, and it may run between any two memory      *)
(* accesses of the main loop, which are steps of their own (pc).  The      *)
(* split follows the -O0 code of the build: fifo_pop copies the slot and   *)
(* then stores fifo_tail; stack_pop loads stack_top, copies the slot and   *)
(* then stores the loaded value minus one; fifo_clear is two stores.       *)
(*                                                                         *)
(* A touch point is the number of the touch it came from; 0 is the         *)
(* zero-initialised {0, 0}.  Panel memory is the set of points painted     *)
(* into it by either painter; the geometry is module TouchGeometry's.      *)
(***************************************************************************)
EXTENDS Integers, Sequences

CONSTANTS
    FIFO_SIZE,    \* slots of the ring
    STACK_SIZE,   \* slots of the stack
    MaxTouches    \* bound: touch interrupts in one behaviour

ASSUME SizesAssumption ==
    /\ FIFO_SIZE \in Nat /\ FIFO_SIZE > 1
    /\ STACK_SIZE \in Nat /\ STACK_SIZE > 0
    /\ MaxTouches \in Nat

VARIABLES
    \* globals shared with the interrupt
    fifo, fifo_head, fifo_tail,
    stack, stack_top,
    \* the main loop
    pc,             \* the next access of the main loop
    fetched,        \* the callee's copy of the slot being popped
    top,            \* the register stack_pop holds stack_top in
    stroke_point,   \* the point the FIFO branch draws
    thumb_point,    \* the point the stack branch draws
    frame,          \* normalized_frame: the thumbnail points snapshotted
    \* LTMDisp
    stroke,         \* points painted as 10x10 strokes
    thumb,          \* points painted as 3x3 thumbnail squares
    \* history, read by no action
    touches,        \* touch interrupts taken
    fifo_dropped,   \* points that met a full FIFO
    stack_dropped,  \* points that met a full stack
    oled_mark,      \* value of touches at the last OLED_Clear,
    stack_mark,     \*   at the last stack_clear
    fifo_mark       \*   and at the last fifo_clear

ring == <<fifo, fifo_head, fifo_tail, fifo_dropped>>
lifo == <<stack, stack_top, stack_dropped>>
locals == <<fetched, top, stroke_point, thumb_point, frame>>
panel == <<stroke, thumb>>
marks == <<oled_mark, stack_mark, fifo_mark>>
vars == <<ring, lifo, pc, locals, panel, touches, marks>>

-----------------------------------------------------------------------------
(* The buffer operations. *)

Slots == 0 .. FIFO_SIZE - 1
Cells == 0 .. STACK_SIZE - 1
Points == 0 .. MaxTouches

Succ(i) == (i + 1) % FIFO_SIZE

\* Mistakes in the tests (used by the mutation runs only): the ring is allowed
\* to fill all its slots; an empty stack is taken for one point, and one point
\* for an empty stack.
never_full == FALSE
empty_one_late == stack_top < -1
empty_one_early == stack_top <= 0

is_fifo_full == Succ(fifo_head) = fifo_tail
is_fifo_empty == fifo_head = fifo_tail
is_stack_full == stack_top >= STACK_SIZE - 1
is_stack_empty == stack_top < 0

fifo_push(p) ==
    \/ /\ ~is_fifo_full
       /\ fifo' = [fifo EXCEPT ![fifo_head] = p]
       /\ fifo_head' = Succ(fifo_head)
       /\ UNCHANGED fifo_dropped
    \/ /\ is_fifo_full
       /\ fifo_dropped' = fifo_dropped \cup {p}
       /\ UNCHANGED <<fifo, fifo_head>>

stack_push(p) ==
    \/ /\ ~is_stack_full
       /\ stack' = [stack EXCEPT ![stack_top + 1] = p]
       /\ stack_top' = stack_top + 1
       /\ UNCHANGED stack_dropped
    \/ /\ is_stack_full
       /\ stack_dropped' = stack_dropped \cup {p}
       /\ UNCHANGED <<stack, stack_top>>

-----------------------------------------------------------------------------
(* The interrupt: one step, whatever the main loop is about to do. *)

touch_isr ==
    /\ touches < MaxTouches
    /\ touches' = touches + 1
    /\ fifo_push(touches + 1)
    /\ stack_push(touches + 1)
    /\ UNCHANGED <<fifo_tail, pc, locals, panel, marks>>

-----------------------------------------------------------------------------
(* The main loop.  The button word is read at the top of every iteration;  *)
(* which of the three cases it selects is module Buttons' matter.          *)

PollButton ==
    /\ pc = "poll"
    /\ pc' \in {"oled_clear", "snapshot", "fifo_test"}
    /\ UNCHANGED <<ring, lifo, locals, panel, touches, marks>>

OLED_Clear ==
    /\ pc = "oled_clear"
    /\ stroke' = {} /\ thumb' = {}
    /\ oled_mark' = touches
    /\ pc' = "stack_clear"
    /\ UNCHANGED <<ring, lifo, locals, touches, stack_mark, fifo_mark>>

\* Mistake: CLEAR forgets the stack.
stack_not_cleared ==
    /\ pc = "stack_clear"
    /\ stack_mark' = touches
    /\ pc' = "clear_head"
    /\ UNCHANGED <<ring, lifo, locals, panel, touches, oled_mark, fifo_mark>>

stack_clear ==
    /\ pc = "stack_clear"
    /\ stack_top' = -1
    /\ stack_mark' = touches
    /\ pc' = "clear_head"
    /\ UNCHANGED <<ring, stack, stack_dropped, locals, panel, touches,
                   oled_mark, fifo_mark>>

\* fifo_clear, first store.
ClearHead ==
    /\ pc = "clear_head"
    /\ fifo_head' = 0
    /\ fifo_mark' = touches
    /\ pc' = "clear_tail"
    /\ UNCHANGED <<fifo, fifo_tail, fifo_dropped, lifo, locals, panel, touches,
                   oled_mark, stack_mark>>

\* fifo_clear, second store.
ClearTail ==
    /\ pc = "clear_tail"
    /\ fifo_tail' = 0
    /\ pc' = "fifo_test"
    /\ UNCHANGED <<fifo, fifo_head, fifo_dropped, lifo, locals, panel, touches,
                   marks>>

\* RECOGNISE copies the thumbnail out of the panel ...
Snapshot ==
    /\ pc = "snapshot"
    /\ frame' = thumb
    /\ pc' = "inference"
    /\ UNCHANGED <<ring, lifo, fetched, top, stroke_point, thumb_point, panel,
                   touches, marks>>

\* ... and runs the network on the copy, for as long as that takes.
Inference ==
    /\ pc = "inference"
    /\ pc' = "fifo_test"
    /\ UNCHANGED <<ring, lifo, locals, panel, touches, marks>>

\* Mistake: the test is taken the wrong way round.
FifoTestInverted ==
    /\ pc = "fifo_test"
    /\ pc' = IF is_fifo_empty THEN "fifo_fetch" ELSE "stack_test"
    /\ UNCHANGED <<ring, lifo, locals, panel, touches, marks>>

FifoTest ==
    /\ pc = "fifo_test"
    /\ pc' = IF is_fifo_empty THEN "stack_test" ELSE "fifo_fetch"
    /\ UNCHANGED <<ring, lifo, locals, panel, touches, marks>>

\* fifo_pop: copy the slot ...
FifoFetch ==
    /\ pc = "fifo_fetch"
    /\ fetched' = fifo[fifo_tail]
    /\ pc' = "fifo_advance"
    /\ UNCHANGED <<ring, lifo, top, stroke_point, thumb_point, frame, panel,
                   touches, marks>>

\* Mistake: the pop drops the points queued behind the one it returns.
FifoAdvanceToHead ==
    /\ pc = "fifo_advance"
    /\ fifo_tail' = fifo_head
    /\ stroke_point' = fetched
    /\ pc' = "draw_stroke"
    /\ UNCHANGED <<fifo, fifo_head, fifo_dropped, lifo, fetched, top,
                   thumb_point, frame, panel, touches, marks>>

\* ... then give it back to the producer and return the copy.
FifoAdvance ==
    /\ pc = "fifo_advance"
    /\ fifo_tail' = Succ(fifo_tail)
    /\ stroke_point' = fetched
    /\ pc' = "draw_stroke"
    /\ UNCHANGED <<fifo, fifo_head, fifo_dropped, lifo, fetched, top,
                   thumb_point, frame, panel, touches, marks>>

DrawStroke ==
    /\ pc = "draw_stroke"
    /\ stroke' = stroke \cup {stroke_point}
    /\ pc' = "stack_test"
    /\ UNCHANGED <<ring, lifo, locals, thumb, touches, marks>>

StackTest ==
    /\ pc = "stack_test"
    /\ pc' = IF is_stack_empty THEN "poll" ELSE "stack_load"
    /\ UNCHANGED <<ring, lifo, locals, panel, touches, marks>>

\* stack_pop: load stack_top into a register ...
StackLoad ==
    /\ pc = "stack_load"
    /\ top' = stack_top
    /\ pc' = "stack_fetch"
    /\ UNCHANGED <<ring, lifo, fetched, stroke_point, thumb_point, frame,
                   panel, touches, marks>>

\* ... copy the slot it names ...
StackFetch ==
    /\ pc = "stack_fetch"
    /\ fetched' = stack[top]
    /\ pc' = "stack_store"
    /\ UNCHANGED <<ring, lifo, top, stroke_point, thumb_point, frame, panel,
                   touches, marks>>

\* Mistake: the decrement is forgotten.
StackStoreSame ==
    /\ pc = "stack_store"
    /\ stack_top' = top
    /\ thumb_point' = fetched
    /\ pc' = "draw_thumb"
    /\ UNCHANGED <<ring, stack, stack_dropped, fetched, top, stroke_point,
                   frame, panel, touches, marks>>

\* ... and store the register minus one, whatever stack_top is by now.
StackStore ==
    /\ pc = "stack_store"
    /\ stack_top' = top - 1
    /\ thumb_point' = fetched
    /\ pc' = "draw_thumb"
    /\ UNCHANGED <<ring, stack, stack_dropped, fetched, top, stroke_point,
                   frame, panel, touches, marks>>

DrawThumb ==
    /\ pc = "draw_thumb"
    /\ thumb' = thumb \cup {thumb_point}
    /\ pc' = "poll"
    /\ UNCHANGED <<ring, lifo, locals, stroke, touches, marks>>

Main ==
    \/ PollButton
    \/ OLED_Clear \/ stack_clear \/ ClearHead \/ ClearTail
    \/ Snapshot \/ Inference
    \/ FifoTest \/ FifoFetch \/ FifoAdvance \/ DrawStroke
    \/ StackTest \/ StackLoad \/ StackFetch \/ StackStore \/ DrawThumb

-----------------------------------------------------------------------------

Init ==
    /\ fifo = [i \in Slots |-> 0] /\ fifo_head = 0 /\ fifo_tail = 0
    /\ stack = [i \in Cells |-> 0] /\ stack_top = -1
    /\ pc = "poll"
    /\ fetched = 0 /\ top = -1 /\ stroke_point = 0 /\ thumb_point = 0
    /\ frame = {} /\ stroke = {} /\ thumb = {}
    /\ touches = 0 /\ fifo_dropped = {} /\ stack_dropped = {}
    /\ oled_mark = 0 /\ stack_mark = 0 /\ fifo_mark = 0

Next == touch_isr \/ Main

Spec == Init /\ [][Next]_vars

\* The processor keeps executing the loop; nobody has to touch the panel.
FairSpec == Spec /\ WF_vars(Main)

-----------------------------------------------------------------------------
(* The contents of the buffers. *)

\* Where the queued points start: while fifo_clear is between its two stores
\* the new queue already starts at 0, whatever fifo_tail still says.
Base == IF pc = "clear_tail" THEN 0 ELSE fifo_tail

QueueLength == (fifo_head - Base + FIFO_SIZE) % FIFO_SIZE

QueueContent == [i \in 1 .. QueueLength |-> fifo[(Base + i - 1) % FIFO_SIZE]]

Queued == {QueueContent[i] : i \in 1 .. QueueLength}
Stacked == {stack[i] : i \in 0 .. stack_top}

\* A point copied out of a buffer and not painted yet.  Between the fetch and
\* the store of a pop the point is still in its buffer.
StrokeInFlight == IF pc = "draw_stroke" THEN {stroke_point} ELSE {}
ThumbInFlight == IF pc = "draw_thumb" THEN {thumb_point} ELSE {}

\* CLEAR has wiped the panel and not yet emptied both buffers.
Clearing == pc \in {"stack_clear", "clear_head", "clear_tail"}

-----------------------------------------------------------------------------
(* The inductive invariant behind the safety properties (see the proofs). *)

\* Between the test that a buffer is not empty and the end of the pop the
\* buffer stays non-empty: the interrupt only pushes, and never over the slot
\* being popped.
PopGuard ==
    /\ pc \in {"fifo_fetch", "fifo_advance"} => fifo_head # fifo_tail
    /\ pc \in {"stack_load", "stack_fetch", "stack_store"} => stack_top \in Cells
    /\ pc \in {"stack_fetch", "stack_store"} => top \in 0 .. stack_top

\* The copy taken by a pop is the content of the slot it names.
CopyIsSlot ==
    /\ pc = "fifo_advance" => fetched = fifo[fifo_tail]
    /\ pc = "stack_store" => fetched = stack[top]

\* Points are numbered in the order they were touched, so a point pushed now
\* is newer than every point already painted or stacked.
PaintedSoFar ==
    /\ thumb \subseteq 0 .. touches
    /\ thumb_point \in 0 .. touches
    /\ \A i \in 0 .. stack_top : stack[i] \in 0 .. touches
    /\ pc \in {"stack_clear", "clear_head", "clear_tail"} => thumb = {}

-----------------------------------------------------------------------------
(* Properties. *)

Labels == {"poll", "oled_clear", "stack_clear", "clear_head", "clear_tail",
           "snapshot", "inference", "fifo_test", "fifo_fetch", "fifo_advance",
           "draw_stroke", "stack_test", "stack_load", "stack_fetch",
           "stack_store", "draw_thumb"}

\* The indices stay inside their arrays (fifo[] and stack[] are C arrays: an
\* index outside them writes other globals), whatever the interrupt does
\* between the load and the store of a pop.
TypeOK ==
    /\ fifo \in [Slots -> Points] /\ fifo_head \in Slots /\ fifo_tail \in Slots
    /\ stack \in [Cells -> Points] /\ stack_top \in Cells \cup {-1}
    /\ pc \in Labels
    /\ fetched \in Points /\ top \in Cells \cup {-1}
    /\ stroke_point \in Points /\ thumb_point \in Points
    /\ frame \subseteq Points /\ stroke \subseteq Points /\ thumb \subseteq Points
    /\ touches \in Points
    /\ fifo_dropped \subseteq Points /\ stack_dropped \subseteq Points
    /\ oled_mark \in Points /\ stack_mark \in Points /\ fifo_mark \in Points

\* The test in stack_pop and the load after it are separate accesses, and so
\* are the load and the use of the index: the loaded index still names a cell
\* when it is used, so stack[stack_top--] never reads below the array.
PopIndexInArray == pc \in {"stack_fetch", "stack_store"} => top \in Cells

\* fifo_pop copies the slot while the interrupt may be pushing: until
\* fifo_tail moves, the producer never writes the slot that is being copied,
\* so the two words of the point cannot come from two touches.
SlotStable ==
    pc = "fifo_advance" => /\ fifo_head # fifo_tail
                           /\ fetched = fifo[fifo_tail]

\* The ring, with its free slot, its wrap and its two-store clear, is the
\* bounded queue of TouchQueue: accepted points come out once each and in
\* order, and one is refused only when FIFO_SIZE - 1 are waiting or while
\* fifo_clear is between its two stores.
Queue == INSTANCE TouchQueue WITH
            Capacity <- FIFO_SIZE - 1,
            offered  <- touches,
            queue    <- QueueContent,
            out      <- stroke_point,
            flushing <- pc = "clear_tail"
RingIsQueue == Queue!Spec

\* CLEAR is final: once the branch is over no point touched before the panel
\* was wiped is on the panel, in a buffer or about to be painted, although
\* touches kept arriving while the panel and the buffers were being cleared
\* one after the other.
NoStaleInk ==
    /\ \A p \in stroke \cup thumb \cup StrokeInFlight \cup ThumbInFlight :
           p > oled_mark
    /\ ~Clearing => \A p \in Queued \cup Stacked : p > oled_mark
    /\ pc = "inference" => \A p \in frame : p > oled_mark

\* The stack loses points when a push meets a pop, but it never repeats one:
\* what is stacked is in the order it was touched and not painted yet.
StackNeverRepeats ==
    /\ \A i, j \in 0 .. stack_top : i < j => stack[i] < stack[j]
    /\ Stacked \cap (thumb \cup ThumbInFlight) = {}

\* What is recognised is what the user sees: a point of the thumbnail, or
\* waiting for it, is also on the panel or queued for it, unless the FIFO
\* refused it or it fell into the gap between the clears of the two buffers.
ThumbnailBackedByStroke ==
    ~Clearing => \A p \in thumb \cup Stacked \cup ThumbInFlight :
        \/ p \in stroke \cup Queued \cup StrokeInFlight
        \/ p \in fifo_dropped
        \/ p <= fifo_mark

\* "Process all touch points" (hello_world.c:472): every touch since the last
\* stack_clear that found room on the stack is still stacked, being painted
\* or painted into the thumbnail.
AllTouchPointsProcessed ==
    \A p \in stack_mark + 1 .. touches :
        p \notin stack_dropped => p \in thumb \cup Stacked \cup ThumbInFlight

\* A point the FIFO accepted reaches the panel, unless CLEAR is pressed first.
QueuedIsDrawn ==
    \A p \in 1 .. MaxTouches :
        (p \in Queued) ~> (p \in stroke \/ p <= oled_mark \/ p <= fifo_mark)

\* When the user stops touching the panel both buffers run empty and stay so,
\* although the loop takes one point of each per iteration and the pop writes
\* back an old index.
Drained == <>[](fifo_head = fifo_tail /\ stack_top = -1)
=============================================================================
