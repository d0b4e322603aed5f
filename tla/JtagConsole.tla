---------------------------- MODULE JtagConsole ----------------------------
(***************************************************************************)
(* Standard output: the ring of altera_avalon_jtag_uart_write.c between    *)
(* its writers and the driver's interrupt, which moves characters into the *)
(* FIFO of the JTAG UART, from which the host takes them if it listens.    *)
(*                                                                         *)
(* There are two writers.  main prints while it starts, once before it     *)
(* enables the touch interrupt and three times after, and never in its     *)
(* loop; touch_isr prints "FIFO Buffer Full!" and "Stack Full!" when a     *)
(* buffer refuses a point.  touch_isr runs with interrupts disabled: while *)
(* it is writing, neither main nor the driver's interrupt takes a step.    *)
(* There is no operating system, so the write lock is empty: during the    *)
(* start-up touch_isr may print inside a write of main.  There is no       *)
(* system clock, so host_inactive stays below the timeout and a writer     *)
(* waits for as long as it takes.  A character is the number of its        *)
(* writing.                                                                *)
(***************************************************************************)
EXTENDS Integers, Sequences, FiniteSets

CONSTANTS
    BUF_LEN,        \* slots of the ring: 2048
    HwDepth,        \* characters of the UART's own FIFO: 64
    WThreshold,     \* the UART interrupts at this level or below: 8
    MaxCount,       \* bound: characters of one call of write
    MaxChars        \* bound: characters written in one behaviour

ASSUME ConsoleAssumption ==
    /\ BUF_LEN \in Nat /\ BUF_LEN > 1 /\ HwDepth \in Nat /\ WThreshold \in 0 .. HwDepth - 1
    /\ MaxCount \in Nat \ {0} /\ MaxChars \in Nat

Writers == {"main", "touch_isr"}

VARIABLES
    tx_buf, tx_in, tx_out,
    write_irq,      \* the WE bit of sp->irq_enable and of the control register
    hw,             \* the characters in the UART's FIFO
    \* per writer: the next step, its locals, and the characters left to copy
    step, in, out, n, todo,
    stage,          \* of main: "before" the touch interrupt is enabled, "start-up", "loop"
    \* history
    written,        \* characters handed to write so far
    sent,           \* characters the host has got
    orderly,        \* touch_isr has not printed inside a write of main, or the loop is entered
    from, shift     \* ... from then on, the i-th character sent is the one written
                    \* as number i + shift, if i > from

ring == <<tx_buf, tx_in, tx_out>>
writers == <<step, in, out, n, todo>>
order == <<orderly, from, shift>>
console_vars == <<ring, write_irq, hw, writers, stage, written, sent, order>>

Slots == 0 .. BUF_LEN - 1

ConsoleInit ==
    /\ tx_buf = [i \in Slots |-> 0] /\ tx_in = 0 /\ tx_out = 0
    /\ write_irq = FALSE /\ hw = <<>>
    /\ step = [w \in Writers |-> "idle"]
    /\ in = [w \in Writers |-> 0] /\ out = [w \in Writers |-> 0]
    /\ n = [w \in Writers |-> 0] /\ todo = [w \in Writers |-> <<>>]
    /\ stage = "before"
    /\ written = 0 /\ sent = <<>> /\ orderly = TRUE /\ from = 0 /\ shift = 0

\* touch_isr interrupts main, not the other way round, and is not interrupted.
Runs(w) == w = "touch_isr" \/ step["touch_isr"] = "idle"

Waiting == (tx_in - tx_out + BUF_LEN) % BUF_LEN

-----------------------------------------------------------------------------
(* main between its prints.                                                *)

\* DoEnablePIOint.
EnableTouch ==
    /\ stage = "before" /\ step["main"] = "idle"
    /\ stage' = "start-up"
    /\ UNCHANGED <<ring, write_irq, hw, writers, written, sent, order>>

\* What happened in the ring before matters no more from here on.
EnterLoop ==
    /\ stage = "start-up" /\ Runs("main") /\ step["main"] = "idle"
    /\ stage' = "loop"
    /\ orderly' = TRUE
    /\ from' = IF orderly THEN from ELSE Len(sent) + Len(hw) + Waiting
    /\ shift' = IF orderly THEN shift ELSE written - from'
    /\ UNCHANGED <<ring, write_irq, hw, writers, written, sent>>

-----------------------------------------------------------------------------
(* altera_avalon_jtag_uart_write, by either writer.                        *)

MayPrint(w) == stage # IF w = "main" THEN "loop" ELSE "before"

Call(w) ==
    /\ Runs(w) /\ step[w] = "idle" /\ MayPrint(w)
    /\ \E count \in 1 .. MaxCount :
           /\ written + count <= MaxChars
           /\ todo' = [todo EXCEPT ![w] = [i \in 1 .. count |-> written + i]]
           /\ written' = written + count
    /\ step' = [step EXCEPT ![w] = "space"]
    /\ orderly' = (orderly /\ \A u \in Writers : step[u] = "idle")
    /\ UNCHANGED <<ring, write_irq, hw, in, out, n, stage, sent, from, shift>>

Least(a, b) == IF a < b THEN a ELSE b

\* Mistake (mutation runs only): no slot is kept free when the ring wraps.
SpaceToTheEnd(i, o) == IF i < o THEN o - 1 - i ELSE BUF_LEN - i

\* The room that can be filled in one piece.
Space(i, o) == IF i < o THEN o - 1 - i
               ELSE IF o > 0 THEN BUF_LEN - i
               ELSE BUF_LEN - 1 - i

FindSpace(w) ==
    /\ Runs(w) /\ step[w] = "space"
    /\ in' = [in EXCEPT ![w] = tx_in] /\ out' = [out EXCEPT ![w] = tx_out]
    /\ n' = [n EXCEPT ![w] = Least(Space(tx_in, tx_out), Len(todo[w]))]
    /\ step' = [step EXCEPT ![w] = IF n'[w] = 0 THEN "kick" ELSE "copy"]
    /\ UNCHANGED <<ring, write_irq, hw, todo, stage, written, sent, order>>

Copy(w) ==
    /\ Runs(w) /\ step[w] = "copy"
    /\ tx_buf' = [i \in Slots |->
                    IF i \in in[w] .. in[w] + n[w] - 1 THEN todo[w][i - in[w] + 1]
                                                       ELSE tx_buf[i]]
    /\ todo' = [todo EXCEPT ![w] = SubSeq(@, n[w] + 1, Len(@))]
    /\ step' = [step EXCEPT ![w] = "publish"]
    /\ UNCHANGED <<tx_in, tx_out, write_irq, hw, in, out, n, stage, written, sent, order>>

PublishIn(w) ==
    /\ Runs(w) /\ step[w] = "publish"
    /\ tx_in' = (in[w] + n[w]) % BUF_LEN
    /\ step' = [step EXCEPT ![w] = IF todo[w] = <<>> THEN "kick" ELSE "space"]
    /\ UNCHANGED <<tx_buf, tx_out, write_irq, hw, in, out, n, todo, stage, written, sent, order>>

\* Mistake (mutation runs only): the interrupt is not asked for.
KickNothing(w) ==
    /\ Runs(w) /\ step[w] = "kick"
    /\ step' = [step EXCEPT ![w] = IF todo[w] = <<>> THEN "idle" ELSE "wait"]
    /\ UNCHANGED <<ring, write_irq, hw, in, out, n, todo, stage, written, sent, order>>

\* Enable the driver's interrupt, which sends what is in the ring.
Kick(w) ==
    /\ Runs(w) /\ step[w] = "kick"
    /\ write_irq' = TRUE
    /\ step' = [step EXCEPT ![w] = IF todo[w] = <<>> THEN "idle" ELSE "wait"]
    /\ UNCHANGED <<ring, hw, in, out, n, todo, stage, written, sent, order>>

\* Wait until the interrupt has taken something out of the ring.
Wait(w) ==
    /\ Runs(w) /\ step[w] = "wait" /\ out[w] # tx_out
    /\ step' = [step EXCEPT ![w] = "space"]
    /\ UNCHANGED <<ring, write_irq, hw, in, out, n, todo, stage, written, sent, order>>

Step(w) == FindSpace(w) \/ Copy(w) \/ PublishIn(w) \/ Kick(w) \/ Wait(w)

-----------------------------------------------------------------------------
(* The driver's interrupt and the host.                                    *)

\* Move what fits; with room to spare there is nothing more to send.
JtagIrq ==
    /\ step["touch_isr"] = "idle"
    /\ write_irq /\ Len(hw) <= WThreshold
    /\ LET k == Least(HwDepth - Len(hw), Waiting) IN
       /\ hw' = hw \o [i \in 1 .. k |-> tx_buf[(tx_out + i - 1) % BUF_LEN]]
       /\ tx_out' = (tx_out + k) % BUF_LEN
       /\ write_irq' = (Len(hw) + k = HwDepth)
    /\ UNCHANGED <<tx_buf, tx_in, writers, stage, written, sent, order>>

HostReads ==
    /\ hw # <<>>
    /\ sent' = Append(sent, Head(hw)) /\ hw' = Tail(hw)
    /\ UNCHANGED <<ring, write_irq, writers, stage, written, order>>

\* Everything has been written and read.
AllDone ==
    /\ written = MaxChars /\ ~write_irq /\ hw = <<>> /\ \A w \in Writers : step[w] = "idle"
    /\ UNCHANGED console_vars

ConsoleNext ==
    \/ EnableTouch \/ EnterLoop
    \/ \E w \in Writers : Call(w) \/ Step(w)
    \/ JtagIrq \/ HostReads \/ AllDone

ConsoleSpec == ConsoleInit /\ [][ConsoleNext]_console_vars

\* The processor executes and a listening host reads.
ConsoleFairSpec ==
    /\ ConsoleSpec
    /\ \A w \in Writers : WF_console_vars(Step(w))
    /\ WF_console_vars(JtagIrq) /\ WF_console_vars(HostReads)

-----------------------------------------------------------------------------
(* Properties. *)

Chars == 0 .. MaxChars

ConsoleTypeOK ==
    /\ tx_buf \in [Slots -> Chars] /\ tx_in \in Slots /\ tx_out \in Slots
    /\ write_irq \in BOOLEAN /\ hw \in Seq(Chars)
    /\ step \in [Writers -> {"idle", "space", "copy", "publish", "kick", "wait"}]
    /\ in \in [Writers -> Slots] /\ out \in [Writers -> Slots]
    /\ n \in [Writers -> Slots] /\ todo \in [Writers -> Seq(Chars)]
    /\ stage \in {"before", "start-up", "loop"}
    /\ written \in Chars /\ sent \in Seq(Chars)
    /\ orderly \in BOOLEAN /\ from \in Nat /\ shift \in Int

\* The host gets what was written, in order and once each, through the two
\* steps of copying and publishing and an interrupt between any two of a
\* writer's steps: until touch_isr prints inside a write of main, which only the
\* start-up allows (then the two fill the same slots), and, whatever came of
\* that, again from the loop on for what is written there.
SentInOrder ==
    /\ orderly => \A i \in 1 .. Len(sent) : i > from => sent[i] = i + shift
    /\ stage = "loop" => orderly

\* Everything written is sent, unless touch_isr jams (see WaitEnds) or prints
\* inside a write of main: no wake-up is lost between the last look at the ring,
\* the enabling of the interrupt and its disabling by a handler that found the
\* ring empty.
Jammed == step["touch_isr"] = "wait"
WrittenIsSent ==
    \A c \in 1 .. MaxChars :
        (written >= c) ~> (Len(sent) + shift >= c \/ Jammed \/ ~orderly)

\* "Always wait for data to be removed from buffer.  Once the interrupt routine
\* has removed some data then we will be able to insert some more"
\* (altera_avalon_jtag_uart_write.c:179-181): a waiting writer goes on.
WaitEnds == \A w \in Writers : (step[w] = "wait") ~> (step[w] # "wait")
=============================================================================
