# A verification model of the handwritten digit recogniser

The repository is a handwritten-digit recogniser on an FPGA board (DE2-70 with
the LTM touch panel): a Nios II processor runs one C program,
`hello_world.c`, and Verilog modules around it drive the panel, digitise
touches, capture buttons and copy the frame buffer to the screen. This
directory holds TLA+ models of it, the TLC runs that check them, and theorems
about them proved with TLAPS.

Paths below are relative to `DE2_70_NiosIISOC_final_version/`; `hello_world.c`
is `Qsys/software/Final_Project/hello_world.c`, generated Verilog is in
`Qsys/NiosSoc/synthesis/submodules/`, drivers are in
`Qsys/software/Final_Project_bsp/drivers/src/`, the run-time library in
`Qsys/software/Final_Project_bsp/HAL/src/`.

## 1. The system

```
 pen -> adc_spi_controller --coords, dval--> touch PIO --irq--> touch_isr
        (50 MHz)                             (150 MHz)            |
                                                   FIFO (31) + stack (512)
 keys -> button PIO (edge capture) --polled--> main loop <--------+
                                                   |  draws strokes, thumbnail
                       timer <--start,end-- RECOGNISE -> network -> 7 digits
                                                   |
                                            frame buffer LTMDisp
                                                   v
      memory -> LTM_Master_Controller -> UDCFIFO -> touch_tcon -> panel
         ^      (150 MHz)                           (6.25 MHz)      ^
         |                              lcd_3wire_config, I2S_Controller
 SDRAM <- NiosSoc_sdram_ctrl <- agent <- burst adapter <- multiplexer
   chip   (queue, refresh)      (notes)                   (round robin)
                                          processor, DMA, display --+
 printf -> JTAG UART ring --irq--> UART FIFO -> host
```

| Part (source) | State | Operations | What is hard, what makes it correct |
|---|---|---|---|
| Touch point buffers (`hello_world.c` 54-148, 406-495) | ring `fifo`, `fifo_head`, `fifo_tail`; `stack`, `stack_top`; panel memory | `touch_isr` pushes; the loop pops one of each per iteration, CLEAR empties both | No lock: the interrupt runs between any two accesses of a pop or a clear. Nothing is duplicated, reordered, torn or revived after CLEAR |
| Push buttons (`NiosSoc_button.v`, loop 407-451) | two sampling registers, edge capture | poll, command, acknowledgement that clears the whole word | Presses captured while a command runs; the word is compared as a whole |
| Touch hand-over (`NiosSoc_touchirq.v`, `adc_spi_controller.v` 260-300, `touch_isr` 139-148, `DoEnablePIOint` 151-155) | coordinate registers, edge capture, mask | publish, capture, clear, two reads | Two clock domains; coordinates change between the two reads |
| Interrupt dispatch (`alt_irq_entry.S`, `alt_irq_handler.c`, sampling in `NiosSoc_nios2cpu.v`) | pending lines, return point | take, three looks at the pending lines, choice of the handler, return | The lines are read again after the interrupt was taken; a line that has fallen meanwhile leads to a breakpoint or an endless search |
| Touch digitiser (`ip/LTM_IF/adc_spi_controller.v`) | divider, frame counter, shift registers, pen registers | one frame of 66 slow clocks per pair | Command and data bits stay in step over pen movements and resets |
| Panel configuration (`lcd_3wire_config.v`, `I2S_Controller.v`) | table index, handshake, bit counter | 21 frames with acknowledgement and retry | Two machines on opposite clock edges; retry restarts the shifter |
| Picture (`ip/LTM_MM/LTM_Master_Controller.v`, `UDCFIFO.v`, `touch_tcon.v`) | burst machine, address, FIFO, line and column counters | burst reads, pixel requests, start at a vertical sync | Nothing re-aligns the stream: one missing word shifts every later frame. The FIFO has no overflow check, and the display may be stopped in the middle of a frame |
| Stopwatch (`NiosSoc_timer.v`, `altera_avalon_timer_ts.c`) | 32-bit down counter, snapshot, run bit | start, latch, two half reads | The count is read in two halves while it runs; it stops after one period |
| Recognition and digits (`hello_world.c` 139-146, 225-286, 346-495) | thumbnail, network input, eight digits | draw, CLEAR, RECOGNISE | Three scalings and two turns between finger and network input; an unsigned difference and three divisions between timer and digits |
| Memory controller (`NiosSoc_sdram_ctrl.v`) | request FIFO, two state machines, refresh timer, marks of the answers | start-up, hit, miss, refresh, answer | Two requests are in hand at once and a refresh may cut in anywhere; the chip's spacings, its open rows and the shared data pins are kept by counters only |
| Sharing of the memory (`NiosSoc_cmd_xbar_mux_001.sv`, `altera_merlin_*`) | grant, priority, packet, notes | arbitrate, take a burst apart, route an answer | The memory does not say whose word it returns; a grant is decided a clock before it is used |
| Console (`altera_avalon_jtag_uart_write.c`, `_init.c`) | ring of 2048, UART FIFO, interrupt enable | `write`, transmit interrupt | Two writers, one of them an interrupt handler that may not wait |

Not modelled, with the reasons: the network's arithmetic (floating point, no
state; it is any label and any probability after any time); the processor, whose
netlist is generated and which appears as what it does (accesses
some clocks apart, interrupts between instructions); the paths of the
interconnect that lead to other slaves than the memory, which no two masters
contend for in this program; vendored drivers that the program never uses (UART0,
DMA) or uses once and sequentially (zip file system, flash, file descriptors);
the third-party graphics library, of which only `OLED_Clear` is called, with its
fonts; and Verilog files that nothing instantiates. Most of the lines of the
repository are of these kinds: fonts, `system.h`, the netlists of the processor
and of the floating-point unit, and the wiring that Qsys generates. The repository's README
describes only the network and the board; the Keras training archive, flash
images and Quartus databases are data.

## 2. The modules

| Module | Stands for | Extends / composes |
|---|---|---|
| `TouchQueue` | what the FIFO promises: a bounded queue with a flush | abstract specification |
| `TouchBuffers` | both buffers, `touch_isr` and the loop, access by access | implements `TouchQueue` |
| `Buttons` | capture port and poll, command, acknowledge | |
| `TouchPort` | coordinate registers, capture port, dispatch and interrupt | |
| `AdcSpi` | the digitiser's controller, clock by clock | |
| `LcdConfig` | the two configuration machines, edge by edge | |
| `LtmMaster` | the frame-buffer reader in any environment | |
| `TouchTcon` | panel timing | |
| `Display` | reader, FIFO and panel wired together | `LtmMaster`, `TouchTcon` |
| `Timestamp` | timer and its driver | |
| `TouchGeometry` | scalings and turns of a touch, as operators | |
| `Recognise` | the loop as the user sees it, with timer and geometry | `Timestamp`, `TouchGeometry` |
| `JtagConsole` | `write` and its interrupt | |
| `MemoryPort` | what the memory promises: performed in order, answered in order, at most so many owed | abstract specification |
| `Sdram` | the memory controller, clock by clock, with the chip | implements `MemoryPort` |
| `Fabric` | multiplexer, burst adapter and agent | uses `MemoryPort` as its memory |
| `DeviceProofs` | theorems about the three devices with a driver of their own | `AdcSpi`, `TouchPort`, `JtagConsole` |
| `DisplayProofs` | theorems about the reader and the picture | `Display` |
| other `*Proofs` | theorems (section 6) | the module they are named after |
| `MC*` | instances for TLC | the module they are named after |

How state and actions correspond to the code, where it is not one to one:

- **TouchBuffers.** `pc` names the next memory access of the loop. The split
  follows the unoptimised build (`-O0`): `stack[stack_top--]` is a load of
  `stack_top`, a copy and a store; `fifo_pop` a copy and a store; `fifo_clear`
  two stores. `touch_isr` runs with interrupts off and is one step. A point is
  the number of its touch, the panel the set of points painted on it.
  `*_mark`, `*_dropped` and `touches` are history.
- **Buttons, TouchPort.** One step is one clock of the capture port; the
  processor may make its next access in it. In `TouchPort` two accesses are at
  least `AccessGap` clocks apart, and an interrupt may replace the instruction
  that is fetched `FetchGap` clocks after an access. `ipending` is what the
  processor sampled a clock ago; `irq_entry`, `irq_first` and `irq_again` are the
  three looks of the dispatcher, `break` and `spin` what it does if nothing is
  pending then. A coordinate is the number of its sample. `TimingAssumption` says
  what the distances must at least be: a line cleared by an access is seen low at
  the next fetch, and new coordinates are in place by the access after the one that may
  have cleared their edge.
- **AdcSpi.** A coordinate register is the number of bits of the conversion
  asked for last that it holds; an extra or a missing bit shows as a count other
  than twelve. KEY0 is the reset. It may leave the serial clock high where the
  command is loaded; the shift then wins over the load and no command is sent.
- **LcdConfig.** A bit on the wire is the word it belongs to and its position,
  so a lost, repeated or swapped bit is visible. The panel is the environment:
  it refuses or acknowledges a frame.
- **LtmMaster, Display.** A word is a buffer and an index in it. The dcfifo is
  external: a queue whose write side sees reads late (`MaxUnseen` of them at
  most) and whose read side gets written words late (`MaxLate`). `UDCFIFO.v:76`
  gives the read side a synchroniser of four registers; it feeds `rdempty` and
  `rdusedw`, which nothing uses, and the data come from the RAM
  (`db/dcfifo_skk1.tdf`), so `late` allows for more than can happen. `main` enables
  the display and never stops it; `DisableDisplay` does, at any time after, and it
  may be enabled again. Display interleaves `ClocksPerPixel` system clocks with each
  pixel clock and lets the memory stall a burst by at most `MaxStall` clocks in
  all. `MaxStall` is an assumption, nothing derives it from the memory
  (section 8); `SpeedAssumption` says how many clocks it may be.
- **Timestamp, Recognise.** The counter has `Half * Half` values in place of
  2^32. A step of the loop takes no time; the timer runs between steps. A point
  of the FIFO is drawn as a stroke and a point of the stack as a square, in any
  order, which is what the two buffers do (TouchBuffers says which orders).
  Geometry keeps every number of the program.
- **JtagConsole.** A character is the number of its writing. `stage` is where `main`
  is: before the touch interrupt is enabled (`hello_world.c:352`), in the prints of
  the start-up after that (377-387), or in the loop, in which it prints nothing.
  `touch_isr` may print at any step of `main` from the second stage on.

- **Sdram.** One step is one 150 MHz clock, in which every register takes its next
  value: the conjuncts of `Clock` are the always blocks, and each state of the
  two machines is a definition. The chip is external: it opens and closes rows,
  counts the clocks since each kind of command (`age`, history) and returns a word
  three clocks after its column was asked for. A reset reaches the controller but
  not the chip, nor the registers of the controller that have none (`active_*`,
  `i_refs`).
- **Fabric.** One step is one clock. A word is the master that asked and its
  number in the packet; the memory takes, performs and answers at any clock its
  promise allows, so nothing depends on the timing of `Sdram`. A master owes one
  packet at most; the interconnect lets the read master of the DMA controller have
  more, but no code of the program starts it. The arbiter's
  addition of inverted requests and priority is its result, the first asking
  master from the one with priority on. Multiplexers and adapters for byte masks
  and widths keep no state and are left out.

Definitions marked "Mistake (mutation runs only)" are plausible bugs, one or more
for each property, used to see that the property notices them. They are in no
specification.

## 3. The runs

| Run | Asks | Bounds, and why they are enough |
|---|---|---|
| `touch_buffers` | Are the buffers safe with the interrupt between any two accesses (`PopIndexInArray`, `SlotStable`, `StackNeverRepeats`), is the ring a queue (`RingIsQueue`), is CLEAR final (`NoStaleInk`), is what is recognised also visible (`ThumbnailBackedByStroke`), and is everything queued drawn in the end (`QueuedIsDrawn`, `Drained`)? | Ring of 3 (two usable), stack of 2, 5 touches: the ring wraps and fills, the stack fills, a pop meets one and two pushes, and a clear meets both. `MCTouchBuffers` assumes that there are more touches than slots |
| `touch_lost` | "Process all touch points": does every touch reach the thumbnail? **No** (section 5) | 4 touches |
| `buttons` | One press, one command (`OnePressOneCommand`); only presses made while busy are thrown away (`LostOnlyWhileBusy`); a press that is alone in its word is answered (`PressAnswered`). Two keys in one word jam the port for good; `PressAnswered` exempts that jam and so does not catch it | 3 keys, two presses of each: a second press during a command, and every pair of keys |
| `touch_port` | When a pair torn between two samples has been pushed, the capture bit of the sample that tore it is set, so that the interrupt that replaces it is due (`TornPairIsFollowed`), the newest sample wins (`NewestSampleWins`, `SampleDelivered`), and the dispatcher always finds the line that called it (`NoSpuriousInterrupt`) | Clock ratio 3 as in the design, six clocks between accesses (an instruction of the /e core), two to the fetch, 4 samples at any distance, also far closer than the digitiser's, and two interrupts of the console at any clock. 208,340 states |
| `adc_spi` | A published pair is whole (`PairIsWhole`), after a reset at the latest the second one (`WholeAfterOneRound`), sampling goes on (`SamplingContinues`) | All counters of the design but the divider: 3 in place of 2084, which only repeats the waiting state. One reset at any clock, pen moving at any clock |
| `lcd_config` | Each frame is whole (`FrameIsWhole`), registers are configured in order and once and the shared clock is handed over to the digitiser only then (`ConfiguredInOrder`), and it ends (`Configured`) | The design's 21 registers of 16 bits; any refusals, one reset at any edge |
| `display` | The panel gets for every pixel it requests its own word and shows it two columns to the left (`PixelInPlace`, section 5), the FIFO holds less than two bursts (`NeverTwoBursts`), no burst leaves the frame although the display is stopped in the middle of one (`BurstInFrame`), the picture is shown again and again unless it is stopped again and again (`PictureShown`) | A picture of 6 x 4 in bursts of 4, so that bursts straddle lines as 256 straddles 800; every phase of software and sync, and stops and starts without end. `MaxStall = 3` is the most that `SpeedAssumption` allows here, and sharp: with 4, `PixelInPlace` fails |
| `recognise` | What `main` measures is the time the timer ran for between the two latches, although the count is read in two halves (`TimeMeasured`), every touch reaches its own network input (`TouchReachesInput`) and nothing else does (`InputIsTouched`) | 16 counter values, 8 per second: every length of inference up to past the end. One touch at the ends and the middle of each coordinate, drawn as stroke, square or both; more touches only add ink, and the theorems cover all coordinates |
| `jtag_console` | The host gets everything in order until `touch_isr` prints inside a write of `main`, which only the start-up allows, and from the loop on again what is written there (`SentInOrder`); what is written is sent, with the same exemption and that of the jam (`WrittenIsSent`) | Ring of 3, UART FIFO of 2, calls of up to 4 and 6 characters in all: the ring wraps, fills, a call is cut by both, the writers meet in the start-up, and there is enough left to print in the loop. 757,268 states |
| `jtag_console_isr` | Does a waiting writer go on? **No**, if it is `touch_isr` (section 5) | the same |
| `sdram` | Are requests performed in order, each once and at its own address, and reads answered in order, with at most seven owed (`ImplementsPort`)? Are rows opened only in closed banks (`BanksClosedFirst`), the chip's spacings kept (`CommandsSpaced`), refreshes never skipped (`NoRefreshSkipped`), the pins driven by one side (`OneDriver`), and is every request performed (`Served`)? | Two banks, two rows and two columns: hit, miss in the same bank and in another, for reads and writes, at any clock. `RefreshClocks = 24` is the shortest interval for which `NoRefreshSkipped` is proved (1171 in the design), so that a refresh cuts into everything; `PowerUpClocks = 12` only shortens a wait. A reset at any clock. 344,745 states |
| `fabric` | Does each word reach the master that asked, bursts in order and complete (`AnswerToAsker`), is there always room for a note (`ExtraSlotUnused`), is the round robin fair (`PassedOnceEach`) and is everything served (`PacketServed`)? | A master that reads and writes single words, one that reads bursts of three, one that only writes; a memory with room for two that owes up to three; four notes. `MaxPending = 3` is one below `Depth`, as 7 is below 8 in the design. With N - 2 in place of N - 1 `PassedOnceEach` fails. 19,397 states |

The console's runs do not check for deadlock: once `touch_isr` jams, the program
has stopped. In every other run deadlock is checked.

Each module states its type invariant `TypeOK`. They are not in the runs' lists;
those of TouchBuffers, TouchPort, AdcSpi, LcdConfig, LtmMaster, Display and
JtagConsole are part of the invariants that are proved (section 6).

## 4. Fairness

| Specification | Fairness | Why the code justifies it |
|---|---|---|
| `TouchBuffers` | weak, the loop's next access | the processor executes; interrupts are finite. No fairness for the user |
| `Buttons` | weak, poll with a command and acknowledgement | `OLED_Clear` and the inference are finite loops |
| `TouchPort` | weak, the clock, the processor's next access, taking a pending interrupt | clocks run; interrupts are enabled whenever `touch_isr` is not running |
| `AdcSpi` | weak, the clock | |
| `LcdConfig` | weak, the clock; strong, an acknowledgement | the panel is asked without end and answers some time. Without it the table is rightly retried for ever |
| `Display` | weak, the two clocks, the two writes of `main` | |
| `Sdram` | weak, the clock | requests may stay away |
| `Fabric` | weak, the clock, and a memory that takes, performs and answers what it is given | `Served` of `Sdram`: the controller performs whatever it has, and answers a few clocks later |
| `JtagConsole` | weak, each writer's next step, the interrupt, the host's reading | a host is listening; with no system clock in the design the driver never gives up on it |

`TouchQueue`, `LtmMaster` and `Recognise` are safety specifications.

## 5. Findings

- **A touch may be lost between a pop and a push** (`touch_lost`,
  `hello_world.c:122`). The loop loads `stack_top`; `touch_isr` pushes; the
  loop stores the old value minus one. The new point is drawn as a stroke,
  through the FIFO, but never reaches the thumbnail, under a comment that says
  "Process all touch points". `StackNeverRepeats`, `PopIndexInArray` and `NoStaleInk`
  hold in spite of it.
- **Printing from the interrupt may stop the program** (`jtag_console_isr`,
  `hello_world.c:94` through `altera_avalon_jtag_uart_write.c:183`). With the
  ring full, `write` waits for an interrupt that `touch_isr` keeps off.

Seen and not turned into runs:

- The comment of `alt_timestamp` says that -1 is returned after a full period
  (`altera_avalon_timer_ts.c:92-94`), while the timer reloads and stops, and 0 is
  returned.
- The digits do not show what their comments say. The fraction of a second is
  said to be "scaled to 4 digits (e.g., 6518)" (`hello_world.c:253`) with the most
  significant one on SEG2 (line 269); it is scaled by 100, SEG2 is always 0, and
  0.65 s reads 0.065. `Show` models the digits as they are; no property claims that
  they are right. What is claimed, and proved, ends at the difference of the stamps.
- The write lock is said to make `write` thread-safe
  (`altera_avalon_jtag_uart_write.c:94-96`). It is an empty macro here, and from
  `hello_world.c:352` to the loop `touch_isr` may print inside a write of `main`:
  both copy to the same slots, and characters are lost or out of order.
  `SentInOrder` without its condition `orderly` is violated in the run's instance.
- The picture is shown two columns too far to the left. The FIFO shows its next
  word before it is asked for, the request begins one clock before the display
  area (`touch_tcon.v:80-92`), the enable signal is registered twice behind that
  area and the colours once (145-170): the first column that is enabled shows the
  third pixel of the line, the last two whatever follows. `PixelInPlace` states
  the offset exactly.
- `dclk` keeps its value over a reset, and if it is high the frame counter of the
  digitiser runs free until the next pen-down (`adc_spi_controller.v:156`;
  `WholeAfterOneRound` shows how far the damage goes: one pair).
- Comments give the pixel clock as 25 MHz (`LTM_top.v:147`, `DE2_70_TOP.v:516`),
  while the third bit of a 50 MHz counter is 6.25 MHz, the ratio `Display` is about.

## 6. What is proved

All proofs hold for every value of the constants under the named assumptions of
the modules, so for the program's own 32, 512, 256, 1024, 2048 and 800 * 480.
Every safety invariant and every action property of the passing runs is proved,
and all three refinements (of `TouchQueue`, `MemoryPort` and `LtmMaster`).

- **`TouchBuffersProofs`** (from `SizesAssumption`). `TypeCorrect`: `TypeOK` is not
  inductive, as a store of a pop keeps the index in range only because a buffer
  found non-empty stays so until the pop is over. `PopGuard` says so: the
  interrupt only pushes. `PopIndexSafe` follows. `SlotIsStable` and
  `NeverRepeats` use the invariant that relates the loaded index and fetched
  point to the buffers at each `pc`: pushes meanwhile only add above the loaded
  index, so the store of the pop drops them but restores nothing older.
  `ClearIsFinal` and `ThumbnailIsVisible` need what the queue holds slot by slot
  (`QueuedSlots`), and `ClearInv`: after the panel is wiped everything pushed is
  new, and the old points sit in the stack until `stack_clear` and in the ring
  until its head is stored; between the two stores of `fifo_clear` the new queue
  must stay behind the old tail, which holds because the interrupt refuses a
  point before it reaches the tail. `RingImplementsQueue` proves the refinement of
  `TouchQueue`: the ring as a sequence (`Ring`), what a push and a pop do to it
  round the wrap (`RingPush`, `RingPop`, `RingBounds`), and with these and the two
  invariants each step of `TouchBuffers` is a step of the queue or a stutter.
- **`ButtonsProofs`** (from `KeysAssumption`). `OneCommandPerPress` counts: a press
  is in one place at a time, on its way through the two sampling registers, in
  the capture word, or in the command under way, so that commands never exceed
  presses (`PressesCounted`). `NothingEarlierLost` follows for every step.
- **`DeviceProofs`**, three systems that share no state.
  *Digitiser* (from `DividerAssumption`). `AdcInv` ties the serial clock and the
  bits shifted in to the frame counter, as functions of it (`Level`, `Bits`). After
  a reset that leaves `dclk` high the tie is broken, and `Spoilt` says for
  how long: until the next x has been converted. `PublishedPairIsWhole` and
  `AtMostOneSpoilt` follow; `PulseLastsOneClock` is an action property and what
  `TouchPort` takes for granted of the pulse.
  *Hand-over* (from `ClockAssumption` and `TimingAssumption`). `HandOverInv` says where
  the newest sample is in every phase of the clocks: it still asks for an
  interrupt (in the pulse, in a sampling register or in the capture bit), or it
  was in the registers before the reads now under way (`ReadInv`, where the clocks
  since the last access and the phase together make up a period), or it has been
  pushed. `NewestSample`; the same for a sample that tears a pair gives
  `TornPairReplaced`; that a line once up stays up until the handler clears it
  gives `NoneSpurious`.
  *Console* (from `ConsoleAssumption`). `ConsoleInv`: what the host has, the UART
  FIFO, the ring from `tx_out` to `tx_in`, the slots copied but not published and
  the rest of the call hold the characters in the order of writing, with no
  gap, and never more than the ring has room for, although the copied free space
  is stale. It holds while the two writers have not met (`orderly`). If they do meet, only
  the types survive, and that no writer copies more than it was given
  (`LocalInv`); but in the loop they cannot meet (`StageInv`), and where it is
  entered both are idle, so that from there on the order starts afresh behind
  whatever the ring then holds: `from` and `shift` say where.
  `HostGetsWhatWasWritten` is the theorem, without an assumption about when
  `touch_isr` prints.
- **`LcdConfigProofs`** (from `TableAssumption`). The invariant says at each edge
  where the walk through the table stands against the shifter, which bit is on
  the wire and which the panel has clocked in: `WholeFrames`. With the word that
  is acknowledged at the end of a frame it gives `InTableOrder`, for any length of
  the table and any number of refusals.
- **`SdramProofs`** (from `AddressAssumption`, `RefreshAssumption`,
  `PowerUpAssumption`). `RefreshInvariant` bounds how late a refresh can be in each
  state: the longest way from there to its acknowledgement, 23 clocks in all.
  `NoRefreshIsSkipped` follows for every interval of at least 24. `PinsInvariant`
  says when all banks are closed, or a precharge that closes them is at the
  pins, and that no word read is on its way when a write can come:
  `BanksAreClosed`, `OneDriverOnly`. `CommandsAreSpaced` adds, for each state, the
  clocks since the last command of each kind together with those the state still
  waits. `PortInvariant` says which requests are still to be performed (those in
  the FIFO behind the one or two in hand) and which of the reads on their way to
  the pins are marked in `rd_valid`, so that `PortIsImplemented` can map every
  clock, through hits, misses, refreshes and pipeline, to a step of `MemoryPort`;
  that at most seven answers are owed is part of it. All of it holds through
  resets amid an access.
- **`FabricProofs`** (from `FabricAssumption`, `NoWordAssumption`, `DepthAssumption`:
  there is room for more notes than the memory owes answers). While a master asks, the packets
  that went before it and those that can still go, its distance from the one with
  priority, make at most N - 1: `RoundRobin`. That there is a nearest asking master
  is the only place that needs well-foundedness. `NotesInvariant` is about the way
  back: the notes are those of the reads in the memory, in the same order, first
  the one answered now, then those performed, then those that wait among the
  writes; and those of one master are, in order, the words of its burst from the
  one due to it. The place of a waiting read is its rank, the number of reads up
  to it, so that no recursion over the queue is needed. `AnswersFindTheirAsker`
  and `ExtraSlotNeverUsed` follow.
- **`DisplayProofs`**. *Reader* (from `FrameAssumption`). `IInv` bounds the
  fill level in each state of the burst machine (a burst is begun with less than
  a burst in the FIFO, so at most `RD_LENGTH` minus the words received are
  still to come) and ties the address to the pixel counter in whole bursts.
  `FifoIsBounded` follows, with `LevelIsExact`: the ten bits of the level that
  the master sees lose nothing. `BurstsStayInFrame` needs that the frame is a
  whole number of bursts, and that the stopped state sets address and counter back
  before a burst follows a stop. `DisplayImplementsMaster`: each step of the composed
  display is a step of `LtmMaster` or a stutter, so these results hold of it.
  *Picture* (from `TimingAssumption`, `ClocksAssumption`, `FrameIsPicture` and
  `SpeedAssumption`). `EveryPixelInPlace`, with the two clocks of the registers behind it, rests on `PictureInvariant`, in three parts.
  `SyncInv`: the sync falls at one place of the frame, so the reader starts a
  known distance before the first pixel. `OrderInv`: the words in the FIFO are
  those of the next pixels, modulo the frame, and the word that arrives next is
  that of the pixel after them; the panel's line-and-column arithmetic enters in
  `PosStep` only. `SpeedInv`: the system clocks until the panel would find the FIFO
  empty (`Dry`) are never fewer than those until the next word is there (`Need`).
  A word stands for `ClocksPerPixel` clocks; a request takes one word and as many
  clocks pass between requests, so `Dry` changes only with system clocks and
  words that arrive. `SpeedAssumption` is what the three critical places ask for:
  the burst begun when the FIFO just fell below one burst, the end of a burst,
  the first burst, and the burst in which the display is stopped, which must be over
  before the next start. In the design, with two reads unseen and four words late
  it leaves 5886 waiting clocks to each burst of 256 words, and 3789 even if 96
  words were late; on the instance of the run its first part is sharp.
- **`RecogniseProofs`** (from `RecogniseAssumption`, `HalfAssumption`). For all 4096 x
  4096 coordinates: the two truncations on either axis move a point by at most one
  row or column of the thumbnail against the touch's own place (`RowNear`,
  `ColumnNear`), the 3 x 3 square makes up for it (`SquareCoversIdeal`), and turning
  the thumbnail gives back the input's own index. `ThumbnailInv` carries this
  from touch to touch, up to the copy: `EveryTouchReachesInput`,
  `EveryInputIsTouched`. `TimeInvariant` follows the time from the running counter
  through the snapshot and its two halves to the two stamps and their unsigned
  difference: `ElapsedTimeMeasured`.

Only model-checked: liveness (`QueuedIsDrawn`, `Drained`, `PressAnswered`,
`SampleDelivered`, `SamplingContinues`, `Configured`, `PictureShown`, `WrittenIsSent`,
`Served`, `PacketServed`), since fairness and `ENABLED` are out of the prover's
reach; and the two findings, which are counterexamples. No module has a
recursive operator. The network, whose computation would need induction over
data, is not modelled.

## 7. Hazards

`PROJECT.json` lists each hazard at its line with the properties that would
catch it. Those without a property: pairs with y = 0 are dropped silently
(`adc_spi_controller.v:271`), which nothing in the repository forbids; the digits
of the time are wrong (`hello_world.c:253`, section 5); and a time measured over the end
of the timer, seven minutes after the start, is not the inference's
(`hello_world.c:445`): `TimeMeasured` says that it is the time the timer ran for.
Three are covered up to a limit: the jam of two keys is exempt from `PressAnswered`,
the order of the console is not claimed between a meeting of its writers and the
loop, and the picture rests on `MaxStall`.

What remains of the repository is not modelled for the reasons at the end of
section 1. Of the code that is hand-written for this board, the logic that keeps
state is in the modules.

## 8. Plan

Done, in this order: touch buffers and their abstract queue; buttons, touch
hand-over, digitiser, panel configuration; reader, timing and their composition;
console; timer, geometry and recognition; the first proofs; the interrupt
dispatcher in `TouchPort`; the memory controller and its abstract port; the
interconnect on top of that port; the proofs about CLEAR, the ring
as a queue, buttons, panel configuration, memory controller and round robin;
the proofs about the answers of the memory and the refinement of its port,
the elapsed time, the digitiser, the hand-over, the console and the picture.

Next:
1. `AdcSpi` publishing into `TouchPort`, with the refinement that a published
   pair is one sample; `PulseLastsOneClock` is its first step.
2. CLEAR and RECOGNISE of `TouchBuffers` driven by the word of `Buttons`.
3. `Display` reading through `Fabric`: how long a burst can be held up by the other
   masters, and a proof of `SpeedAssumption` from that in place of the bound
   `MaxStall`.
