# CN1601: verification of the simulator and its tools

The repository is a toolchain for the CN1601, a 16-bit teaching processor: an
assembler, a disassembler, and a cycle-level simulator with three coprocessors
(timer, NVRAM, UART). This directory holds TLA+ models of the simulator, of the user
at its prompt, of a driver that runs on it and of the assembler tools, what TLC checks
about them and what TLAPS proves.

## Inventory

| Part | Source | State | Operations | Hard behaviour |
|---|---|---|---|---|
| CPU core | `sim_core.c/.h` | pc, control registers, sleep flag, the latch `inter`, output pins | `sim_core_exec`, `sim_core_update` | decision and effect are separate calls; stalls park the latch; interrupts, faults and traps nest two deep |
| Memory interface | `sim_memif.c/.h` | `delay`, `quiescent`, one per bus | `sim_memif_access` | a request is answered calls later; what if it changes meanwhile |
| Cycle and interpreter | `sim.c` | `core_input`, `core_output`, `g_continue` | `cycle()`; the commands `cycle`, `continue`, `goto`, `reset`, `load`, `read`, `show`, `trace`, `quit` | the order of the calls; commands between the cycles of one instruction; SIGINT |
| Coprocessor interface | `sim_cp_if.c/.h` | eight registers per coprocessor | select, read, write, reset | operations last one cycle |
| Timer | `sim_cp_timer.c` | two counter words, enable bit | data, exec | borrow between the words |
| NVRAM | `sim_cp_nvram.c` | pending operation, delay, status | data, exec, reset | handshake of status, acknowledgement and interrupt |
| UART | `sim_cp_uart.c/.h` | two mailboxes, two host threads, flags, CTL and STATUS | data, exec, reset, deinit, both thread bodies | three threads on two queues; tests and actions in different critical sections |
| Mailbox | `mbox.c/.h` | queue, length, waiter count | post, get, get with a deadline, length | lost wakeups, timeouts, the empty list |
| Linked list | `dlist.h` | three pointers per node, a header per list | insert before, after, first, last; remove; first | the neighbour may be the header |
| Echo program | `tests/sim/test_41.asm` | two registers, STATUS, CTL and VAL | wait loop; interrupt handler | the interrupt between any two instructions |
| Instruction codec | `instructions.c`, `instr_table.c` | none | assemble, decode | two descriptions of each format; field widths, signs |
| Assembler | `asm.c` | location counter, label list, image | two passes | the passes must agree; ranges; the buffer |
| Disassembler | `dasm.c` | none | disassemble | its output must assemble again |
| Utilities | `utils.c`, `fifostdio.c` | none | I/O | - |

The parts meet in `cycle()`: the instruction memory interface reads the core's
pins and answers; `sim_core_exec` reads that answer and the interrupt pins, fills
the latch, and drives the data and coprocessor buses; the selected coprocessor
executes; every coprocessor's data callback runs and may raise its pin; the data
memory interface answers; `sim_core_update` applies the latch. The UART's threads
run beside all of it and share its mailboxes and nothing else.

What makes each part right: the core keeps the promises of the architecture
however cycles, stalls and interrupts fall; the interfaces answer every request
once; no bus operation is repeated; user programs stay confined; no character is
lost, doubled or reordered between acceptance and delivery; registers tell the
truth; interrupts come; stopping stops. The `hazards` of `PROJECT.json` list what
could break this, each at its line.

## Modules

| Module | What it is |
|---|---|
| `CoreTypes` | sizes and assumptions, STATUS and what traps and returns do to it, instruction classes, control registers |
| `SimMemif` | one memory interface; instantiated twice, as `IMem` and `DMem` |
| `SimCore` | `sim_core_exec` and `sim_core_update`, one definition per path |
| `Sim` | `cycle()`: composes the core, both interfaces and the devices' pins |
| `Isa` | the abstract specification: instructions complete one at a time, handlers nest |
| `SimProps` | type invariant, safety, action and liveness properties, the refinement mapping to `Isa` |
| `SimProofs` | the theorems and their proofs; the refinement of `Isa` |
| `MCSim` | the sets the configurations use |
| `SimDivergence` | a statement of `cpuspec.txt` the core does not keep |
| `Debugger` | `Sim` under the commands of the user and SIGINT |
| `DebuggerProps`, `DebuggerProofs` | what the core and the prompt keep under them; the proofs |
| `Mbox` | a mailbox: what each critical section does to it |
| `Dlist` | the lists of `dlist.h` pointer by pointer, and mailboxes made of them |
| `Queues` | the abstract specification of both: sequences of nodes |
| `DlistProps`, `DlistProofs` | what they are checked for, the refinement mapping to `Queues`; the proofs of both |
| `Uart` | the UART's two threads and its callbacks in the simulator thread |
| `UartProps` | what the UART is checked for |
| `UartProofs` | its types, bounds and STATUS; the order of its characters |
| `Echo` | the echo program of `test_41.asm` over `Uart`: the program, the cycle and the threads composed |
| `EchoProps`, `EchoProofs` | what it does with the characters it is given; the proof that it answers in order |
| `Timer`, `Nvram` | the callbacks and operations of the two devices, one operator each |
| `Devices` | both under the cycle and the user's resets |
| `DevicesProps`, `DevicesProofs` | what they are checked for; the proofs |
| `Instructions`, `CodecProofs` | the instruction table, and both directions of the codec; that they are inverse |
| `Asm` | the two passes of the assembler |
| `AsmProps`, `AsmProofs` | what the assembler is checked for; the proofs, with those of `Toolchain` |
| `Toolchain` | assembler, disassembler, assembler again, and the round trip |
| `MCToolchain` | the sources TLC assembles |

### The core

One cycle is six steps, `stage` naming the call to come: `Fetch`, `CoreExec`,
`CpExec`, `CpData`, `MemData`, `CoreUpdate`, in the order of `cycle()`. The
`fetch` callbacks of `sim.c` are NULL for every coprocessor and are not a step.

`Exec` is the disjunction of the paths of `sim_core_exec` in the order of its early
returns: data stall, sleep, instruction stall, instruction fault, interrupt, and
then one action per kind of instruction. `Update` is that of `sim_core_update`:
the two early exits, one action per `inter.type`, with the memory types split by
stall, fault and completion. `Ticked` and `ReleaseBus` are the code under the label
`counter`; the sleeping path returns before it, as in the source.

What is abstracted:

- Words. A general register, a memory word and an operand are not modelled; the
  instruction fetched is any of `Program` with any operands, and a branch goes
  to any address.
- STATUS is its five mode bits. The eleven remaining bits carry the software
  argument of `int` and steer nothing.
- Control registers that steer nothing are the one name `other`. The user general
  registers are among them.
- Every word decodes to some instruction of the table, so the illegal-operation
  trap (which the decoder cannot reach) is not a path.
- The devices. Any of them may raise its pin in its data callback and may lower it
  only when it executes an operation; which operation and why is its own
  module's business (`Uart`, `Timer`, `Nvram`). `PinsAsAssumed` checks that the two
  devices of `Devices` do no more than that.
- `Init` is the simulator after `reset` and `goto`; `Debugger` starts without the goto.
- A run ends when `sim_core_update` reports an unwakeable sleep (`halted`).

### The command interpreter

`Debugger` keeps the cycle of `Sim`, call by call, and puts around it what `main` does
between cycles. `cycle N` and `continue` run cycles to their own ends (a negative N counts
down through all the negative ints, practically for ever, and is left out); at the prompt
the user may reset, go to any address, or quit, also between two cycles of one
instruction and while the core sleeps. SIGINT comes at any step: under `continue` it
clears `g_continue` once and is then back at its default, which kills.

`goal` is a history: where the last `goto` sent the core, until the core settles
something there (an instruction, an interrupt or a fault). A goto in a data stall has
no goal, because the stalled instruction completes after it and overwrites pc
(`do_interp_goto` leaves the latch alone). `reset core` and `reset all` are one action:
to the core they are the same, and what they do to devices is in `Devices` and `Uart`.
`load` and `reset mem` change memory words, which are not modelled, any instruction
being fetched anywhere; `read`, `show` and `trace` change nothing a cycle reads.

### The UART

A step is one critical section of a mailbox, or one unlocked read of a shared
field. `rx`, `tx` and `core` say where the receive thread, the transmit thread and
the simulator thread are; `core` goes through one exec operation, the two halves of
the data callback and the register write, each cycle. `mbox_msg_get_wait` is
inlined in the transmit thread: `TxGet`, `TxWait`, then `TxSignalled`,
`TxTimeout` or `TxSpurious`. Its deadline is an absolute time whose fraction is not
taken from the clock, so the wait may be as short as nothing: a timeout is possible
whenever no signal is pending.

Characters are serial numbers, so that loss, doubling and reordering show.
`ExecNothing` stands for the cycles whose operation changes no state of the model:
none, NOOP, TXUSED, RXUSED and reads of registers. Programs write CTL; VAL is data.
The history variables `accepted`, `received` and `sent` are what the host queued,
what the program took and what was written to the host.

`dlist_first` of an empty list returns the list header, and both getters test it
against NULL. The model gives that its meaning: the header is unlinked and freed,
`crashed` is set and nothing follows, since what follows is undefined. The run
`uart` shows that the operations without CLEAR, resets and spurious wakeups never
get there; `uart_rough` checks what holds until then.

### The echo program

`Echo` is the program `tests/sim/test_41.asm` over the steps of `Uart`: each instruction that touches the UART, the enable bit or the wait
loop is an action, made of the operation of `Uart` it executes and of what it does to
the program's registers. A stalled fetch is a cycle without operation. The core is
reduced to when it takes an interrupt: before the instruction at pc, or asleep. The
handler's order (acknowledge, receive, check, send, re-arm, return) is data,
`HandlerCode`, because the hazard is in that order. The character and its answer are
one number (the program adds one), and the last character is `q`.

### The lists

`Dlist` is the pointers: a list is a ring through its header, a node on no list has
null pointers. Each call is a step, since a mailbox makes it under its lock; the caller
keeps the contract of each call (a new node is on no list, a removed one is on one).
A mailbox is posted to at its end and read at its start, a plain list anywhere. Of the
mailbox there is the length beside the list; `Mbox` has the rest and takes the queue
to be a sequence, which `IsQueue` justifies. A get from an empty mailbox hands out the
header (`freed`), after which nothing is said.

### The timer and the NVRAM

A cycle of `Devices` is three steps: the exec callback of the selected device, the
data callbacks of both, the register write of an `mtcp`. Between cycles the user may
give `reset core` (pins only) or `reset all`.

The timer decrements its low word before it looks at it, so a low word of 0 stands
for a whole turn: `Left` says what the two words are worth, and `TimerCountsDown`
compares every cycle with it.

The NVRAM latches address and value of a request and serves it
`CP_NVRAM_DELAY_CYCLES` calls later. The histories `asked` and `shadow` remember the
full address and what the accepted writes make of the image; `WritesApplied` and
`AnswersRequest` compare the answer with them. An address beyond the image is
answered at once, without an interrupt. Programs do not write STATUS, which is
the device's answer to them (an `mtcp` to it would be obeyed). The status "pending" of `cpuspec.txt:1559` is never set by the code and is
not a value of `Status`. `munmap`, the mapping and the odd-length refusal are
initialisation.

### The assembler and the disassembler

`Instructions` holds the table as data. Encoding folds over the format of a row,
decoding is the second, hand-written switch over the opcodes: nothing in the code makes
the two agree, which is what `ImageDecodes` and `RoundTrip` are about.

A step of `Asm` is one turn of the loop of a pass: `LabelsOrg`, `LabelsPlain`,
`LabelsAppend` in `generate_labels`, the `Opcodes...` actions in `generate_opcodes`. A
line is what `splitline` makes of it; an operand is the character it starts with and a
number or a label with the part (`.h`, `.l`) asked for. `find_offset` is modelled with
its -1, which is shifted and masked like an offset. `where` remembers the location
counter of the second pass at each line, so that labels, branches and words can be
compared with the lines they come from. An unknown operation is matched with the
syntax of an earlier line (or with an uninitialised pointer) before it is refused; the
model has the refusal. Lines that lack an operand make the program follow a null
pointer and are not among `Sources`.

Numbers are what `strtol` returns, a long; the code puts it in an `int` before it looks
at it (`asm.c:212`, `343-344`, `371-449`), and so does the model: `AsInt`. So `ba
#0xFFFFFFFF` is `ba #-1`, `ba #4294967296` is `ba #0`, and `.org 0xFFFFFFFF` is `.org -1`.
The location counter of the second pass is tested when it grows beyond `offset_max` and
at no other time. A line that emits a word while the counter is outside `outbuf` writes
outside it, which is undefined: `OpcodesWild` ends the model there. The unsigned counter
of the first pass is given as the int of the same bits, and the difference in
`find_reloff`, which may overflow where such a counter is involved, wraps as it does in
the build.

`Toolchain` runs the assembler, gives its image to the disassembler and what that
prints to a new assembler, as the `tests` target of the Makefile does.

## Runs

| Run | Instance | Shows |
|---|---|---|
| `sim` | 2 addresses, 1 line, 2 enable bits, every instruction class, memory covers the address space, delay 1 | types, buses, fetch address, sleep, confinement, load link, and that the core implements `Isa` |
| `debugger` | 2 addresses with a memory of 1 word, 1 line, loads, coprocessor operations, rfi, mtctl, sleep; `cycle` 0 or 1 | the user between any two cycles: goto is obeyed, buses stay in order, stalls end, interrupts are taken, the prompt returns |
| `uart` | `FIFO_LEN` 2, 2 characters each way, interrupts, no CLEAR, reset or host errors | conservation, honest STATUS, no empty get, draining, interrupts, termination |
| `uart_rough` | `FIFO_LEN` 2, CLEAR, resets, spurious wakeups, failing reads | bounds, no character twice |
| `echo` | `FIFO_LEN` 2, 5 characters in, 4 answers | end to end: every character is taken, answered at most once and in order |
| `devices` | timer words of 3 values, NVRAM words of 2, an image of one word, delay 3 | the count across both words, the NVRAM's handshake, latching and answers, the pins |
| `dlist` | 2 mailboxes, a plain list, 4 nodes | rings, owners and lengths agree; the lists are the sequences of `Queues` |
| `toolchain` | all programs of 3 lines out of 23 kinds, every instruction with operands at, and one beyond, both ends of their ranges and beyond an int, 9216 words of data | where the buffer may be left, agreement of the passes, branch targets, decoding, round trip |
| `stale_status` | interrupts raised by mtctl | violation, see below |
| `uart_clear` | SEND, RECV, CLEAR | violation |
| `nvram_error` | an image of one word, reads with the interrupt enabled | violation |
| `echo_exit` | one character, `q` | violation |

Bounds. An address matters to the core only by being equal to another, the last
(where pc wraps) or beyond memory: two addresses give the first two in `sim`, and in
`debugger`, where the second lies beyond memory, the third. One interrupt line shows
every interleaving of raising, masking and taking; which of several is taken first is
not asked. The second enable bit is one no line stands behind. `MEMIF_DELAY` is 1 as in
the source: a request seen, a cycle waited and an answer. The counter is one value in
the runs: nothing reads it but a program's mfctl, which moves data. `debugger` has one
class of instruction for each way through the cycle (completing at once, stalling on
data, using the coprocessor bus, returning, unmasking, sleeping); a branch goes where
a goto goes. `MaxSteps` 1 is a `cycle` that runs and, with 0, one that does not; more
of them is the same command again. In `echo` five characters are two boxes and one:
enough to fill the box in front of the handler, while it runs and after it. For the UART, two characters and two places are
enough for a full box, an overtaking and a doubled character; switching the FIFO off
leaves one place. A timer word of three values has one that neither wraps nor
borrows. A delay of 3 has a cycle that is neither the first nor the last, for an
operation or a reset to fall into. `RxChars` and `TxChars` bound the histories only.

For the assembler, the offsets of `.org` are the ends of a relative branch's reach
(127, 128, 129) and of the buffer (65534 to 65536), and two that are negative as an int,
one written so and one too large for an int; three lines are enough for a label, a jump of
the location counter and a use, in any order. An int ends at 2^19 in the run and at 2^31
in the code: TLC's own integers end at 2^31, and the model needs twice an int; 2^19 holds
every word and every offset with the reach of a branch, which is all that `AsmAssumption`
asks. Words of data cover every opcode with every low byte and every first field, four
to an image; images of up to `MaxDump` words are disassembled.

Data faults. `PHYSMEM_NUMWORDS` is 65535 and the test is `addr > memlen`, so with
the shipped `sim.c` no 16-bit address faults (and index 65535 lies one past the
array). `debugger` has a shorter memory: the fault paths are those of a shorter memory, which `sim_memif_init` takes
as a parameter, and of the inputs `sim_core_test.c` gives the core directly.

Interrupts and STATUS. `Isa` promises precise interrupts only to programs that do
not raise the interrupt enable bit with mtctl: `QuietStatus` holds the values such
programs write. What happens otherwise is `stale_status`. Returning from a handler
(`rfi`) raises the bit in the same latch and is part of the promise.

Deadlock. Runs of the simulator stop at an unwakeable sleep or at `quit`, runs of the
UART when the user quits or a list header is freed, so do those of `Echo` and `Dlist`,
and the tools end, so those configurations say
`CHECK_DEADLOCK FALSE`; the devices never stop, and `devices` checks that.

## Fairness

`Sim`: weak fairness of `Next`, the loop of `do_interp_continue`, which calls
`cycle()` as long as it returns zero. Nothing is assumed of the devices: they may
never raise a pin, and may lower one by an operation of the program.

`Debugger`: weak fairness of the loop of `cycle` and `continue` (`RunLoop`). No command
and no signal is ever forced, and liveness says what happens while the core runs: a
user who stays at the prompt stops everything, hence the exception in the properties.

`Uart`: weak fairness of each of the three threads and of the join, the host's
scheduler. Nothing forces a character to arrive while the receive thread polls
except that thread's own steps, a wakeup without a reason, or the user to quit:
`Quit` is not fair. Liveness properties of the UART name the quit as an exception
where it is one. (`RxThread` has no step while it polls an empty line; a poll
that times out and polls again is a stutter.)

`Echo`: the same threads and the cycle, weakly, and strong fairness of `Progress`, an
instruction or the interrupt in its place: between two of them lie the cycles of a
stalled fetch, each of which disables it until the cycle ends. That stalls end and
interrupts are taken is what `debugger` shows of the core.

`Devices`: weak fairness of the cycle's three steps, the same loop; the user need
not reset.

## Disagreements with the documents

1. `stale_status`: a pending interrupt is taken before the latch is loaded from
   STATUS (`sim_core.c:200`, `223`), so the mode saved is that of before an mtctl
   that raised the enable bit. `cpuspec.txt:156` wants the mode prior to the interrupt.
2. `uart_clear`: CLEAR counts one box and drains the other
   (`sim_cp_uart.c:317-318`), and an empty box yields its header (`mbox.c:48`).
3. `nvram_error`: an address beyond the image is refused at once, with the error status
   and without the interrupt (`sim_cp_nvram.c:199`, `215`) for which
   `cpuspec.txt:1558-1561` tells the program to wait.
4. `echo_exit`: the wait loop of `tests/sim/test_41.asm:17-20` tests r6 after its sleep;
   an interrupt taken in between sets r6 unseen, and the program sleeps on.

Smaller ones, without a run:

- a data fault changes the latch after it has been used (`sim_core.c:709`, `731-734`):
  mode, enable bit and EPC stay, against `cpuspec.txt:155` and `161`. The shipped memory
  length lets no access fault;
- an instruction fault that ends a stall leaves `instr_stall` set (`sim_core.c:187`), so
  that update stalls where it should enter the handler, and the fetch starts over for
  ever: a pending interrupt is then never taken either. `StallsEnd` and `InterruptsTaken`
  except it (`FaultAfterStall`);
- a data fault leaves the request up with nothing stalled on it. The interface serves it
  again and again and refuses it each time (`BusesKept`), until the next access or a reset
  replaces it; a load that follows at once may find its delay half run down, and is
  answered that much sooner;
- `! cpmask & umcpen` (`sim_core.c:530`, `546`, `562`) is never true, so that a user
  program may use every coprocessor, against `cpuspec.txt:548`;
- an NVRAM address is tested in full, against the length in bytes, and then kept in 16
  bits (`sim_cp_nvram.c:193-195`): beyond 65536 bytes a request for a high address is
  served at a low one, against `cpuspec.txt:1560-1561`. `NarrowImage` excludes it;
- after `reset` nothing is fetched until a `goto` (`sim.c:376-384`), where
  `cpuspec.txt:694-697` describes a reset that starts the program; a `goto` in a data
  stall is overwritten when the stalled instruction completes, and prints an
  uninitialised variable (`sim.c:468`);
- an access is served at the address that is on the pins when the delay is over, where
  `todo:41-42` would have the one it began with;
- what waits in the transmit box when the user quits is never written;
- `reset all` empties the UART's boxes and leaves `rx_raised` set: a program started
  again is not interrupted until it re-arms;
- the lowest interrupt line is taken first where
`cpuspec.txt:185-187` speaks of the leftmost bit;
- the counter stands still while the core sleeps although `cpuspec.txt:102` counts every
  cycle;
- opcode 01110 is `sleep` in the table and `lhswp` in `cpuspec.txt:220`,
  `instructions_test.c:116` and `tests/asm/asm_top.asm:85`;
- `.data` asks for "[@|#|%]" (`asm.c:319`) and refuses `%`; a label that is not found is
  reported as an error (`asm.c:265`) and, in an absolute operand, assembled to all ones
  nevertheless; an image that fills the buffer to its last word is refused as too long
  (`asm.c:477`);
- `.org -1` or `.org 0xFFFFFFFF` makes the next line write `outbuf[-1]`: the address is not
  tested (`asm.c:343-344`), only a counter that grows is (`asm.c:475-477`), and the length
  the caller passes is not looked at (`todo:13`, "honor outbuflen in generate_opcodes").
  `OutbufBounded` says that this is the only way out of the buffer;
- a number too large for an int is not refused but cut (`asm.c:409-410`, "FIXME: check for
  oversize values").

## Proofs

`SimProofs` proves, for every value of the constants that satisfies
`SizesAssumption`, `ProgramAssumption` and `DeviceAssumption`:

| Theorem | Property | Argument |
|---|---|---|
| `TypeCorrect` | `TypeOK` | inductive as it stands; one lemma for each half of the cycle |
| `FetchesPcAlways` | `FetchesPc` | `FetchInv` |
| `OneCycleOnBusAlways` | `OneCycleOnBus` | with `WakeInv` |
| `SleepsWakeableAlways` | `SleepsWakeable` | `WakeInv` |
| `NoStrayAccessAlways` | `NoStrayAccess` | `BusInv`, under `MemoryCovers` |
| `UserConfinedAlways` | `UserConfined` | `ModeInv` |
| `NoAbandonedAccessAlways` | `NoAbandonedAccess` | `AccessInv` |
| `LinkDisciplineAlways` | `LinkDiscipline` | `LinkInv`, under `MemoryCovers` |

Why strengthenings are needed: each property speaks of one place in the cycle,
and the latch carries the reason it holds to another.

- `FetchInv` drops the stage from `FetchesPc`: whenever the core is awake with no
  data stall its fetch is up, not only when exec is about to read the answer, since
  every step from update to the next exec has to carry it there. (`Awake` excludes a
  data stall, which withdraws the fetch, and the trap that ends a sleep brings both
  back at once.)
- `SleepInv` and `WakeInv`: a sleeping core has SLEEP in its latch, or the trap that
  ends the sleep, no instruction stall, and nothing on the coprocessor bus. The
  sleeping path of update returns before the label that releases the bus, so that the
  bus is released there has to be known from the sleep's beginning.
- `BusInv` follows a data request from the exec that raises it, through the answer,
  to the update that drops it, and keeps the data and instruction stalls apart. It
  needs `MemoryCovers` (no address lies beyond the memory, as in the shipped
  configuration), because the fault path leaves the request up; `debugger`, with a
  shorter memory, therefore checks `BusesKept`, which says what such a request is.
- `ModeInv` ties the latch to the mode: once a user program's instruction has been
  decided, the latch is neither CTLUP, RFI nor SLEEP, and a latched STATUS that leaves
  user mode belongs to a trap. A stalled access keeps its latch over many cycles, and
  a sleeping core is in supervisor mode.
- `AccessInv`: a request is withdrawn only by a core that has decided on an answered
  fetch or acts on an answered access, and an interface that has answered is at rest.
- `LinkInv`: a latched STATUS with the link up is that of an `ll`, or of a core whose
  link is up already. STATUS is latched in exec and loaded in every update the access
  takes, and the traps and returns in between have it down.

Each invariant was checked by TLC on these instances before it was proved (`BusInv`
where memory covers the address space).

`SimProofs` also proves `ImplementsIsaAlways`, that `Spec` implies `ImplementsIsa`, from the
same assumptions, `MemoryCovers` and `QuietWrites` (`mtctl` does not raise the interrupt
enable bit; `stale_status` shows what it does otherwise). The refinement mapping is
the one of `SimProps`: the control registers without the load link. Its invariant,
`PromiseInv`, says that a decision in the latch, applied to the registers as they are
now, is a step of `Isa`: a trap's latched STATUS is what entering a handler makes of
the present one, its return address is `pc` or the next, and the reason for it still
stands (the line of an interrupt may fall only in a cycle with an operation on the bus,
and the cycle that takes an interrupt has none); a `rfi` returns to the present EPC; an
access that is stalled for many cycles keeps the mode. A latch without a decision (a
fetch stall, a sleep) holds the present mode whenever interrupts are enabled, because
an interrupt is put on top of it without loading STATUS again. Then each path of
`sim_core_update` is one action of `Isa` (`UpdateRefines`), every fetch, exec and data
access a stutter, and the coprocessors' calls move the pins.

`DebuggerProofs`, from the assumptions of `Sim` alone, with faults:

| Theorem | Property | Argument |
|---|---|---|
| `GotoLandsAlways` | `GotoLands` | `GotoInv`, `ResetInv` |
| `BusesKeptAlways` | `BusesKept` | `PinsInv`, `DataInv`, with `WakeInv` and `DozeInv` |

Every step of `DebugSpec` is a call of the cycle, for which the lemmas of `SimProofs`
serve, a reset (`PoweredOn`), a `goto`, or nothing to the core. `GotoInv`: until the
instruction at the goal is decoded, `pc` stays there and nothing but a stall or a
sleep is in the latch. `ResetInv`: a core reset and not told where to go has no fetch
up, no answer, and stalls until it is told. `DataInv` is what is left of `BusInv` when data
may fault: a request is up for a stalled access, for one the latch is about to carry out
(`Accessing`), or is one beyond the memory, and only such a one is ever answered by a
fault, so that the request a fault leaves is refused again each time it is served.

`DevicesProofs`, from `DevicesAssumption`:

| Theorem | Property | Argument |
|---|---|---|
| `DevicesTypeCorrect` | `TypeOK` | `TimerType`, `NvramType`, one lemma per callback |
| `TimerCountsDownAlways` | `TimerCountsDown` | from the types alone, by the case of the low word |
| `PinMeansAnswerAlways` | `PinMeansAnswer` | `Handshake`: STATUS is idle while a request is pending, so that the pin cannot be up then |
| `WritesAppliedAlways` | `WritesApplied` | `RequestInv`, under `NarrowImage` |
| `AnswersRequestAlways` | `AnswersRequest` | `RequestInv`, under `NarrowImage` |
| `PinsAsAssumedAlways` | `PinsAsAssumed` | action by action, from the types |

`RequestInv` says that the latch holds the address asked for, and that serving the
pending write now would make the image the history's. It needs `NarrowImage`
(`datalen <= WordMod`: 65536 bytes in the code), because beyond it the latch cuts the
address and another word is served. `PinsAsAssumed` is what the model of the core takes
for granted of every device, so the theorem joins the two models for these two.

`UartProofs`, from `UartAssumption`:

| Theorem | Property | Excludes | Argument |
|---|---|---|---|
| `UartTypeCorrect` | `TypeOK` | nothing | `UartType` |
| `BoxesBoundedAlways` | `BoxesBounded` | nothing | `BoundInv` |
| `StatusHonestAlways` | `StatusHonest` | nothing | `StatusInv` |
| `SentOnceAlways` | `SentOnce` | nothing | `SentInv` |
| `TxConservedAlways` | `TxConserved` | CLEAR, resets | inductive once `NeverDiscards` holds |
| `RxConservedAlways` | `RxConserved` | failing reads | `Passed`, `FreshInv` |
| `NoEmptyGetAlways` | `NoEmptyGet` | CLEAR, resets, spurious wakeups | `GetInv` |

- `UartType` adds to the types that the transmit thread is counted as a waiter exactly
  while it waits, that no more are signalled than wait, and that a character to be
  posted has a serial number left.
- `BoundInv` carries a length from its reading to the post: the one thread that adds
  to a box is the one that has read the length, and the others only shorten it.
- `StatusInv` is the mirror image for the program: nobody else takes from the receive
  box or adds to the transmit box, so that what STATUS says can only become more true.
- `SentInv` orders what is written, being written and waiting, pairwise: a drain takes
  out of the middle of that order and keeps it.
- `FreshInv`: the character at hand is newer than all accepted ones. A read that is
  interrupted breaks it (the old character goes on), hence the hypothesis.
- `GetInv`: a box that has been counted or has signalled its reader still holds a
  message when the reader comes, because the reader is the only one who takes. CLEAR
  and resets are a second reader of the transmit box.

`EchoProofs`, from `UartAssumption` and `EchoAssumption`, for boxes of any length and any
number of characters, proves `EchoesInOrderAlways`: unless `read()` fails, `EchoSpec`
keeps `EchoesInOrder`. Every step of the program is one of the UART (`EchoSteps`), so that
the invariants of `UartProofs` hold of it, and `EchoInv` is added to them. Its
`InterruptInv` says that the handler is entered for a character that is there, and that
no interrupt is raised for another before it has taken this one and re-armed: the line
is up only with the raised flag and a character in the box, the flag comes down only at
the label `reset`, and the program is the only one who takes. Its `AnswerInv` says that VAL
holds the newest character taken, and that it is newer than every character answered
between the `recv` that took it and the answer. That a taken character is newer than the
one before is `Passed` and `FreshInv` of the UART; that answers are written in the order
they are posted is `SentInv`. An interrupted `read()` posts a character again, hence the
hypothesis.

`CodecProofs`, about the table and the two directions of the codec, with no assumption:

| Theorem | Says |
|---|---|
| `EveryWordDecodes` | each of the 65536 words is decoded to a row of the table, with fields its operands can have; the illegal-operation trap of the core is not reachable through the decoder |
| `Assembled` | the decoder reads from an assembled word the operation, and of each operand what its width leaves of it |
| `OperandsComeBack` | operands in range come back as they were |
| `Reassembled` | a word assembled from a decoded one decodes the same |

The encoder folds over a format, so its value is first computed row by row: `Layout` lists
the formats of the table, each is unrolled to at most three shifts, and the decoder's
divisions are undone opcode by opcode. The table itself is never searched: `WellPlaced` says
at which index the row of a pair of codes stands, so that `resolve_nmemonic` finds it.

`AsmProofs`, from `AsmAssumption` (an int holds every word, and every offset in the buffer
with the reach of a branch), `SourcesAssumption` (lines have the operands their
operation asks for, each a label or any number, whatever its size and sign) and
`ToolchainAssumption`, for the assembler and every set of sources; the last
three are about `Toolchain`, where the source of the second assembly is what the
disassembler has printed:

| Theorem | Property | Argument |
|---|---|---|
| `AsmOutbufBounded` | `OutbufBounded` | `Types`: between lines the location counter is at most `offset_max`, which is below `MAX_WORDS`; `Strays`: below zero, it was taken there by the last `.org` |
| `AsmLabelsAgree` | `LabelsAgree` | `FirstPass`, `SecondPass` |
| `ImageDecodesAlways` | `ImageDecodes` | `ImageInv`, `Assembled`, `OperandsComeBack` |
| `BranchesLandAlways` | `BranchesLand` | the same, for `MAX_WORDS >= 1023` |
| `RoundTripAlways` | `RoundTrip` | `DumpInv`, `EveryWordDecodes`, `Reassembled` |

`FirstPass` says that there is a walk through the source, giving each line a location
counter, that the pass has followed so far, and that the list of labels is the defining
lines of that walk in their order (`Marks`). `SecondPass` says that the second pass
follows the same walk. The walk is a witness of the invariant and not a variable, so
that `Asm` needs no second history.

`ImageInv` adds what the buffer holds: a word for every line that no later line was put
on top of (`Image`), each between 0 and 65535 and at an offset in the buffer, and, when the pass has ended, a step of
`where` for every line. `ToolInv` adds, once there is a printout, that the source is that
printout line by line, that no line of it is refused, and that word `n` of the second image is
that of line `n` (`Printout`). An operand of the printout is in range because
the decoder's fields are, which is `EveryWordDecodes`, and an int keeps it (`FitsInInt`).
In `BranchesLand` a difference that wraps comes out far beyond any branch (`IntWraps`). It needs the buffer to be
longer than any branch, because a label that is not found is the offset `MAX_WORDS + 1`
and refused by the range test alone (the code has 65536 words, and the widest relative
operand ends at 1023).

`DlistProofs`, from `DlistAssumption`, for any number of nodes, lists and mailboxes:

| Theorem | Property | Argument |
|---|---|---|
| `WellLinkedAlways` | `WellLinked` | inductive with its types; one lemma per pointer operation, one per call, and `MembersChange` |
| `IsQueueAlways` | `IsQueue` | `RingInv`: what the links run through; `StepImplemented`, call by call |

`Linked` says of each cell that both neighbours point back and lie on the same list, so
that a step that rewrites four pointers disturbs only the cells it names. `MembersChange`
counts: a node that changes its owner takes one from a list and gives one to another,
which ties the length of a mailbox to its list.

The mapping to `Queues` follows the links from a header, which no step of a proof can do
for a list of any length. `RingInv` says instead that there are sequences, one for each
list, that the links run through position by position (`Along`), and that every node that
has an owner is in one of them (`Placed`). `RingDescribes` shows once that such sequences
are what the mapping gives: by least counterexample from the end of a list
(`ChainSuffix`), some function doing what the recursion says (`SomeFollows`). After that
a call is compared with a sequence operation: `RingInsert` and `RingRemove` for a node at
any position, from which `InsertionQueue` (an insertion before is one after the node
before), `PostQueue` (before the header is the end) and `GetQueue` (after the header is
the first, or the header itself, and then no sequence changes). The sequences are a
witness of the invariant and not a variable.

Only model-checked: the liveness properties (liveness and ENABLED are outside the
prover's reach).

## Plan

Done: the core, its interfaces, the cycle, the commands, the UART, the echo program on it,
the lists and mailboxes, the timer, the NVRAM, the assembler, the codec and the
disassembler, and the theorems above. Next, in this order:

1. The driver of the NVRAM (`tests/sim`) against `Devices`, as `Echo` is for the UART.

## Not modelled

Printing, tracing and loading files; `sim_physmem.c` and `sim_utils.c`, which the
simulator does not use; `old/`, the previous generation of the tools; the splitting of
assembler text into lines, and the options of the disassembler that select words or
print them as data; the test programs, which are read as statements of intent.
