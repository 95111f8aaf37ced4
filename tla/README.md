# Tiny6410: a TLA+ verification of the drivers and interrupt programs

The repository holds programs for the Friendly ARM Tiny6410 board (Samsung S3C6410, one ARM1176
core): loadable Linux 2.6.38 drivers under `linux/drives`, bare-metal programs under `no-os`, working
copies of them under `workspace`, and vendored trees (the Linux kernel, U-Boot, vendor patches). This
directory models the parts in which several activities meet - interrupt handlers, threads inside a
driver, module loading, hardware FIFOs - because those are the parts a test on the board hardly
reaches.

## 1. Inventory

| Part | State | Operations | Interacts with | Hard behaviour | What makes it correct |
|---|---|---|---|---|---|
| Button driver `linux/drives/button_dev/buttons_dev.c` | `buttons_values`, `action_flag`, wait queue, registered interrupt lines | open, release, read, interrupt handler, module init and exit | pins and latches (interrupts), several threads on one struct file | interrupts between any two steps, sleeping calls in open, lost wake-ups, signals, partial failure of open | lines registered and freed exactly, no event or wake-up lost, no phantom press |
| String device `linux/drives/char_dev/char_dev.c` | buffer, length, `open_use` | open, release, read, write, ioctl, init, exit | several threads on one struct file | copies that sleep in the middle, ignored copy results, count modulo buffer size | no access outside the buffer, no byte read that was not stored, read-back of a write |
| LED drivers `linux/drives/leds_dev/**` | `leds_status`, GPK registers | open, ioctl, read, init, exit | all three drive the same pins | failures in the middle of init, set-up on first open, copies that sleep | LEDs and reads follow the commands, what was registered is given back |
| Module loading of all five drivers | kernel tables of numbers, cdevs, classes, nodes | insmod, rmmod, each registration call | one another (device numbers), open files | failing calls, interleaved loads, freed module memory | nothing left registered, order of release |
| `no-os/interrupt/irq_advanced` | EINT0PEND, GPKDAT, UART0 FIFOs | main loop, key handler | handler interrupts main between any two register accesses | FIFO full, edge during the handler, read-modify-write | every message whole, echo in order, LEDs undone only inside a read-modify-write |
| Echo server and client `linux/linux-example/socket_echo_server` | processes, descriptors, connections, a pending SIGCHLD | accept, fork, echo, SIGCHLD handler; send a line, read, show | clients, kernel | merged signals, inherited descriptors, failing accept and fork, killed processes, restarts | every child collected, every client answered or told, bytes echoed once |
| NAND `no-os/nand` | controller registers, page register and cells of the chip | init, read ID, read and write pages | the chip, which works on its own after a command | command protocol, ready line, failing programs, no erase | pages hold and reads return what the calls say |
| Timer, watchdog `no-os/timer`, `no-os/watchdog` | timer registers, LED flag, I bit of CPSR | init, handlers, main with IRQ disabled around a send | interrupt controller, keys | acknowledge order, masking | nothing lost while masked, no interrupt left waiting |
| MMU, boot, relocation `no-os/mmu`, `relocate`, `start.S` | translation table, memory | table fill, copy and clear loops | - | boundaries of the loops | the map the comments draw |
| UART, stdio, LED, key, buzzer and clock demos | registers | straight-line code | - | - | - |

`PROJECT.json` lists every component with its status, and under `hazards` what is hard to test, with
the line where it bites.

## 2. Modules

| Module | Models | Used by |
|---|---|---|
| `Buttons` | the button driver | `MCButtons`, `ButtonsProofs` |
| `ExclusiveDevice` | what a device for one opener promises (abstract) | implemented by `Buttons` and `CharDev` |
| `MCButtons` | small instances of `Buttons` | runs `buttons_*` |
| `ButtonsProofs` | theorems about `Buttons` | |
| `KeyIrq` | the programs `irq_advanced` and `timer` with their UART, keys and timer | runs `key_irq*`, `KeyIrqProofs` |
| `KeyIrqProofs` | theorems about `KeyIrq` | |
| `CharDev` | the string device | `MCCharDev`, `CharDevProofs` |
| `MCCharDev` | small instances of `CharDev` | runs `char_dev_*` |
| `CharDevProofs` | theorems about `CharDev` | |
| `DriverLoad` | module init and exit of the five drivers | `MCDriverLoad`, `DriverLoadProofs` |
| `MCDriverLoad`, `DriverLoadProofs` | small instances of, theorems about `DriverLoad` | runs `driver_*` |
| `Leds` | load, open, ioctl and read of the three LED drivers | `MCLeds`, `LedsProofs` |
| `MCLeds`, `LedsProofs` | small instance of, theorems about `Leds` | run `leds` |
| `EchoServer` | the echo server, its children and its clients | `MCEchoServer`, `EchoServerProofs` |
| `EchoService` | what an echo service promises a connection (abstract) | implemented by `EchoServer` |
| `MCEchoServer`, `EchoServerProofs` | small instance of, theorems about `EchoServer` | run `echo_serve`, `EchoServiceProofs` |
| `EchoServiceProofs` | the refinement of `EchoService` by `EchoServer`, step by step | |
| `Nand` | the NAND driver and its chip | `MCNand`, `NandProofs` |
| `MCNand`, `NandProofs` | small instance of, theorems about `Nand` | run `nand_calls` |

A definition whose name ends in an underscore and a word (`WakeUp_Missing`, `char_leds_exit_NumberFirst`)
is a deliberately wrong variant of the definition that follows it. No specification uses it; replacing
the right definition by it shows that a property really depends on that piece of code.

### Buttons

The kernel of this board is uniprocessor and not preemptible (`linux/kernel/common/tiny6410_config`,
line 358), so a process in the kernel loses the processor only where it may sleep: in `request_irq`,
`free_irq`, `copy_to_user` and `schedule`. The variable `cpu` holds the process that is between two
such points; the interrupt handler may run between any two steps of anybody.

* open is `OpenStart` (pins to interrupt mode), one `OpenSkip`/`OpenRequest`/`OpenFail` per entry of
  `buttons_irqs`, `OpenUnwind` per line and `OpenEBUSY` on the error path, and `OpenResetValue` per
  entry and `OpenResetFlag` at the end. release is `CloseStart`, `CloseFree` per line, `CloseReturn`.
* read is `ReadStart`, `ReadCheck` or `ReadEAGAIN`, the four steps of `wait_event_interruptible`
  (`WaitPrepare`, `WaitRecheck`, `WaitSchedule`, `WaitResume`), `ReadClear`, one `ReadCopy` per byte,
  and `ReadEFAULT` or `ReadDone`.
* `buttons_interrupt(b)` is the handler; `Edge(b)` is the pin. With the pin in interrupt mode but no
  handler registered the trigger type is what was left in the register, so whether such an edge is
  latched is a free choice.
* `seen`, `missed` and `raced` are history variables: what user space got last, and which events a
  short or faulting read, or the reset in open, threw away. The code does throw these away;
  `NoLostEvent` says that it throws away nothing else.

### KeyIrq

The state starts where `start.S` has called `irq_init` and enabled IRQ and is about to jump to `main`. The
steps of `main` are single register accesses, because the handler may run between any two of them;
the handler runs with IRQ disabled, so only the hardware moves while it runs. A character is the pair of
its sender and its position; a message is reduced to its length. UART0 before `UART0_Set_Format` is
taken as after reset: nothing stored in UTXH0 is sent and the FIFO never reads as full.

`program` chooses between the two programs, which share key.c, uart.c and leds.c line by line.
`no-os/timer` adds the timer (`Tick`, `TimerEnter`, `TimerBlink`, `TimerClear`) and disables IRQ around
PutChar (`MainMask`, `MainUnmask`): `EchoKept` says what that buys, and `key_irq_char_lost` what the other
program pays for not doing it. A tick that comes while its status bit is set is merged with it.

Below the model's granularity: the instructions that enter and leave the handler. `key.c` writes them
as inline assembly inside a C function, and whether the interrupted registers survive depends on the
prologue the compiler generates. The model assumes that they do.

### CharDev

Calls interleave only where `copy_to_user` and `copy_from_user` may sleep, which is between two bytes.
Strings are reduced to lengths and to who wrote each byte. A failing `copy_from_user` fills the rest
with zeros (`WriteFault`), and the code ignores its result. `solo` and `lastWrite` are history
variables that tell whether another call changed the device during a write.

### DriverLoad

Each init function is the sequence of its registration calls, each `Checked` (a failure makes init
return) or `Ignored`; each exit function is the sequence of what it gives back. The actions interpret
these sequences for all drivers at once, one call per step, since every call may sleep. When init fails,
the kernel frees the module whatever still refers to it (`CallFails`); a file opened through a cdev that was added
before the failure is marked `Freed` and not followed any further; the run `driver_dangling_cdev` reports its cause. All drivers ask for a dynamic
device number (`DEVICE_MAJOR` is 0), so the branch with a fixed number is dead code and left out.
Calls through a cdev in freed memory are undefined and not followed; the state that allows them is what
`NoDanglingCdev` reports.

### ExclusiveDevice

Both drivers admit one opener, the button driver because the interrupt lines cannot be shared and the
string device because of `open_use`. `ExclusiveDevice` states it without either: one struct file open at a
time, calls only on it, its release after the last of them. `Device` in `Buttons` and `CharDev` is the
refinement mapping, `ImplementsDevice` the property. A button file counts as open from the moment the last
line is registered until release frees the first.

### Leds

A register is the set of its bits that are 1. The kernel does not preempt, so open and ioctl are one step;
a read is two, because its copy may sleep. `char_udev_leds.c` has the same open, ioctl and read as
`char_leds.c`, and `leds_dev.c` the same ioctl, so one definition stands for all and the driver is a
parameter; each has its own `leds_status`. `told` is the history of the commands in the caller's terms
(LEDs, on and off), written from the comment in front of ioctl; `LedsAsTold` compares it with the bits.

### EchoServer

Processes interleave freely. A connection knows which processes hold it (`holders`): it ends when the last
one closes it, with a reset if unread data is thrown away. `Children` are the entries of the process table,
so zombies use it up. SIGCHLD is one bit; the handler runs between any two steps of main with the signal
blocked. A server that exits or is killed may be started again, while its children go on as orphans:
`bind` then fails unseen and the new server listens where nobody looks (`PortBusy`). As the socket has no
SO_REUSEADDR, `bind` may also fail when nobody holds the port any more but sockets of ended connections are in
FIN_WAIT2 or TIME_WAIT; `Start` leaves that open. Bytes are counted.
`EchoService` is the promise to a connection, with its fairness; `Service` is the mapping: `owed` are the
bytes that wait for the child or are in its buffer, `ready` those that wait for the client. The five
sockets of one `echo_client` are five connections, four of which send nothing.

### Nand

The chip is modelled from how `nand.c` uses it: it takes commands when it is selected and ready, is busy on
its own, loads a page into its register, clears bits of a page when it programs, and may fail to. A byte is
the set of its bits; a page moves in one step, since nothing else runs meanwhile. `want` is what the calls so
far ask of every page; a page whose program failed (`torn`) is not predicted. Callers stay inside the chip
(`NandAssumption`): the code checks alignment only.

## 3. Runs

Passing runs:

| Run | Instance | Shows |
|---|---|---|
| `buttons_open` | 3 entries, the middle one invalid, 2 struct files, 1 reader | `IrqsExact`, `UndisturbedWhileOpen`, `ImplementsDevice`: opens and releases that interleave register and free exactly their own lines, although they all pass the same `dev_id`, leave the table and the flag of an open file alone, and together are an `ExclusiveDevice` |
| `buttons_read` | 2 buttons, 1 file, 2 readers, counts 0, 1 and 3 | `TypeOK`, `NoLostEvent`, `NoLostWakeup`, `ReadHasCause`, `NoPhantomPress` |
| `buttons_live` | 1 button, 1 file, 2 readers | `InterruptServesReader` under `Fairness` |
| `key_irq` | both programs, 2 keys, messages of 2 characters, FIFOs of 2, 3 presses, 2 ticks, 2 characters | `TypeOK`, `MessagesWhole`, `EchoOrder`, `OnlyWindowUndone`, `EchoKept`, `ClearedWereServed`, and under `Fairness` `EchoHappens`, `InterruptsTaken` |
| `char_dev_calls` | buffer of 4, 2 files, 2 threads, 2 contents, counts 0, 1, 3, 4, 5 | `TypeOK`, `ReadsStoredBytes`, `ReadBack`, `ImplementsDevice` |
| `driver_load` | all 5 drivers, 3 device numbers, 1 file | `TypeOK`, `ReleasedInOrder`, `DeviceStays`, `UnloadFrees` |
| `leds` | 3 drivers, 2 threads, 3 ioctl calls with every cmd in 0..2 and arg in 0..5 | `TypeOK`, `LedsAsTold`, `AnswerWasTold` |
| `echo_serve` | 2 clients (one sends, one is idle), 2 process table entries, buffers of 2 bytes, 1 fault besides kills of the server | `TypeOK`, `ZombieNoticed`, `HeldByItsChild`, `ServedToTheEnd`, and under `Fairness` `AnswerOrEnd` and the refinement `ServesEcho` |
| `nand_calls` | 8 pages of 2 bytes and address cycles of one bit, so that all three are needed; 3 calls, 1 failing program | `TypeOK`, `PagesHold`, `ReadIsRight`, `FailuresReported`, `ReadyWhenAddressed`, and under `Fairness` `CallReturns` |

Runs in which the code does not do what its comments or its readme say (quoted under `findings`):

| Run | What happens |
|---|---|
| `key_irq_char_lost` | the handler fills the FIFO between the test and the store of `PutChar`, and the echoed character is dropped (`PutCharKeeps`) |
| `char_dev_long_write` | `count %= 1025` keeps the remainder of a long write, not its first 1024 bytes |
| `driver_dangling_cdev` | a failing `class_create` leaves a cdev that points into the freed module |

The models show more of this kind, which no run is spent on. In `Buttons` open registers the
handlers first and resets the table afterwards, so that a press recorded in between is wiped while the button
is held; an interrupt between the reset
of a value and the reset of the flag in open leaves a value nobody is told about (the set `raced`), and a
signal lets a blocking read go on with the flag clear (`ReadHasCause` says that nothing else does). In
`KeyIrq` an edge that comes after the test of its key is cleared with the others and never served (the set
`late`; `ClearedWereServed` says that no other is); the handler may send before UART0 is set up (`uart_ready` is false), because `start.S` enables
IRQ and only main calls `UART0_Set_Format`; and while main switches the LEDs off one by one, its
read-modify-write of GPKDAT can undo the LED of a key (the set `undone`; `OnlyWindowUndone` says that it undoes only
what is switched between the read and the write). In
`Leds` the first open of a second driver, and every load of `leds_dev.ko`, switch off what another driver
shows. In `EchoServer` a failing accept still costs a fork, and a client whose read fails shows its own line
as the answer. In `Nand` a failed program is only reported. In
`DriverLoad` a failing `cdev_add` leaks the device number of char_dev and goes unseen in the others.

Bounds. Three table entries give the unwinding loop of open a first, a skipped and a last entry; two
files are enough for one to fail because of the other. Two readers cover the race for one event; the
counts cover an empty, a short and an overlong buffer. In `KeyIrq` a FIFO shorter than two messages
makes the handler wait in the middle of a message; `MaxChars`, `MaxPress` and `MaxTick` bound the characters,
key presses and ticks, and three presses over two keys include a key pressed again during its own handler.
In `Leds` three commands let one thread switch, the other switch back and a third change fall into a sleeping
copy; `MaxIoctl` bounds them. In `EchoServer` two table entries can both be zombies, so that one signal stands
for two and fork runs out; a line never exceeds the socket buffer, as 4095 bytes do not on Linux. In `Nand`
`MaxCalls` calls and `MaxFails` failures suffice for a write, a second one over it and a read back. In `CharDev` the counts stand on
both sides of the buffer size. In `DriverLoad` three numbers suffice for three drivers to hold one each and for
leaked numbers to run out. Symmetry is used in safety runs only: over struct files, threads, contents and
device numbers, which the specifications treat alike. No run switches deadlock checking off.

Fairness. `Buttons`: a latched interrupt is taken (weak fairness), and the scheduler runs every
runnable thread again and again; a thread is not runnable while another holds the processor, hence
strong fairness. `KeyIrq`: the core executes instructions and the
transmitter shifts characters out (weak fairness); a pending interrupt is taken in the end although main
disables IRQ again and again (strong fairness: between two sends IRQ is enabled for the whole of a poll, and the
controller keeps the request). `EchoServer`: every process that can run does and pending signals are delivered
(weak fairness), but nobody is assumed to start the server, and clients need not send. `Nand`: the chip ends
what it began and the processor runs. Nothing is assumed of buttons, keys, signals, new
system calls or the other end of the line.

## 4. Proofs

`ButtonsProofs` proves, for every table, every set of struct files and of readers, and every set of
counts: `TypeCorrect`, `IrqsExactAlways`, `OneOpenFileAlways`, `UndisturbedWhileOpenAlways`,
`NoLostEventAlways`, `NoLostWakeupAlways`, `NoPhantomPressAlways`, `ReadHasCauseAlways`, `ImplementsDeviceAlways`. Assumptions: the table is not empty
and has a valid entry, counts are naturals, files and threads are different things.

* `IrqsExact` is not inductive alone: the loop index tells which prefix or suffix of the lines a file
  holds, so `FileInv` adds the range of the index at each point of open and release (`FileIdx`).
  `OneOpenFile` follows because two files past registration would hold the same line.
* `NoLostEvent` and `NoLostWakeup` need that a read in progress keeps its file open (`ReadersOpen`), so
  that open's reset cannot run under a reader; together they are `EventInv`.
* `UndisturbedWhileOpen` follows from both: a second open never gets as far as the reset, and the read that clears
  the flag is on a file that is open, of which there is one.
* `NoPhantomPress` needs the pin, the latch and the table of every registered line (`PinInv`).
* `ReadHasCause` needs that a thread keeps the processor from the test to the clearing (`CauseInv`): on
  this non-preemptive kernel no other reader can take the event in between.

* `ImplementsDevice` needs `OneOpenFile` before and after a step and that calls are on open files; each action
  then is an abstract step or a stutter.

`CharDevProofs` proves `TypeCorrect`, `OneOpenerAlways`, `ReadsStoredBytesAlways`, `ReadBackAlways` and
`ImplementsDeviceAlways` for every buffer size, default string, set of files, threads, contents and counts.

* `OneOpener` is proved through `OpenInv`: the set of open files is empty or a singleton.
* `ReadsStoredBytes` needs `Progress`: what a write has copied so far is stored, and a call starts at
  byte 0. Stored bytes stay stored, so the length a write sets at the end is covered.
* `ReadBack` needs `SoloInv`: a write that is still alone is the only one and has copied only its own
  bytes.

`LedsProofs` proves `TypeCorrect`, `LedsAsToldAlways` and `AnswerWasToldAlways` for every set of threads, number
of calls and state of the other pins.

* `LedsAsTold` needs that the pins are set up and show the commands as soon as some driver was opened or
  `leds_dev` is loaded (`RegInv`), and that `leds_status` is 1 exactly after the first open and open files belong
  to drivers that were (`FileInv`).
* `AnswerWasTold` needs that a read is on such a file (`ReadInv`), and then that what it took was a command
  state; `Tell` only adds to what it may report.

`EchoServerProofs` proves `TypeCorrect`, `HeldByItsChildAlways`, `ZombieNoticedAlways` and `ServedToTheEndAlways`
for every number of clients and process table entries, all line, read and buffer sizes and any number of faults.

* The types need `WriteInv`: a client that writes has bytes left, a child that writes has a connection.
* `HeldByItsChild` needs `QueueInv`: a connection waits for accept at most once, and while it waits nobody holds
  it. Otherwise `Accept` could hand out a connection that another child serves.
* `ZombieNoticed` is inductive with the types. `ServedToTheEnd` is a property of single steps of typed states.

`EchoServiceProofs` proves `ServesEchoSafely`: `EchoServer` implements `Service!Safety`, which is `EchoService` without
its fairness, for the same constants. Every action is one abstract step or a stutter: `ClientWrite` is Send,
`ChildWrite` is Echo, `ClientRead` is Take, `Connect` is Connect, and whatever closes descriptors is the End of the
connections that lose their last holder (`ClosesStep`).

* `ServeInv`: one child serves a connection, so that the bytes of a connection are those in one buffer; a child has
  bytes exactly while it writes; between accept and fork only the server holds the connection. The last part is
  what keeps a second child from being forked for a connection that has one.
* `LinkInv`: a connection that nobody holds and that does not wait for accept has nothing to read and its client
  has been told, and a client that is gone has nothing on its way back. Without it a client that connects again
  could find the bytes of its last connection.
* The connection whose child is gone but which the server has still to close (`Unserved`) counts as ended; the proof
  of `ChildEnds` shows that those are the only two ways a child leaves its connection.

`DriverLoadProofs` proves `TypeCorrect`, `ReleasedInOrderAlways`, `UnloadFreesAlways` and `DeviceStaysAlways`
for every set of device numbers and of files. The five drivers and their call sequences are those of the code.

* The sequence position is the key: `CallInv` bounds it by the length of the init or exit sequence, and `NumberInv`,
  `CdevInv`, `MiscInv` and `ClassInv` say what is registered at each position. `ClassInv` has to be an equivalence (the
  class exists exactly between the third call of init and the second of exit), because a node may only be created
  under a class that is there and the class may only go when the node has.
* `DeviceStays` needs `StayInv`: which registrations are certain (only char_dev looks at the result of `cdev_add`), that
  a driver with an open file is not going and has its device, and that a driver that has not got a number stores none,
  so that a cdev left by a failed load is not taken for its own. An exit removes cdevs by number; `NumberInv` and
  `CdevInv` say that the number it uses is still its own.

`KeyIrqProofs` proves `TypeCorrect`, `OnlyWindowUndoneAlways`, `ClearedWereServedAlways`, `EchoKeptAlways`,
`MessagesWholeAlways` and `EchoOrderAlways` for every number of keys, depth of the FIFOs, length of the messages and
number of presses, characters and ticks.

* The types need `LoopInv`, where the loops of main and of the handler are.
* `OnlyWindowUndone` needs `WindowInv`: the value main is about to write back is right for every LED but its own and
  those a handler has switched since the read.
* `ClearedWereServed` needs `ServedInv`: every latched key the handler is past was served or came late.
* `EchoKept` needs `MaskInv`: while main has IRQ disabled no handler runs, so the room PutChar has seen is there when
  it stores. This is exactly what `irq_advanced` lacks (run `key_irq_char_lost`).
* `MessagesWhole` is inductive together with the types and `ReadyInv` (nothing is in the transmit FIFO before UART0 is
  set up): what the handler sends until then goes nowhere, and leaves no half of a message in the FIFO.
* `EchoOrder` compares neighbours in the receive FIFO, which does not survive taking one away: `RxInv` sorts it
  altogether. `ReadyInv` and the place of the greeting in `TxInv` keep the greeting in front of every echo.

`NandProofs` proves `TypeCorrect`, `FailuresReportedAlways`, `ReadyWhenAddressedAlways`, `PagesHoldAlways` and
`ReadIsRightAlways` for every page size, number of pages, width of an address cycle, buffer, contents and sequence of
calls and failing programs, from `NandAssumption`: three cycles suffice to number the pages, and callers stay inside
the chip and inside their buffer.

* The arithmetic comes first: three digits to a base name every number below its cube (`Digits`), so the address
  cycles reach the page that `addr` is in (`AddressReaches`), and aligned addresses are whole pages apart.
* `ControlInv` ties what the chip does to where the driver is, `LoopInv` ties `addr`, the pointer and the row; with them
  every command is taken (`CommandTaken`) and the pointer never leaves the buffer. `ReportInv` allows one failure that is
  still to be reported.
* `PagesHold` and `ReadIsRight` say nothing inside a call. `CellsInv` does: a page holds what was asked for, or a program
  is `Pending` for it that will make it so. `ReadInv` says which pages of a read are in the buffer, `RegisterInv` what
  the page register holds meanwhile.

Only model-checked: the liveness properties (`InterruptServesReader`, `EchoHappens`, `InterruptsTaken`, `AnswerOrEnd`,
`CallReturns`) and the fairness that `ServesEcho` adds to `Service!Safety`, since the prover has neither fairness nor
ENABLED; and the violations, which are counterexamples. Every invariant and every action property of the passing runs is
also a theorem. TLC has checked each inductive invariant on the instance of its run before it was proved.

## 5. Not modelled

The vendored trees (kernel, U-Boot, vendor patches), which are all but a few thousand of the repository's
fourteen million lines: what the programs use of them is modelled as their environment. Where such a step is a kernel function
(`wait_event_interruptible`, `alloc_chrdev_region`, `misc_open`, the end of a process), the map names its lines under
`linux/kernel/linux-2.6.38`. Formatting and
`printk`. Clock, SDRAM and MMU set-up and the boot code: constant register writes and table fills that run once,
alone. The watchdog program and the earlier interrupt programs, which repeat the structure of the two that are
modelled. The demonstration programs without interaction, and the copies under `workspace`. In `irq_advanced` and
`timer`, the functions nobody calls.

## 6. Plan

Done so far: `Buttons`, `CharDev`, `DriverLoad`, `KeyIrq` with the timer program, `Leds`, `EchoServer`, `Nand`, the
abstract `ExclusiveDevice` and `EchoService`, and the theorems of section 4.

Next, in this order:

1. What the liveness properties rest on that is safety: for `InterruptServesReader` and `AnswerOrEnd`, that no state short of
   the goal is stuck.
2. Theorems that state how much is lost where the code does lose something: what `raced`, `missed`, `late` and `lost` can
   hold.
