# A TLA+ model of the USB armory firmware

This directory models the concurrent and fault-prone parts of the repository
(bare-metal Rust for the USB armory Mk II, an i.MX6UL board with one Cortex-A7
core, and the tools of the host) in TLA+. TLC checks the models on small
instances; TLAPS proves some of the results for every instance.
`PROJECT.json` lists, in a form programs can read, the components, the runs, the
code lines each definition stands for, the hazards and the theorems.

Paths below are relative to `src/`.

- [The system](#the-system)
- [What is modelled](#what-is-modelled): RTIC, the logger, the eMMC driver, storage and
  files, the USB device, the drivers shared by contexts, the serial downloader
- [What the runs found](#what-the-runs-found)
- [What is proved](#what-is-proved)
- [What is not modelled](#what-is-not-modelled)
- [Plan](#plan)
- [Running the checks](#running-the-checks)

## The system

The firmware runs on one core without an operating system. Concurrency has three
sources: interrupt handlers that nest by priority, peripherals and DMA that run
beside the core, and devices at the other end of a bus (a flash card, a USB
host). The host side is a set of command line programs.

| Component | State | Operations | What is hard | What makes it correct |
|---|---|---|---|---|
| **RTIC runtime** (`firmware/cortex-a-rtic`) | per task a free queue `FQ` and `INPUTS` slots, per level a ready queue `RQ`; a `Priority` cell per context; the GIC's priority mask `GICC_PMR` | `lock`, `run`, `spawn`, the dispatchers, `pre_init`, `post_init` | preemption between any two steps; one mask shared by nested handlers; queues with two producers or a lock-free consumer | critical sections exclude each other; the mask is put back; no message is lost, duplicated, overwritten or reordered; every task that can start starts |
| **In-memory logger** (`firmware/memlog`, `usbarmory/src/lib.rs`, `panic-serial`) | two ring buffers with counters modulo 2^32, one for `main`, one for interrupts | `log`, `peek`, `memlog!`, `memlog_try_flush`, `memlog_flush_and_reset`, `reset` | handlers log in the middle of a flush; wrap-around of buffers and counters; a full ring; a panic during a flush; a reset without a flush | the rings are byte queues; a flush before a reset leaves nothing behind; what is logged is eventually sent |
| **eMMC driver** (`usbarmory/src/emmc*`) | controller registers, card state, the transfer under way, the caller's block | `take` (boot sequence), `read`, `write`, `send_command` | controller, DMA and card run concurrently; status bits outlive commands; timeouts, damaged and missing responses, late data | a block store: Ok means read or written, an error leaves nothing behind that disturbs a later call; every call ends |
| **Block devices, partitions** (`usbarmory/src/storage.rs`) | MBR entries, the extent of a partition | `PartitionTable::add`, `create`, `open`, read and write of a partition | boundaries of extents, arithmetic in `u32` | partitions do not overlap, lie in the device, and confine their owner |
| **File system wrapper** (`usbarmory/src/fs.rs`) | littlefs state, two `RefCell`s, open files | `mount`, `open`, `create`, `read_dir`, `close`, the `_and_then` closures, the storage adapter | errors in closures and destructors, partial writes, power cuts | every file is closed once, errors are reported, what was reported stays |
| **USB device** (`usbarmory/src/usbd*`) | endpoints, queue heads and transfer descriptors shared with the controller | `alloc_ep`, `enable`, `poll`, `read`, `write`, `reset`, `set_stalled` | descriptors owned by two parties, SETUP tripwire, bus reset during a transfer | every completion is reported once, in order; no descriptor is lost; control transfers progress |
| **Crypto engine** (`usbarmory/src/dcp*`) | initialisation and in-use flags, channels, the context buffer | `new_otp`, `new_unique`, `encrypt`, `Sha256::take`, `input`, `result`, `reset` | lazy initialisation under preemption, channels shared by drivers | one user per channel; hashing does not depend on how input is chunked |
| **Singletons** (`serial.rs`, `led.rs`, `macros.rs`, the PAC) | NEVER/TAKEN/FREE flags, registers shared by owners | `take`, `release`, `write`, `listen`, `on`, `off`, `toggle` | take and drop under preemption | at most one owner; no lost register update |
| **Clock, RNG** (`time.rs`, `usbarmory-rt/src/rtc.rs`, `rng.rs`) | a counter in two registers; FIFO level, error state | `Instant::now`, `elapsed`, `wait`, `next_u32` | two-register reads of a running clock; errors of the entropy source | time never goes back; a word is delivered once |
| **Reset code and IRQ dispatch** (`usbarmory-rt`, `cortex-a`) | vector table, stacks, GIC | reset, `IRQ` | nesting, end of interrupt | each interrupt runs its handler; covered by the RTIC model |
| **I2C, board set-up** (`usbarmory-rt/src/lib.rs`, `i2c.rs`, `leds.rs`, `serial.rs`) | the I2C bus and controller, the USB-C controller FUSB303, the UART | `start`: write and read back a register of the FUSB303, set the serial port up | order of bus operations, error paths, status bits left by the start before | `main` runs only with everything set up and the bus free |
| **Exception handler** (`exception-reset`) | none | its message, reset; what the logger holds is not flushed | an exception at any moment | the logger's queues lose only what they had not sent |
| **Register definitions** (`imx6ul-pac`, `cortex-a/src/register.rs`) | none | volatile accesses | | generated code |
| **Serial downloader client** (`host/usd`) | state of the exchange of HID reports, reports still to be read | `write_file`, `dcd_write`, `write_memory`, `read_memory`, `jump_address`, the runner's console thread | short reports, timeouts, thread shutdown | a run that reports success has started its own program |
| **Boot images** (`host/image`) | none | `from_elf`, `write`, parse | offsets that only comments tie to the linker scripts | the program is where it was linked |
| **Register code generator** (`host/txt2rust`), **USB echo client** (`host/usbc`), **constants, stubs** (`common`), **examples** | none | batch programs, data | | outside the model |

Interactions: RTIC runs the handlers of every driver, and its locks are what
makes a driver's state private to one task at a time; the panic handler
and the fatal paths of `emmc.rs` and the USB driver end in `memlog_flush_and_reset`, the
exception handler and the program itself in `reset`, which flushes nothing; the file system
calls a block device through `storage.rs`, and the block device is a partition of
the eMMC card; USB, serial and the crypto engine are reached through singletons.

The hazards, each at the line where it bites, with the properties that would
catch it, are in `PROJECT.json`.

## What is modelled

| Module | Role |
|---|---|
| `Rtic` | the RTIC runtime: locks, dispatchers, message passing, interrupts |
| `TaskQueues` | what message passing promises |
| `RticProofs` | theorems about `Rtic`: locks and masks; message passing |
| `Memlog` | the logger |
| `LogQueues` | what the logger promises |
| `MemlogProofs` | theorems about `Memlog` |
| `Emmc` | the eMMC driver, with the controller and the card |
| `BlockStore` | what a block device promises |
| `EmmcProofs` | theorems about `Emmc` |
| `Storage` | block devices, partition tables, partitions and littlefs' storage adapter |
| `FileSystem` | the file system wrapper, above `Storage` |
| `StorageProofs` | theorems about `Storage` and `FileSystem` |
| `UsbDevice` | the USB device driver between `usb_device`, the controller and a host |
| `UsbProofs` | theorems about `UsbDevice` |
| `Contexts` | contexts that preempt each other and make driver calls |
| `Singletons`, `Dcp`, `Clock`, `Rng` | serial port and LEDs, crypto engine, clock, random numbers |
| `StartUp` | start-up of the board |
| `Drivers` | the five modules above, composed |
| `ClockProofs`, `DriversProofs` | theorems about `Clock`, and about `Drivers` |
| `BootImage` | what the host's tools make of an ELF file |
| `Sdp` | the serial downloader: host programs, boot ROM, board |
| `SdpProofs` | theorems about `BootImage` and `Sdp` |
| `MCRticSpawn`, `MCRticLock`, `MCRticSgi`, `MCMemlog`, `MCEmmc`, `MCFileSystem`, `MCUsbDevice`, `MCDrivers`, `MCSdp` | instances for TLC |

The type invariant of each specification is checked by its first run, on its own in
`rtic_spawn` and as the first conjunct of another invariant elsewhere.

Definitions whose comment says "Mutant" are wrong on purpose. They are used only
to see that a property notices the bug: `PROJECT.json` pairs each property with
one, and none is part of a specification.

### Rtic

**State and code.** A *context* is `idle`, the handler of a hardware task, or the
SGI handler (dispatcher) of a priority level. `pc[c]` says where each context is;
`Running(c)` picks the active context the GIC took last, the one the core executes.

| Variable | In the code |
|---|---|
| `pmr` | `GICC_PMR`, in the hardware's scale (`logical2hw`) |
| `pending` | interrupts pending in the distributor |
| `dyn[c]` | the `Priority` cell of a context |
| `held[c]` | the `lock` calls a context is in, each with its local `current` |
| `initial[c]` | the local of `run` that keeps PMR |
| `fq`, `rq`, `inputs` | `FQ`, `RQ`, `INPUTS` of the generated code |
| `sp[c]`, `job[c]` | locals of the `spawn` and of the dispatcher's loop a context is in |
| `budget[c]`, `atEntry[c]` | bound on the operations of user code; history |

| Actions | Code |
|---|---|
| `InitSpawn`, `StartIdle` | `codegen/init.rs`, `pre_init.rs`, `post_init.rs`, `idle.rs` |
| `Raise`, `Take`, `EndOfInterrupt` | the GIC, and `IRQ` in `usbarmory-rt/src/lib.rs` |
| `RunEnter`, `RunLeave` | `run`, `cortex-a-rtic/src/export.rs` |
| `Lock`, `Unlock` (through `Enter`, `Leave`) | `lock`, `export.rs`; `codegen/resources.rs` |
| `SpawnBegin`, `SpawnDequeue`, `SpawnWrite`, `SpawnEnqueue`, `SpawnPend` | `codegen/spawn_body.rs` |
| `Dequeue`, `ReadInput`, `FreeSlot`, `EndTask` | `codegen/dispatchers.rs` |

An action is a piece of code with no other point where an interrupt matters: a
lock's prologue goes with the access that precedes it, the epilogue with the
access that follows. The queues of `heapless` read an index, copy and commit; the
two halves of a dequeue under `lock` are two actions (`SpawnBegin` reads the head,
`SpawnDequeue` commits), so that a missing lock would show. User code is any
sequence of at most `MaxOps` locks and spawns per activation. It cannot lock a
resource it has locked, because it owns a single proxy the closure borrows.

**Runs.**

- `rtic_spawn` (523 thousand states): two software tasks at levels 1 (capacity 2)
  and 2, an interrupt at level 2 and `idle`, which all spawn; two payloads. A task
  of capacity 2 is needed to have two indices whose order can change; `idle` and
  `usb` race for one free queue and one ready queue while the dispatcher drains it.
  `SlotConservation`: each message slot has exactly one owner among free queue,
  ready queue, a spawn and the dispatcher, and `enqueue_unchecked` never finds a
  full queue. `NoLostWakeup`: a message in
  a ready queue is always going to be looked at. `ImplementsTaskQueues`: the whole
  is a queue per level, FIFO, with the payload that was posted.
- `rtic_lock` (90 thousand states): software tasks at 1 and 2, interrupts at 1
  and 3, resources with ceilings 2 and 3, two operations per activation, so that
  locks nest, spawns happen inside locks, and a handler that locks preempts one
  that does. `MutualExclusion`, `MaskRestored` (PMR is put back, as the comment above
  `run` says, and hides nothing above the dynamic priority of what runs),
  `SingleBlocker` (bounded priority inversion).
  `EveryTaskStarts`: once the levels at or above a
  handler become quiet for good, its messages and its interrupts are served, with
  the masks of locks in between.

**Fairness.** `WF` on `StartIdle`, on each `Take(c)` and on each `Step(c)`: the core
does not stop, and takes an interrupt the GIC signals. Peripherals (`Raise`) have
no fairness. Tasks of a higher level may keep a lower one from running for ever,
hence the premise `QuietFor`; nothing is assumed about lower levels, whose masks
are exactly what the properties are about.

**Bounds.** `MaxOps` bounds an activation, not the run: activations follow each
other without end. Levels above 3 only repeat the relation of two adjacent ones;
the theorems make no such assumption.

### Memlog

**State and code.** `mem`, `read`, `write` are the buffers and counters of
`memlog/src/lib.rs`; the byte numbered p of a buffer is the value p, so that a
misplaced byte shows. `main` and `chunk` are where `memlog_try_flush` is: between
`Peek` (the slice `peek` shows), `Send(k)` (`Serial::try_write_all`, which takes as
many bytes as the port has room for) and `Advance` (the store of `read`) a handler
may log. `Push` is `Buffer::push` with its split at the end of the ring;
`IsrLog`, the log of a handler, is one step because all handlers that log have one
priority, the only use the crate documents. The firmware is built in two ways
(`firmware/Cargo.toml`): in profile `dev` an overflow panics, in profile `release` it
wraps; `checked` says which of the two this build is. `PushPanics` is the panic of a
push: of the assertion when the message does not fit, or, in a checked build, of
`write + n` (memlog/src/lib.rs:89) once the bytes have been copied. `FlushAndReset`,
`Round` (four rounds, one slice each) and `Reset` are
`memlog_flush_and_reset`. `ResetAtOnce` is `usbarmory::reset`, which the program may call
and `DefaultHandler` of `exception-reset` does, at any moment: it does not touch the
rings, and what they hold is lost (an exception inside the flush itself, after which the
rest is lost as well, is not modelled). `Boot` starts again with counters at zero and
memory as it was, since the buffers are in an uninitialised section. `After` says which
buffer a copy past the end of another one hits.

**Runs.**

- `memlog` (147 thousand states): rings of 3 bytes, counters modulo 6, messages of
  1 and 2 bytes. Three is the smallest ring in which a message may end before, at
  and past the end, and a split slice and an unsplit one may both be waiting; the
  counters wrap at a multiple of the capacity, as 2^32 is of the
  8 KiB of the code. `ImplementsQueues`: two byte queues (`LogQueues`), empty at the
  end of a flush before a reset, for which two rounds, as a comment has it, are not enough
  and four are; only `ResetAtOnce` loses bytes.
  `SliceIsOldest`: the slice under transmission stays the oldest unread bytes, and in a
  checked build `read` never passes `write`, so that of the two sums of the counters only
  the one in `push` can panic.
  `IsrLogLeaves`, `MainLogLeaves`: what is
  logged leaves; for `main`'s buffer only once handlers stop filling theirs, since
  `peek` prefers it.

With messages of up to two bytes a split message has two equal parts, for which
the computation of the split point is right; see `memlog_wrap` below for the others.

**Fairness.** `WF(MainStep)`: `main` is a loop around `memlog!`. `SF` of sending at
least one byte: a serial port transmits what is in its FIFO, so there is room again
and again. The flush before a reset waits for the port, and is not under fairness.

### Emmc

**State and code.** The driver's `pc` walks through `send_command`: `Check` (the
debug assertion on CC), `Issue` (once both inhibit bits are clear), `PollCommand`,
`CommandDone`, `PollData`, `DataDone`, and the two timeouts. `take`, `TakeNext`,
`PowerUpTimeout` are the boot sequence; `Start`, `StatusKnown`, `Prepare`,
`ReadDone`, `WriteDone`, `ProgramTimeout` are `read` and `write`; `Return` ends a
call, `Fatal` stands for a panic or a reset. The status of a card tells its state and
whether it is `ready_for_data`; a card in the transfer state may be the one or the
other, so that `StatusKnown` and `TakeNext` may fail there (emmc.rs:311, 375). `int` is INT_STATUS, `rsp` CMD_RSP0,
`inflight` and `line` the command and data lines of PRES_STATE, `buffer` the block
DMA writes to. The controller and the card (`Respond` to `CardDone`) are external:
they do what the driver relies on and what its error paths are for. `answered` and
`late` are history: whether the response register answers the last command issued,
and a failed write that may still take effect.

`Faults` chooses the failures:

| Fault | Meaning |
|---|---|
| `status` | a command without data is answered with an error bit |
| `crc` | a response arrives damaged |
| `data` | a data error ends a transfer |
| `slow` | a transfer or the card outlives `default_timeout` |
| `preempted` | an interrupt keeps the driver from polling that long |
| `silent` | no response; the controller reports CTOE |
| `buffered` | the card releases the data lines and programs later |

A power cut (`Restart`) may come at any time and tears a block being programmed.

**Runs.**

- `emmc` (3.7 million states): two blocks, two values (to tell a block left by the
  wrong call, or with the wrong data), every fault but `buffered`.
  `LegalCommands`: a command only goes out in a card state that accepts it.
  `ImplementsBlockStore`: a read returns what the block holds, a write that
  returned Ok is in the flash, a failed one takes effect at most until the next
  call that succeeds, a power cut tears only the block being written.
- `emmc_live` (483 thousand states): the same blocks and values, without power cuts, and every
  fault but `silent` and `data`. `ResponseIsOwn`: the response taken from CMD_RSP0 answers
  the command issued. `EveryCallReturns`: each call ends, at worst in a panic or a
  reset.

Each exclusion stands for something the code does not provide:

- `ImplementsBlockStore` fails with `buffered`: `write_single_block` decides whether
  to wait for the end of programming (emmc.rs:422) from the response to CMD24,
  which `send_command` reads before the data is sent.
- `ResponseIsOwn` fails with `slow` and `data` together: the error bit of a transfer
  that was given up ends the wait for the response of the next command (emmc.rs:755),
  which then passes for that of the one after.
- `EveryCallReturns` fails with `silent`: after a command timeout the inhibit bit
  stays set, `clear_command_inhibit` (emmc.rs:675) is never called, and the next
  command polls for ever.

Two more behaviours need no property of their own to be seen in the model. After a
data timeout (emmc.rs:780) the caller has its block back while DMA may still write to
it: `BlockStore` allows a failed read to leave anything in the buffer. After a
damaged response CC stays set, and the debug assertion at the head of the next
`send_command` (emmc.rs:699) ends in a panic, which `EveryCallReturns` counts as an end.

**Fairness.** `WF(CommandLine)`, `WF(DataLines)`: the controller and the card finish
what they were given; `WF(Software)`: the driver polls. `SF(PowerUpTimeout)`,
`SF(ProgramTimeout)`: the clock advances while the driver loops, so that a loop with
a deadline meets it. `FairSpec` has power cuts only after a panic or reset, for with
a power cut at any time no call need ever return.

**Abstractions.** The build is the one with debug assertions. CCE stands for the
three errors of a response, DERR for the four data errors. Clock, bus width and
software-reset registers are left out, as no property depends on them; `lba > total_blocks`
is in `Storage`. `CommandTimeout` fires only
when the controller has settled the command, 64 clocks being far less than the
timeout. Error bits come in responses to commands without data: what the controller
does with the data phase of a rejected command cannot be read from the code.

### Storage and FileSystem

**State and code.** `Storage` is `storage.rs` and the storage adapter of `fs.rs`. `medium`
holds blocks; block 0 may hold a partition table. `table` is a `PartitionTable` under
construction, `device` the `MbrDevice`, `view` the `MbrPartitionRef` in use, and `io` the
call of littlefs that is being cut into blocks.

| Actions | Code |
|---|---|
| `add`, `create`, `open`, `partition`, `release` | `PartitionTable::add`, `MbrDevice::create`, `open`, `partition`, drop |
| `ReadBlock`, `WriteBlock`, `Finish`, `lfs_erase` | the loops of `LfsStorage`, `MbrPartitionRef::read`, `write`, the checks and the assertion of the eMMC driver |
| `PowerCut` | loses everything but the medium, and may tear the block being written |
| `mount`, `format`, `Directory`, `Unmount` | `LittleFs` |
| `Open`, `Seek`, `write`, `read`, `sync`, `Leave`, `close`, and their steps | `File`, `open_and_then`, `create_and_then`, `Drop for File` |

Every raw read and write may fail. A failed write leaves the old, the new or a torn
block. littlefs is external: a directory in its first block, a file after it, a cache
that reaches the medium at a sync or a close, and a close that always takes the file
off its list. `promised` and `failed` are history: what a call that returned Ok left on
the medium, and whether an access made for the running function failed.

**Run.** `storage` (3.6 million states): five blocks, words up to 7, tables of two entries
that programs or other tools have left, among them an empty one, overlapping ones,
one that starts at block 0, one that ends at the last block and one whose end does not
fit a word; a file of two blocks, so that a write may fail between them.

- `TableSurvives`, `Confinement`, `NoAssertion`: through the partitions of a device that
  `open` accepted only their own blocks change, never the table, and the assertion
  "block doesn't exist" of the eMMC driver is not reached.
- `Durable`: what a sync or a close reported as written stays on the medium through later
  failures and power cuts until somebody is asked to write those blocks.
- `ErrorsReported`: `open_and_then` and `create_and_then` return Ok only if no access made
  for them failed.
- `NoneLeftOpen`: between calls littlefs has no file open but those that a failed rewind
  of `File::open` has lost.

The run does not check deadlock: a panic in a destructor is followed by nothing but a
restart, and the bound on handles stops programs that leak them.

What the properties leave out on purpose, because the code does otherwise:

- `PartitionTable::add` (storage.rs:284) never advances `index`. Every partition goes to
  entry 0, `as_slice` stays empty, and neither an overlap nor a fifth partition is noticed.
  `create` works on such tables and is not covered by `Confinement`.
- `open` accepts partitions that overlap each other, and rejects one that ends at the last
  block (storage.rs:149), which `create` accepts.
- `File::open` (fs.rs) loses the littlefs file when the rewind after the open fails.

### UsbDevice

**State and code.** `hw` is the part of the controller's registers the driver uses
(ENDPTSETUPSTAT, the SETUP tripwire, ENDPTPRIME, ENDPTSTAT, ENDPTCOMPLETE, URI, the
address and the enabled directions), `dqh` the queue heads with their current and next
descriptors and their buffers, `inner` the state of `Inner` (allocated endpoints, free
buffers, `setupstat`, `pre_status_out`, `status_out`), `dev` the caller: where a poll, a read or
a write is, and the control pipe of `usb_device`. `host` is the host.

| Actions | Code |
|---|---|
| `alloc_ep`, `enable` | `Usbd::alloc_ep`, `enable` |
| `PollStatus`, `PollSetup`, `PollComplete` | `poll`, `end_write` |
| `ReadSetup`, `SetTripwire`, `CopyFirst`, `CopySecond`, `CheckTripwire`, `SetupRead` | `read` of a SETUP packet |
| `AnswerSetup`, `InComplete0`, `Echo` (through `start_write`) | `write` |
| `ReadStatus`, `StatusRead`, `StatusTimeout` | `read` of STATUS OUT |
| `ReadBulk` | `read` of endpoint 1 |
| `ResetClear`, `ResetFlush`, `ResetTimeout` | `reset` |
| `Prime`, `SendSetup`, `TakeIn0`, `SendStatus`, `SendMessage`, `TakeAnswer`, `StartReset`, `EndReset` | the controller and the host, external |

The copy of a SETUP packet is two actions with the controller in between, and so are
the steps around a poll's reads of different registers. How `usb_device` 0.2.5 uses the
driver, and the echo class of `examples/usb.rs`, are external.

`upset` records what a host or a slow caller can do that the driver does not recover
from, and the properties name the reasons they depend on:

| Reason | What happens |
|---|---|
| `request` | the host makes a standard request other than SET_ADDRESS, SET_CONFIGURATION, SET_INTERFACE and GET_DESCRIPTOR, which is legal: the last arm of the match in `read` (bus.rs:413) resets the board |
| `missing` | it asks for a descriptor the device does not have, legal too: `usb_device` stalls endpoint 0, and `set_stalled` is `unimplemented!` |
| `setup` | the host sends SETUP before the last transfer has ended |
| `fast` | before the driver has seen the end of the last |
| `long` | a descriptor takes more than one packet: STATUS OUT is reported after the first, the control pipe stalls, and a stall resets the board |
| `stale` | a bus reset during a transfer: the driver keeps the current descriptor, and `write` returns WouldBlock for good |
| `slow` | a bus reset that is over before it was handled: its clean-up deletes a SETUP packet that came after |
| `two` | a second message before the answer to the first: `write` overwrites a packet whose descriptor the controller has not loaded yet |

**Run.** `usb` (1.05 million states): descriptors of one and two packets, an IN endpoint of 64 or 512
bytes, an OUT endpoint of 64, 1024 or 2048, every upset, one of them before a restart.

- `SetupDelivered`: a SETUP packet returned by `read` is whole, and the last one received
  is pending or was returned.
- `NoPanic`: none of the driver's assertions on its queues and registers fails. What does
  panic is named: the buffers run out if both endpoints of the class are small (three
  64-byte endpoints panic at the first write: there are two such buffers, and endpoint 0
  takes one) or if a packet has more than 512 bytes (`unimplemented!`, bus.rs:169 and 602),
  and `Caps::new` asserts sizes of up to 1024.
- `Survives`: with a host that keeps to the protocol, and to the requests and descriptors
  the driver knows (`request`, `missing` above), the driver meets no stall, no STATUS
  packet that does not come, and no error. The board is reset on account of a request only
  if the host made it: bytes of two packets are never taken for one.
- `InStep`: what `start_write` takes for a transfer in progress is one, and endpoint 1 is
  always ready to receive.
- `EchoIsOwn`: the host gets its own message back.
- `HostServed`: every control transfer ends and every message is answered.

**Fairness.** `WF` of the driver (its caller polls in a loop), of the priming of each
endpoint, and of the host's part in a transfer it has begun. `MaxBulk` bounds messages
during one control transfer: while completions of IN transfers keep coming, `poll`
reports STATUS OUT never, and without the bound `HostServed` fails.

**Abstractions.** Packet lengths are left out; ENDPTPRIME is set at once; one request stands
for all that the driver does not know; an error of a transfer and an ENDPTPRIME that is
not cleared during a reset (bus.rs:224) may happen at any time and end in a reset of the
board, which no property forbids; USBINTR is not
modelled since the driver polls (its bit for URI is written at position 5 instead of 6,
which matters only with interrupts); `ep_in_complete`, which no poll leaves set.

### Drivers

**State and code.** `Contexts` has the main program and handlers, each in at most one
driver call; a handler begins a call between any two steps of what it preempts, which
waits until the handler's call has returned. The drivers:

| Module | Code | Actions |
|---|---|---|
| `Singletons` | `serial.rs`, `led.rs`, `macros.rs`, `take` of the register crate | `TakeLoad`, `TakeFirst`, `TakePeripheral`, `TakeFree`, `Release`, `WriteAll`, `WriteByte`, `PrintRelease`, `LedRead`, `LedWrite`; `RawTake` is a program that takes the peripheral itself |
| `Dcp` | `dcp.rs`, `dcp/aes128.rs`, `dcp/sha256.rs`, their flags | `NewFlag` to `NewTimeout`, `AesDrop`, `ShaDisable`, `ShaFree`, `XcryptPtr`, `XcryptSema`, `XcryptDone`, `ShaInput`, `ShaReset`, `ShaEnd`; `Engine` is the hardware |
| `Clock` | `time.rs` | `NowHigh`, `NowLow`, `NowNewHigh`, `NowAgain`, `NowReturn`, `WaitStart`, `WaitLoop`, `WaitReturn`; `Tick` |
| `Rng` | `rng.rs` | `Initialize`, `NextU32`, `Write`, `Generate`, `CheckError`, the waits, `ReadOut`; `Seed`, `Fill`, `Fault` |
| `StartUp` | `usbarmory-rt/src/lib.rs`, `i2c.rs`, `serial.rs`, `leds.rs` | `Boot`, one action per bus operation of `Script`, `WaitOver`, `WaitFails`; the bus and the FUSB303 |

In `StartUp` the board may be reset after any start-up, with or without loss of power,
and then meets the status bits of the I2C controller, the register of the FUSB303 and
the UART as they were left.

**Runs.** `drivers` (251 thousand states): a main program and one handler, five calls, one of the
five groups of drivers in each behaviour: drivers of different groups share no register
and no flag, so the product of their states would show nothing new.

- `Exclusive`: a handle or a driver has one owner, and one marked as taken has an owner
  unless a program had taken the peripheral itself (then it stays taken for good).
- `OutputWhole`: messages of `print!` are not mixed on the line, no LED update is lost.
- `EngineServesOwner`: a driver of the crypto engine has its context and its channels, and
  the engine has run the command of a caller of `xcrypt`, or runs it next, under the two
  conditions below; a caller whose command is lost does not return as if it had been run.
- `DigestIsInput`: the blocks the engine hashed, with the buffer, are what was fed since the
  last reset, however it was cut.
- `NowIsTime`: `now` returns the time at a moment of its call, while the clock ticks and
  handlers run between the reads.
- `WaitsLongEnough`: `wait` lasts as long as the `Duration` it was given, less at most one
  tick of 30.5 microseconds. Ticks have phases here, and a `wait` begins in any of them.
- `FreshWords`: no word is read from an empty FIFO.
- `MainMeansReady`: `main` runs with the FUSB303 enabled, the bus free and the UART on,
  whatever the start before has left.
- `CallsReturn`: every call returns, panics or resets the board.

The conditions in them are behaviours of the code:

- `weak`, and a context at the install: `dcp::init` uses a weak compare-exchange and takes
  its failure for "already initialized" (dcp.rs:61); and it sets the flag before it
  installs the context, so that a handler that preempts it gets a driver without context.
- `overwritten`: both AES drivers use CH3CMDPTR and CH3SEMA, although aes128.rs:29 says
  they use different registers. A handler whose `xcrypt` preempts that of the other driver
  before the engine has run the command replaces it in CH3CMDPTR: the command is lost, and
  its caller ends in the timeout and reset of aes128.rs:209. Between the two writes the
  handler's own command is also run a second time, in a frame that is gone. Only the
  command replaced is exempt, not the calls after it or those that merely overlap. The
  comment is true of instances whose contexts do not preempt each other in `xcrypt`.
- "Less one tick": time.rs:88 says "at least", but a wait counts from the last tick before
  its call, and a whole number of ticks from there.
- `Overtaken`: the random number generator looks at its error register once, before it
  waits (rng.rs:153). An error after that makes it wait for ever.

`clock` is expected to fail. It is the clock alone with the numbers of the source: 1e9 is
1_953_125 * 2^9 and the frequency 2^6 * 2^9, and time.rs:65 divides by the factor 2^9 it
has cancelled, instead of by 2^6. `DurationIsTicks`, the length of the ticks that the
comment above the line means, is violated by the first tick: 3814 ns instead of 30517.
After half a second `elapsed` shows 62.5 ms, and the part of a `wait` below a second lasts
up to eight times as long, though not longer than until the second is full.
`WaitsLongEnough` holds all the same, for the error makes waits longer: it needs a divisor
that is not smaller than 2^6 (`DivisorAssumption`), the right one included.

**Fairness.** `WF` of each context's steps, of the transmitter, the engine, the clock and
the generator. Bus faults, errors and calls have none. `AtEnd` excludes the end of the
clock's bounded range.

**Bounds.** `LowMax` and `HighMax` 1: the low register wraps while it is read, and the high
one changes once. A second of `drivers` has two ticks of two phases each; a tick lasts 12
units and counts as 12/8 below the second, rounded down; `wait` is for one second and
begins in either phase. Five calls let each driver be taken, used, dropped and taken by
the other context. `MaxCount` 6 with blocks of 2 and inputs of 1 and 3 reaches inputs that
begin and end inside, at and across blocks. The theorems about the clock have no such
bounds.

**Abstractions.** A handle is used by the context that took it. `try_read`, `listen` and
`flush` of the serial port are left out (`listen` reads UCR2 and writes the result to
UCR1, serial.rs:107). Flushing the log goes around the singleton on purpose and may
mix with a message. The bits of one clock register change together. A digest is the
sequence of bytes hashed; `Sha256::reset` leaves `count`, so that a handle that is
reset often panics early, which `Abort` models. The timeouts of start-up compare 32-bit
times and are any time later here.

### Sdp and BootImage

**State and code.** `BootImage` lays out what `from_elf` and `write` of `host/image` make of
the sections and segments of an ELF file, in cells; `InPlace` says that each byte of the
program is where the linker put it and that the entry is right. `Sdp` runs `usd-runner` or
`usd-load` (`Start`, `Open`, `MakeImage`, then `SendCommand`, `SendData`, `CheckSecStatus`,
`ReadResponse` for DCD, file and jump, `ReadTimeout`), the runner's loop and its console
thread (`Watch`, `Stop`, `Leave`, `Redirect...`), and, external, the boot ROM and the board.
Reports the ROM has sent wait until they are read, be it by a later run. `misled` holds
the runs that took one meant for an earlier run.

**Run.** `sdp` (60 thousand states): two programs as `link-dram.x` and `link-ocram.x` lay them out and
two that `from_elf` rejects; reports shorter than an image, with a short last chunk; two
runs of either program, power cycles and a changing address. (Three runs pass, too:
535 thousand states.)

- `RunsWhatWasSent`: a run that reports success has made the board execute its own image,
  whole; only a run in `misled` can believe so otherwise.
- `ProgramInPlace`: image layout, chunks and linker scripts agree.
- `SessionsEnd`: every run ends or watches the board, and the runner ends when the board
  is back under another address.

Without `misled` the first fails: a run times out after its data, the ROM answers late,
the next run takes these reports for its own (usd/src/lib.rs:277), the ROM refuses its
file, and it reports success. The runner does not end when the board comes back under
its old address (the premise of `SessionsEnd`). usd-load sends the DCD apart and clears
it in the file, or else the ROM would run it twice and hang.

**Fairness.** `WF` of the host's main thread: its calls have timeouts. The ROM, the board
and the console thread have none.

**Abstractions.** Byte encodings, the parser of DCDs, the 32 MB limit and the order of the
bytes of a report are left out, and so are `read_memory` and `write_memory`, which neither
program calls. Which board is meant when two are connected is not modelled.

## What the runs found

Three runs expect a violation: each states what a comment of the repository says, and
finds a behaviour of the code that contradicts it.

| Run | Property | Behaviour |
|---|---|---|
| `rtic_sgi` | `MutualExclusion` | `pre_init` (pre_init.rs:44) sets the priority of SGIs 0 to n-1, n being the number of priorities of software tasks, while level l is dispatched by SGI l-1 (util.rs:6). With a hardware task at level 1 and a software task at level 2, SGI 1 keeps its reset priority 0, the most urgent: the dispatcher preempts every critical section. `ContiguousSgis` is the condition under which this cannot happen. |
| `memlog_wrap` | `ImplementsQueues` | `push` splits a message at the end of the ring after `cursor + n - cap` bytes instead of `cap - cursor` (memlog/src/lib.rs:76). The two agree only when both parts are equal; a three-byte message overruns the buffer or leaves stale bytes in it. |
| `clock` | `DurationIsTicks` | `unchecked_duration_since` divides by 2^9 instead of 2^6 (time.rs:65), contrary to the comment above it (time.rs:63): below a second, time runs at an eighth of its speed. |

Modelling met further disagreements, which are conditions of the properties and
are described with their modules above: the transfers that outlive their call and the
inhibit bit (Emmc), the index of `PartitionTable::add` (Storage), bus resets and long
descriptors (UsbDevice), the channel both AES drivers use, contrary to aes128.rs:29, and the "at least" of time.rs:88,
which is true up to one tick (Drivers), late reports (Sdp).

## What is proved

Every safety property and every refinement the passing runs check is also a theorem,
for every value of the constants; only the liveness properties are not (see
[Model-checked only](#model-checked-only)). Each proof is an
inductive invariant, shown to hold at first and to be kept by each action; the
invariants were checked by TLC on the instances of the runs before they were proved.

### RTIC

`RticProofs` is about every application: any number of tasks,
levels, resources and payloads, any capacities and any `MaxOps`.

| Theorem | Statement |
|---|---|
| `Invariance` | `ContiguousSgis => (Spec => []Inv)` |
| `TypeCorrect` | `ContiguousSgis => (Spec => []TypeOK)` |
| `LocksExclude` | `ContiguousSgis => (Spec => []MutualExclusion)` |
| `BoundedInversion` | `ContiguousSgis => (Spec => []SingleBlocker)` |
| `MaskInvariance` | `ContiguousSgis => (Spec => []MaskKept)` |
| `MasksRestored` | `ContiguousSgis => (Spec => []MaskRestored)` |
| `WakeupsKept` | `ContiguousSgis => (Spec => []NoLostWakeup)` |
| `MessageInvariance` | `ContiguousSgis => (Spec => []MessageInv)` |
| `SlotsConserved` | `ContiguousSgis => (Spec => []SlotConservation)` |
| `QueuesImplemented` | `ContiguousSgis => (Spec => ImplementsTaskQueues)` |

**Assumptions** (named in `Rtic`, evaluated by TLC in every run):
`SortsAssumption` (tasks of different kinds are different, and not numbers),
`PrioAssumption` (priorities from 1 to 31, `idle` at 0), `SpawnAssumption` (the types of
the constants), `CapacityAssumption` (a ready queue has room for every slot of the tasks it serves, as
`codegen/dispatchers.rs` gives it), `NoneAssumption` (the value that stands for "none" is no
message and no job), `CeilingAssumption` (a ceiling is no lower than the priority of any
user; `rtic-syntax` computes it). `ContiguousSgis` is a hypothesis and not an
assumption, because the code does not ensure it; `rtic_sgi` shows it is needed.

**Argument.** `MutualExclusion` is not inductive: whether the mask keeps a handler
out of a critical section depends on what nested handlers saved and will write back.
The inductive invariant is

    Inv == TypeOK /\ Shape /\ InitAlone /\ HeadsKept
           /\ Stacks /\ Order /\ MaskNow /\ MaskLater

- `Shape` ties the place of a context in its code to its locals: inside a spawn,
  `sp` is a legal one and the innermost lock is on the right queue.
- `HeadsKept`: the index a spawn has read stays at the head of the free queue until
  it commits. It needs mutual exclusion on `FQ`, and is what makes the next index a
  legal one: type correctness rests on the locks.
- `Stacks` (`GoodStack`): the frames of a context record the priorities it went
  through, and its dynamic priority covers the ceiling of all it holds.
- `Order`: active contexts are nested by level, and each is above the dynamic
  priority of those it preempted. Mutual exclusion follows: if two contexts held one
  object, the ceiling would cover the level of the higher one, while the
  dynamic priority of the lower one covers the ceiling. So does `SingleBlocker`.
- `MaskNow`, `MaskLater`: PMR, and the PMR each handler will restore at its exit,
  respect whoever raised its priority. `MaskLater` is what the save and restore of
  `run` is for, and why priority 1 may skip it.

The proof has one lemma per action (`InitSpawnInv` to `EndTaskInv`), each with a step
per conjunct of `Inv`, over lemmas on levels and GIC priorities (`GicFacts`,
`RunningIsAbove`, `TakenIsAbove`), stacks of frames (`PushStack`, `PopStack`), and masks
(`MaskMoveKeeps`, `MasksKept`). 
`MaskRestored` needs the opposite bounds, and equalities where `Inv` has bounds. `MaskKept` says
that what runs is not masked beyond its dynamic priority (`FloorNow`), and neither will be
what it interrupted, once the mask of that moment is written back (`FloorLater`); that
outside of `run` a handler has the mask of what it interrupted (`EntryNow`, `EntryLater`) and
inside `run` has kept it (`Kept`); and that a handler of level 1, which keeps nothing, only
interrupts `idle` outside of any lock, whose mask is known (`LowestEntry`).

`MessageInv` is what makes the queues right. `OneHome`: each slot of each task is in exactly one
of the free queue, the ready queue, a spawn and the dispatcher. `NoRepeats`: no queue
holds an index twice. With `OneHome` it bounds the length of a queue by the capacity,
so that `enqueue_unchecked` has room. `Written`: the payload of a queued message is
in its slot when the slot is enqueued. `Jobless`: a dispatcher between messages has none. The
refinement then maps a ready queue to the queue of payloads its indices point to: the
enqueue is the post, the read of `INPUTS` the start, and every other step stutters.
`NoLostWakeup` is inductive beside `Inv`: who enqueues is going to pend the SGI, and a
dispatcher leaves only when its queue is empty.

### Memlog

`MemlogProofs` holds for any size of the rings, any lengths of messages and any number of them.

| Theorem | Statement |
|---|---|
| `CountersKept` | `Spec => []CounterInv` |
| `SlicesOldest` | `GoodSplits => (Spec => []SliceIsOldest)` |
| `RingsImplementQueues` | `GoodSplits => (Spec => ImplementsQueues)` |

**Assumptions**: `CapAssumption` (the counters wrap at a multiple of the capacity).

**Hypothesis**: `GoodSplits` says that `Pivot`, the split at memlog/src/lib.rs:76, is right for
every message that crosses the end of the ring. It is exactly what the code lacks: with
the code as it is `ShortSplits` derives it for messages of one and two bytes, the
lengths of the run `memlog`, and `memlog_wrap` shows the violation for three; with the
split corrected it holds for all lengths. `CountersKept` needs no such hypothesis.

**Argument.** `CounterInv == TypeOK /\ RingInv /\ ChunkInv /\ RoundsInv /\ StraightInv`: no
more than the capacity is ever unread, also while a counter wraps (`RingInv`); what `peek`
showed lies in the ring and is still unread when `read` is stored (`ChunkInv`); during a
flush the rounds done and the slices left are at most four (`RoundsInv`), which is why four
rounds are enough; and in a build that panics on overflow `read` stays behind `write`
(`StraightInv`). The theorems hold for both builds, and none says anything of what
`ResetAtOnce` finds in the rings: `LogQueues` loses it. `ContentInv` adds that the unread bytes are in place; the mapping to `LogQueues`
takes the bytes between the counters, and a wrap of a counter changes nothing as the
two moduli divide each other.

### eMMC

`EmmcProofs` holds for any number of blocks, any data and any choice of failures but those of
the hypotheses.

| Theorem | Statement |
|---|---|
| `Invariance` | `Unbuffered => (Spec => []Inv)` |
| `CommandsLegal` | `Unbuffered => (Spec => []LegalCommands)` |
| `StoreImplemented` | `Unbuffered => (Spec => ImplementsBlockStore)` |
| `ResponsesOwn` | `NoLateFault => (Spec => []ResponseIsOwn)` |

**Assumptions**: `SortsAssumption` (a request is not one of the driver's other values).

**Hypotheses**: `Unbuffered` (`"buffered"` is not in `Faults`) and `NoLateFault` (not both `"slow"`
and `"data"` are) are the exclusions of the runs. The code provides neither, and each
theorem is false without its own: see [Emmc](#emmc).

**Argument.** `Inv` is `TypeOK`, `Lines` (the card follows the data lines, which are free while a
command is out), `Owned` (a write under way belongs to the call in progress, or to one
that was given up, with the block and the data it was given), and where the driver is:
`Booting` ties each step of the boot sequence to the states of the card it can meet,
`Serving` each step of a read or write to the state of card, lines, buffer and
`result`. `StoreImplemented` maps the flash, the buffer, the call and the write that was
given up to `BlockStore`; the step at which the card has received the data is the one that
writes. `ResponseInv` is about INT_STATUS: which bits can be set where the
driver is, that a failed command leaves either a quiet controller or one that will not
issue again (`Doomed`), and hence that CC means the response of this command.

### Storage

The first four theorems of `StorageProofs` are about `StorageSpec`: any device, any word width, any number of entries,
any tables and data on the medium, failures and power cuts at every step.

| Theorem | Statement |
|---|---|
| `StorageTyped` | `StorageSpec => []StorageTypeOK` |
| `TableIsKept` | `StorageSpec => []TableSurvives` |
| `NoPanic` | `StorageSpec => []NoAssertion` |
| `WritesAreConfined` | `StorageSpec => Confinement` |

The others are about the file system above it: any program that uses the closures, any file
size, failures of every access, and power cuts at every step.

| Theorem | Statement |
|---|---|
| `FilesOnStorage` | `Spec => StorageSpec` (`FileSystem`'s) |
| `FilesStayInPartition` | `Spec => []TableSurvives /\ []NoAssertion /\ Confinement` |
| `DataIsDurable` | `Spec => []Durable` |
| `NoFileLeft` | `Spec => []NoneLeftOpen` |
| `ErrorsAreReported` | `Spec => ErrorsReported` |

**Assumptions**: `SizeAssumption`, `EntryAssumption`, `BufferAssumption`, `MediaAssumption`, the
types of the constants; `NoneAssumption` ("none" is no call of littlefs);
`FileSystemAssumption` (a partition has room for a file, and littlefs calls the storage with
buffers that exist there).

**Argument.** What protects the table and the assertion is not the check made at an
access alone, which compares with the partition's length, but the extent check of
`open`. The inductive invariant is

    StorageInv == StorageTypeOK /\ EntriesWithin /\ ViewWithin
                  /\ TableSurvives /\ NoAssertion

`EntriesWithin`: the entries of an opened device start above block 0 and end before the
last block. `ViewWithin`: the partition in use is one of them. `PartitionBlock`
derives from the two that an access which passes the range check hits a block of the
partition other than 0; `ReadBlockKeeps` and `WriteBlockKeeps` rest on it, and
`Confinement` follows from it for each step.

`FilesOnStorage` carries these results to `FileSystem`: each of its steps is one of `Storage`'s or
leaves its variables alone. The invariant of the file system is

    FileInv == TypeOK /\ StageInv /\ OutcomeInv /\ WriteInv /\ Durable

`StageInv` ties the step of a call to the storage's access in progress, to the files
littlefs has open and to its cache; `OutcomeInv` says that a call that has met an error will
return it; `WriteInv` follows a write of several blocks: none of the blocks still to be
written is promised, those left to write of a save hold the cache, and so does the
medium up to there. Hence a failure between two blocks, or a power cut, breaks no
promise, and a save that ends well may make one.

### USB device

`UsbProofs` is about any packet sizes the class may ask for, descriptors of any length, any
bounds and any set of upsets a host may cause.

| Theorem | Statement |
|---|---|
| `Invariance` | `Spec => [](DriverInv /\ StageInv)` |
| `SetupIsDelivered` | `Spec => []SetupDelivered` |
| `NoneFails` | `Spec => []NoPanic` |
| `AlwaysInStep` | `Spec => []InStep` |
| `HostSurvived` | `Spec => []Survives` |
| `OwnEcho` | `Spec => []EchoIsOwn` |

**Assumptions** (named in `UsbDevice`, evaluated by TLC): `SizesAssumption` and
`BoundsAssumption` are types; `PacketsAssumption` says that a descriptor takes at least one
packet.

**Argument.** There are two invariants, and the first does not depend on the second.
`DriverInv` is what the driver and the controller keep whatever the host does; each of its
parts is preserved by itself, with those before it as hypotheses:

- `Types`, and `QueuesInv`: a queue head is current or next, what is active or complete
  is current, and OUT 0 is primed only while `read` waits. This is what the assertions
  of `start_write`, `end_write` and `read` ask for.
- `ResetInv` and `ReadyInv`: unless a bus reset left something, each current descriptor is
  active or complete, so that `start_write` waits for something that will come; OUT 1 is
  primed with the address and again by every `read`.
- `BuffersInv` counts buffers: those free and those of endpoints make two of each size.
- `ConfiguredInv` and `AssertInv`: SET_CONFIGURATION comes after the address, and the
  endpoints are enabled with it.
- `CopiesInv`: while the tripwire is set, what has been copied is the packet that is
  there; a packet that comes later is pending again.
- `ReportInv`: a report is handled before the next poll.
- `RequestsInv`: a packet with a request the driver does not know is pending, being copied
  or handled only if the host made such a request.

`BuffersInv` also says that when a buffer or a size made the driver panic, the sizes of the
endpoints are those `NoPanic` names (`Blamed`).

`Survives` and `EchoIsOwn` need what the host does. `StageInv` says, as long as `upset` is
empty, that

- `ControlInv`: a control transfer is in one of ten stages (`Rest` to `Noting`, defined
  in the module), which tie the state of the host to the control pipe, the flags
  `pre_status_out` and `status_out`, the place of the driver and the queue of IN 0. Every
  stage names the one that may follow: the end of the data is seen (`Sent`, `Seen`) before
  STATUS OUT falls due, and STATUS OUT is reported (`Awaiting`) only when no completion of
  an IN transfer is reported with it. A new SETUP packet may arrive while the end
  of the last transfer is still being handled (`Closing`, `Noting`), and no earlier.
- `BetweenInv`: a bus reset begins between transfers and lasts until it has been
  handled, and the end of an IN transfer is never reported together with a SETUP or a STATUS
  packet, or the control pipe would stall.
- `MessageInv`: a message is held by the controller for the class, in the class, or returned,
  and what is reported to the class is held. Hence the class finds it, IN 1 is free for the
  answer, and the answer is the message.
- `FlushInv`: what is left of this between the two parts of `reset`; `ResetFlush` makes all
  of the above true again.

The proof first describes each action by the fields it changes (the lemmas ending in
`Effect`), then shows each part to be preserved, action by action. `ControlKept`,
`BetweenKept` and `MessageKept` are the frame conditions: which changes a part does not notice.

### Clock and drivers

`ClockProofs` is about `ClockSpec`: any number of nested contexts, any width of the low
register, any length of the run, ticks and preemption between any two reads.
`DriversProofs` is about the composition of all drivers, with any number of contexts
that use any of them.

| Theorem | Statement |
|---|---|
| `ClockTyped` | `ClockSpec => []ClockTypeOK` |
| `NowReturnsATime` | `ClockSpec => []NowIsTime` |
| `WaitBlocks` | `ClockSpec => []WaitsLongEnough` |
| `ClockAmongDrivers` | `Spec => [](NowIsTime /\ WaitsLongEnough)` (`Drivers`') |
| `ExclusiveOwners` | `Spec => []Exclusive` |
| `OutputsWhole` | `Spec => OutputWhole` |
| `EngineIsOwners` | `Spec => []EngineServesOwner` |
| `DigestOfInput` | `Spec => []DigestIsInput` |
| `WordsFresh` | `Spec => []FreshWords` |
| `MainIsReady` | `Spec => []MainMeansReady` |

**Assumptions**: `ClockAssumption`, `DivisorAssumption`, `ContextsAssumption` (contexts are numbers, and 0, the main
program, is one), `LineAssumption`, `DcpAssumption`, `RngAssumption`, `ProgramsAssumption`.

**Argument.** The inductive invariant `ClockInv` adds to the types, for each context,
`Sound` and `Started`. `Sound`: the upper half read is not above the clock's; if it is still
equal when the lower half has been read, then the value made of both lies
between the begin of the call and now; and once the upper half has been read again
and agrees, it still does. The upper half never decreases, so equal values at the
first and the third read mean that it had this value at the second. `Started`: a
`wait` measures from a time no earlier than its call and no later than that of `now`.
`WaitBlocks` then needs that the difference of times adds up and is not negative (`MinusAdds`,
`MinusNonNegative`), that a `Duration` is not longer than its ticks (`DurationIsShort`, from
`DivisorAssumption`), and that only the first of the ticks counted is not a whole one
(`LessOneTick`).

Each other group of drivers has an invariant of its own over its variables and the calls
in progress that belong to it. `CallsOK` says which calls those are; a step of another
group changes neither (`Foreign`), so that the invariants are proved apart and hold
together.

- `HandleInv`: of all contexts at most one *claims* a handle, which means it owns it or
  is between the load of the flag and its update. Two could claim one only
  if `TAKEN` had been read as `FREE` in between, and what preempts has returned before the
  preempted context goes on. While a context prints, the line ends with its bytes; while
  one modifies the LED register, the value it has read is still there.
- `DcpInv == ClaimInv /\ ReadyInv /\ ChannelInv /\ CommandInv`: one claimant per driver; the
  engine has its context once a driver is handed out, and its channels stay enabled;
  CH3CMDPTR is the command of the one context that waits for the engine and is not
  `overwritten`, and nothing runs without a waiter unless there is such a context.
- `ShaInv`: digest and buffer together are the bytes fed since the last reset. It is the
  one proof about sequences of any length: `input` cuts them into blocks.
- `RngInv`: the words still in the FIFO are at least those the owner is about to read.
- `BoardInv`: where start-up is in `Script` determines the state of bus, receptacle and
  port (`Progress`), whatever the start before has left.

### Serial downloader

`SdpProofs` is about any programs, any memory map, padding and reserved space, any size of
reports, and any number of runs, power cycles and late answers.

| Theorem | Statement |
|---|---|
| `DownloadInvariance` | `Spec => []SdpInv` |
| `SentIsRun` | `Spec => []RunsWhatWasSent` |
| `SentIsInPlace` | `Spec => []ProgramInPlace` |

**Assumptions**: `SdpAssumption` and `BootImageAssumption` are types; DRAM has a first address, and
the reserved space has room for the headers. `LinkerAssumption` is what
`ProgramInPlace` depends on, and what only comments in `host/image` say: the programs `from_elf`
accepts begin at the ORIGIN of `link-dram.x` and `link-ocram.x`, and the linker
lets no two pieces overlap. An image whose lowest section is elsewhere would be
loaded at the wrong place, without an error.

**Argument.** For images: the pieces lie between ORIGIN and the end of the last one, so each
byte of a piece has a place of its own in the image (`AppPlaced`); the headers fill
the reserved space (`AssembledParts`); hence what either program sends is `Good`, that is, in
place and without a DCD (`RunnerImage`, `LoadImage`). For the exchange:

    SdpInv == HostTypes /\ BoardTypes /\ BegunInv /\ ImageInv /\ DataInv /\ SyncInv /\ JumpInv

`BegunInv`: reports, command and image are tagged with runs that have begun. `DataInv`: what the
ROM has received is a prefix of what was sent, so that a complete file is the file. `ImageInv`
follows the image from the file to the memory. `SyncInv` is the core: unless the run has
been misled, no report of its own waits before it sends a command, and after it the reports
are short ones, the status and the response of this command (`Answered`), which are true
of the board: an acknowledged file is in memory, an accepted jump has started it.
`JumpInv`: a jump of a run that was not misled finds the image of that run.

### Model-checked only

- The liveness properties (`EveryTaskStarts`, `IsrLogLeaves`, `MainLogLeaves`,
  `EveryCallReturns`, `HostServed`, `CallsReturn`, `SessionsEnd`): liveness under fairness and
  `ENABLED` are out of the proof system's reach.

Induction over data is out of reach, too, so that what a recursive definition computes
could not be proved for every input. No module here declares a RECURSIVE operator, and the
proofs about sequences use positions instead of recursion.

## What is not modelled

- The generated register definitions (`imx6ul-pac`, 35 thousand of the repository's 50
  thousand lines): accessors without state of their own. A model cannot cover them
  honestly, whatever else it covers.
- RTIC's timer queue (`schedule`), which this port does not support; late resources, which
  `init` writes before anything runs; the analysis in `rtic-syntax`, a dependency (its
  result is `CeilingAssumption`).
- Handlers of several priorities that log: memlog/src/lib.rs:17 documents that this is
  not supported.
- The `RefCell`s of `fs.rs`: no borrow outlives a call, and nothing calls back.
- littlefs, `usb_device`, the boot ROM and the card's firmware, except for what the code in
  the repository expects of them.
- Reset code in assembly, linker scripts (their layout enters `MCSdp`), vector tables,
  `txt2rust`, constants, stubs, examples.
- The exception handler as a module: its reset is `ResetAtOnce` of `Memlog`, its message
  to the serial port is not modelled.
- Wording and formatting of messages, the contents of CSD, CID and EXT_CSD, AES and
  SHA-256 themselves.
- Memory ordering: one core, with barriers in `lock` (`isb`, `dsb`) that make program
  order the order of effects.

## Plan

Modelled, most important behaviour first: RTIC, under which everything runs; the logger,
shared by every panic path; the eMMC driver; storage and files; the USB
device; the drivers shared by contexts and start-up; the serial downloader.

Still to do:

- The layout compression of `txt2rust` as a pure function against its reference.

## Running the checks

    tlc -workers 2 -config MCRticLock.cfg MCRticLock
    tlapm RticProofs.tla

Each run of `PROJECT.json` names its module and configuration. The longest takes two to
three minutes. The proofs are in the eight modules whose names end in `Proofs`; from nothing
each takes between half a minute and a few minutes.
