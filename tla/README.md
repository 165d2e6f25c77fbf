# A verification development for the Universal Flux Interface

The Universal Flux Interface (UFI) reads and writes magnetic media at the level
of flux transitions. An STM32H7 firmware drives the drives, samples the flux and
talks over USB to a Python program on a compute module; separate programs dump
cartridges. This directory holds TLA+ models of the parts of it that keep state,
the TLC configurations that check them on small instances, and proofs that TLAPS
checks for every value of the constants. `PROJECT.json` lists the runs, the
theorems, the hazards they are aimed at and, for every definition, the lines of
code it stands for. Paths below are relative to `src/`.

    tlc  -config FluxCapture.cfg MCFluxCapture.tla
    tlapm FluxCapture_proof.tla

## 1. Inventory of the system

### Firmware (`firmware/`)

| Part | State | Operations | Hard because |
|---|---|---|---|
| Flux capture, `ufi_main.c:172-226, 508-555` | `g_capture`, five revolution slots, DMA buffer, timer and stream enables | `ufi_capture_start`, `ufi_capture_abort`, index interrupt, sending in `ufi_main_loop` | the index interrupt preempts the main loop between any two statements; DMA writes while both run; the disk turns on its own |
| Writing, `ufi_write.c` | write state, lengths, index into the data, WGATE | prepare, chunk, start, process, abort, erase, verify, index handler | the same interrupt serves reads and writes, and the gate destroys data when it is open at the wrong time |
| Drive control, `ufi_main.c:228-366` | `g_drive_status[]`, active drive; the real position of each head | select, step, seek, recalibrate, status | the counter is only a belief about the head; failures in the middle of a seek |
| Transmit ring, `ufi_usb.c:124-179`, `ufi_fixes.h` | ring buffer, head, tail, busy endpoint | `ufi_usb_send_flux`, `ufi_usb_flush` | wrap-around, full against empty, a wait that times out |
| Command buffer and dispatcher, `ufi_usb.c:100-122, 185-469` | `cmd_buffer`, `cmd_ready`, the endpoint | receive callback (interrupt), `ufi_usb_process_command` | the callback overwrites the buffer the main loop is reading; two parts share one endpoint |
| Second capture, `ufi_flux.c` | two revolution buffers, state set by DMA callbacks | start, stop, half- and full-transfer callbacks, index | double buffering against a main loop that may be late |
| Second drive control, `ufi_drive.c` | a status for every drive type, stepper phase, select, motor and phase pins; the real position of each head | select, motor, side, step, seek, recalibrate for Shugart, Amiga and Apple II | two types stand for one drive; four coils move the Apple head by half tracks |
| IEC bus, `ufi_iec.c` | three open-collector lines, place in the dialog; the drive's own state | send and receive byte, EOI, talk, listen, status, blocks, directory | each side waits for edges of the other; a drive that is absent, slow or stops; counters that wrap |
| Debug, clocks, USB glue | none that another part reads | - | - |

`CMakeLists.txt:97-109` builds `ufi_main.c` together with `ufi_drive.c` and
`ufi_iec.c`, which define some of the same functions. The models take
`ufi_main.c`, which holds the main loop and the interrupt, for the program, and
the other files for components of their own.

Interaction: the main loop calls the dispatcher, then sends a finished capture
(`ufi_main.c:561-607`). The dispatcher calls the capture, drive and write
functions. The index interrupt calls the write handler first, and the capture
only if no write waits or runs (`:508-517`). The USB receive callback fills the
command buffer. All of this is shared memory without locks: one thread and the
interrupts that preempt it.

### Host programs

| Part | State | Operations | Hard because |
|---|---|---|---|
| Compute module, `software/cm5/ufi_processor.py` | the serial port | `send_command`, `read_track`, decoders | answers are matched to commands by order only |
| MIG dumper library, `software/src/mig_dumper.c` | device and its state, monitor thread, dump thread and its handle | init, exit, scan, mount, eject, dump start / cancel / wait; events of udev | three kinds of threads share the state under a lock they do not always hold; the reader may be pulled out at any time |
| MIG web service, `software/web/api/mig_api.py` | one status record, one background thread | mount, unmount, dump, cancel, poll | requests race each other and the thread |
| Web panel, `ufi-mig` tool | - | - | - |

### Cartridge modules (`modules/`)

The Game Boy reader, `gb_gba_dumper/src/main.c`, serves GET_INFO, READ_ROM,
READ_RAM, WRITE_RAM and RESET and knows a cartridge from its header
(`g_cart_info`). It is sequential; what is hard is state it cannot see, the bank
registers of the chip on the cartridge, and a status LED that shares the pin of
the write line. The EPROM reader, `mig_dumper/src/main.c`, drives address lines
and reads; all it keeps is the type it detected.

### What makes each part correct

- *Capture*: a revolution is copied into a slot that exists and was asked for;
  what is offered to the link is a whole read; nothing is stored when no read is
  going on; revolutions are consecutive turns and, after the first, hold one turn
  each; a read shows its own surface, except in the first revolution of the first
  read after power-up; every read ends.
- *Write*: the gate is open only while a started write or an erasure runs; the
  data accesses stay inside data that arrived completely.
- *Drives*: a counter that is used agrees with the head; recalibration finds
  track 0; no counter wraps.
- *Ring*: the bytes the host reads are the bytes accepted, in order, once.
- *Link*: until a read is given up or leaves bytes in the ring, a command runs once,
  with its own parameters, an answer is taken for its own command, and a command
  without an answer is explained.
- *Second drive control*: the counter of each type tells where its head is, even
  when its drive was used under another name; pins agree with the status.
- *IEC*: a byte is received as sent, EOI marks the last one, clock has one owner
  at a time, a dialog leaves the bus free, and every dialog ends.
- *MIG*: one dump at a time, no thread is joined twice, every call returns; and
  until a state is overwritten unseen, a reader that is called connected is
  mounted and one that was pulled out is not called connected.
- *Game Boy*: every byte read comes from the bank that was meant, and the bytes of a
  saved game that reached the reader in a packet are where the host meant them,
  whatever was read, written or changed before.

## 2. Plan

| Order | Module | What for | Status |
|---|---|---|---|
| 1 | `CaptureService`, `FluxCapture` | the core: capture against the interrupt, and the service it implements | checked, proved |
| 2 | `FluxWrite` | the gate and the data of a write | checked, proved |
| 3 | `DriveHead` | counter and head | checked, proved |
| 4 | `TransmitRing`, `ByteChannel` | the bytes to the host | checked, proved |
| 5 | `CommandLink` | host, command buffer, endpoint | checked, proved |
| 6 | `MigDumper` | caller, monitor and dump threads, a reader that comes and goes | checked, proved |
| 7 | `GbCartridge` | bank registers nobody can read back | checked, proved |
| 8 | `IecBus` | controller and drive over three lines | checked, proved |
| 9 | `DriveControl` | three drive types over shared pins, the Apple stepper | checked, proved |
| 10 | `MigApi` | web requests against the background thread | not begun |
| 11 | `Firmware` | `FluxCapture` with `FluxWrite` and `DriveControl` under one dispatcher | not begun |

One passing run per component asks all its questions at once. A violation run
states one sentence of the documentation or a comment that the code does not
keep; other disagreements are in section 7. `FluxDoubleBuffer`, a model of
`ufi_flux.c`, was planned once and given up (section 6), and so was one of the
EPROM reader.

Proofs worth having beyond those done: an abstract service for the commands of the
link, as `CaptureService` is one for reads, and one for a dialog of the IEC bus.

## 3. Modules

In all modules an action is one stretch of code that nothing preempts in a way
that matters: a read-modify-write that the interrupt may split is split. `main`
says where the main loop is; commands, disk, host and drives are
nondeterministic. Actions named as slips (`ClampLowOnly`, `SendCaptured`, ...)
belong to no specification. They are variants of an action with one plausible
mistake, and each property is checked to fail when its action is replaced.

### `FluxCapture` (with `CaptureService`)

Four agents share the capture context: the main loop, the index interrupt, the
timer with its circular DMA stream, and the disk. A sample is a record of the
transition it stands for: its turn, its number in the turn, the surface.
`ufi_capture_start` is `CaptureStart; AwaitIndex`, `ufi_capture_abort` is
`AbortTimer; AbortDma; AbortIdle`, sending is `SendBegin; SendRevolution*;
SendEnd`. The interrupt is split into `IndexStopsDma; IndexStores` because the
disk turns on during the copy; main cannot run in between (`MainAt`).

`Init` is the state behind `ufi_init`, whose call of `ufi_flux_init` has started the
stream already (`ufi_flux.c:77-82`), into the two buffers of that file and without
the input capture that would request a transfer. The first read's
`HAL_DMA_Start` finds the stream enabled and leaves it as it is. Nothing is
transferred into `g_flux_dma_buffer` until the stream was stopped once, and what
the interrupt copies from there meanwhile is `Stray`: a sample of no transition. So
the first revolution of the first read after power-up is never of the disk, which
`OneSurfaceOnly` and `StartsAtZero` say in so many words. In every read
`HAL_TIM_IC_Start_DMA` comes second on a stream that `HAL_DMA_Start` has just
enabled. Whether it then enables the input capture or returns early is decided in
the library: `capturing'` is either.

`SendRevolution` offers a revolution to the link. The ring takes it whole or, having
no room for it, not at all (`ufi_usb.c:130-131`), and the loop does not look at
which (`ufi_main.c:586`). Histories: `opened`, the turn whose pulse opened the
revolution; `moved`, that the host has moved the head since the read was started;
`taken`, the revolutions of this read that the ring has taken; `reads`, whether the
read is the first after power-up.

`CaptureService` is what the caller is promised: a read is accepted when idle,
gets an opening and then as many closing pulses as were asked for, is offered
revolution by revolution, or is cancelled. Its `Offer` may be refused and is not
repeated: no more can be promised of this code. `Refines` says that `FluxCapture`
implements it under the mapping at the end of the module.

### `FluxWrite`

All functions of `ufi_write.c`, the read that shares the interrupt, and the
order in which the interrupt serves the two; a read lasts any number of revolutions
and may be aborted (`AbortRead`). `ufi_write_process` is split
between the test of the index and the access (`ProcessTest; ProcessPulse`),
`ufi_write_abort` between gate and state (`AbortGate; AbortIdle`). Erase and
verify wait for the index and may time out. A verification may be refused
because the drive is missing. Two history variables say what the gate was used
for: `started` (a write was started) and `touched` (an abort or erasure
happened, either of which drives the gate beside the state machine).

### `DriveHead`

For each drive type the position the firmware believes (`counter`, a byte) and
the one the head has (`position`). Recalibration and seek are loops of one pulse
per step. `Connected` says which drives exist; the others accept pulses and
never report track 0. A drive whose head was sent against the inner end of its
way is in the history variable `stopped` until a recalibration finds track 0.

### `TransmitRing`

The ring holds byte numbers: byte *k* is the *k*-th accepted. `UsbSendFlux`
appends, `Flush` tells the endpoint where one packet lies, `FlushTimeout` leaves it,
`HostReads` empties the endpoint, `Respond` is any other answer that makes the
endpoint busy. The endpoint is given a pointer into the ring (`ufi_usb.c:174`), and
`tail` passes the packet at once (`:177`): the slots of `flight` count as free while
their bytes are still to be sent, and `packet` gets them as they are when the host
reads. A copy that runs past the end of the buffer sets `spilled`, one that goes
over `flight` sets `overrun`; both are history.
`ByteChannel` is what the sender is promised: a queue of bytes, from whose front a
packet takes some. It promises nothing once `broken` is raised, for which the ring
has `spilled` or `overrun`.

### `CommandLink`

The host program at one end, callback, dispatcher and flux sender at the other.
A command is its number and its kind: `nop`; `reset` (RESET and BOOTLOADER, which
start the device again); `long` (more than the 64 bytes of the buffer, which the
callback ignores); `header` (one packet); `abort` (one packet, and it ends a read);
`data` (header and data); `flux` (header, and flux when the disk has turned). The
copies the dispatcher makes of the command buffer are separate steps (`Take`,
`Decode`, `Execute`), so that a command arriving in between tears it. The host
gives up (`GiveUp`) only when the device has nothing to say and nothing to do
except to wait for the disk: its 5 s are longer than anything else the device
does.

The revolutions of a read go to the host through the ring. `held` has one entry
for each revolution with bytes in it, `left` counts those that the main loop has
still to send. Each of them is put into the ring, if there is room, and is
followed by one flush, which sends at most 512 bytes of what comes first
(`FlushPacket`). As many flushes as revolutions cannot empty the ring of a real
track, nobody else calls `ufi_usb_flush`, and what is left begins the flux of the
next read.

History variables: `late` (a packet was sent while the last was not
fetched, after the device's wait timed out), `refused` (such a packet was lost),
`abandoned` (the host gave up on a read in progress), `leftover` (a read ended with
bytes in the ring), `mistaken` (a packet was taken for another). Once
`abandoned` or `leftover` holds, packets and commands may be out of step, and
nothing but `TypeOK` and `Served` is promised any more. `Clean`, the negation of
both, is a condition of the other properties. A revolution too large for the ring
leaves nothing in it, but one that fits and has more than 512 bytes ends that
condition; until then, and for any number of commands that are not reads, the
properties hold.

### `MigDumper`

The caller, the monitor thread and the dump threads, each with its place in the
code, around `g_mig`. A section under the mutex is one step that waits until the
mutex is free; only the end of a dump is split (`DumpEnds; DumpReturns`), because
`mig_exit` and `mig_dump_wait` read `dump_active` and `dump_thread` without the
mutex. `mig_dump_start` is `StartCheck; StartRuns`, with the mutex released in
between, `mig_detect_device` is `ScanBegin; ScanMounting; ScanMount; ScanReady`
or `ScanError`, run by the caller or the monitor. The kernel side is one reader
with one partition: `plugged`, `mounted`, and `stale`, the mounts that outlived
their reader. Events of the reader and of every other USB device wait in
`events`. `revived` is history: a thread has set READY or BUSY over a state that no
longer allowed it, which `mig_dumper.c:345, 349, 803` and `:885` do. It is the
exception in `ReadyIsMounted` and `GoneIsNoticed`: an ejection that meets a dump is
outside both.

`Dangling` is what a failed `pthread_create` may leave in the handle of the dump
(`:347`) or of the monitor (`monitor = "dangling"`, `:134`). Joining it is
undefined: the call may return, or the program is `lost` in it, and `Restart` is
the user starting it again, with the kernel's mounts as they are. So `JoinsOnce`
says that no thread is joined twice nor the handle 0, and that `mig_exit` joins a
thread, and `CallsReturn` that a call returns or is lost there.

The caller calls `mig_init` before anything else and nothing after `mig_exit` but
`mig_init` (`Idle`), which `mig_dumper.h:205-213` asks for and the functions do not
test.

One program calls the library, from one thread; with several callers,
two of them could join the same thread in `mig_dump_wait`.

### `GbCartridge`

Reader and cartridge. A byte of the ROM is its own address, a record of page,
bank and offset, so that a byte from the wrong bank shows. The chips differ in
which registers they have (`Window`, `RamWindow`, `LowAfter`); they are external,
and `HUC1` stands for all chips that the reader treats by its default. `DumpRom`
is one round of `dump_rom`: bank selection and a chunk that ends with the ROM
area. `WriteChunk` is one round of `write_ram`; reading RAM is one round,
because an answer is smaller than a RAM bank.

A WRITE_RAM always begins at RAM address 0 and announces any length, but its data
are those of the packet that `tud_cdc_read` has put into `usb_rx_buf`, `fresh`
bytes, at most `MaxWrite`. What `write_ram` writes behind them is `junk`, old
bytes of the buffer or memory behind it; a saved game in several packets has its
later ones taken for commands, which is why any command may follow. The LED is
toggled between commands (`Blink`); a read while the LED is dark is also a write,
with unknown data, to a register the chip chooses (`Disturbed`). `Swap` is the
user changing the cartridge while `g_cart_info` stays. `save` is history: what the
host wrote, a function on those cells whose last write came with a byte of the
host. All registers have one width, `Low`; RAM comes in whole banks. The run uses
the symmetry of `Data`, whose values nothing tells apart.

### `IecBus`

`atn`, `clk` and `data` are what the controller pulls; a line is low when either
end pulls it. A dialog of `ufi_iec.c` is a `script` of steps: send a byte,
return if that failed (`Check`), turn round, receive, and compute what the function
returns (`Result`): a block read fails unless its buffer was filled
(`ufi_iec.c:431`), status and directory succeed whatever they have read. A dialog whose
drive has nothing more to say for a buffer is `Short`, the only failure that
`BusLeftFree` allows with a faultless drive. `pc` is the place inside
`ufi_iec_send_byte` and `ufi_iec_receive_byte`. A polling loop counts `timeout`
down; leaving it by time sets the counter to its largest value, as the code's
post-decrement does (`AfterPoll`). Delays are long enough for the drive to react:
the step after one needs `Settled`.

The drive is external. It is the friendly counterpart that the code's comments
describe: it holds DATA after ATN, waits for CLK low before it counts a release,
latches the short CLK pulse before a byte when it holds DATA already, sends the
edges of a bit when the controller waits for them, and takes a while to notice
EOI or have its next byte. It may be absent or stop at any point (`Hang`), and it
may be slower than a polling loop (`late`, history). The lines that a failed byte
leaves low (section 7) are in the model, but no property is about them.

### `DriveControl`

Each drive type has `track`, `side` and `motorOn` of its own; select, motor, side
and phase pins belong to drives, and `AMIGA` and `SHUGART_A` are the same one.
`head` is the real position, in cylinders or, for the Disk II, half tracks.
Seek and recalibrate move the head pulse by pulse (`SeekStep`,
`RecalibrateStep`), single steps and switches are one action each. A coil pulls
the Apple head to the half track next to it whose number fits its phase; from two
away the head may go either way. `known` is history: the types whose counter was
set on TRACK0 and whose drive was moved only under that type since, and never
against the inner end.

## 4. Runs

| Run | Instance | Distinct states | Shows |
|---|---|---|---|
| `FluxCapture` | 2 surfaces, 2 slots, buffer of 3 samples, 3 transitions a turn, turns modulo 2 | 1,566,100 | section 1's properties, the refinement, that a read shows one surface unless the head is moved, and that reads end |
| `FluxWrite` | 3 samples | 2,764 | data bounds, gate, and that a started write gets its turn |
| `FluxWriteAbort` | 2 samples | violated | an abort preempted by the interrupt leaves the head writing |
| `DriveHead` | 2 drives and a missing one, ways of 2 cylinders, 3 tries | 91,180 | counter against head, recalibration, every function returns |
| `TransmitRing` | ring of 7, packets of 3, revolutions of every size | 33,690 | indices and stream |
| `TransmitRingBounds` | ring of 6, packets of 2 | violated | a copy passes the end of the buffer |
| `CommandLink` | all 7 kinds, 2 command numbers, reads of 2 revolutions, ring with room for 2 | 1,261,323 | commands, answers, silence |
| `MigDumper` | 2 dump threads, 2 events in the queue, 1 stale mount | 495,523 | dump threads, handles, state against mount and reader, every call returns |
| `GbCartridge` | 7 cartridges of 6 chips, up to 2 pages of 3 banks of 2 bytes, up to 2 RAM banks of 2 bytes, packets of 2 | 1,201,404 | bytes of the ROM come from the bank that was meant; the saved game is what packets have brought |
| `IecBus` | bytes of 3 bits, 1 polling round, counters modulo 4, commands and answers of 2 bytes, buffers for 1, 2 and 3 | 1,269,503 | bytes and EOI arrive, clock has one owner, the bus is left free, dialogs end |
| `IecBusAbsent` | same | violated | with no drive on the bus, bytes are called sent |
| `DriveControl` | a Shugart drive under two names and a Disk II, ways of 2 cylinders and 4 half tracks | 864,008 | counter against head, pins against status, functions end |

**Why the bounds are enough.** *Capture*: two slots give a first and a later
revolution and a request beyond the clamp (requests run to slots + 1); a buffer of
3 with 3 transitions a turn wraps inside a turn, and, when some of the first pass
during the copy, does not; two turn numbers tell the next turn from the same one
and from the one after, which is what a wrong store or a missed pulse would give;
the proofs take any number of them. *Write*: three samples give a first, a middle
and a last access. *Drives*: two drives make the counter of the inactive one
stale, targets go one beyond the way, the number of tries exceeds the way as 85
exceeds the firmware's tracks. *Ring*: 7 and 3 have no common factor, so copies
and packets meet the wrap in every alignment; 28 bytes go round four times;
revolutions of any size from less than a packet to more than the ring meet a
packet still in the endpoint. *Link*: two numbers tell the last command from a new
one; two revolutions and room for two let one be refused, the ring be left empty
or not, and a packet end inside a revolution. *MIG*: two threads are a dump that
runs beside one that was never joined; a third dump finds no thread, which is also
how `pthread_create` fails. Two events are those of the device and its partition,
or two that may wait behind each other; one stale mount lies below a new one.
*Game Boy*: seven cartridges have every chip with a case of its own, one and two
pages, no RAM, one and two RAM banks; a bank of two bytes lets a request begin
inside it and cross its end, the last bank of a page included; a packet brings up
to two bytes, all, some or none of those announced. *IEC*: three bits have a
first, an inner and a last one; two bytes have one without and one with EOI; the
buffers are smaller than the answer, as large and larger; one polling round
separates an answer in time, at the last test and too late. Bytes that mean
something under ATN are five different ones of eight. *Second drive control*:
recalibration may take 3 steps on a way of 2 cylinders, more than it needs as in
the code, and takes 2 with a Disk II, which never finds track 0; targets go one
beyond the last track. The proofs need none of these bounds.

**Fairness.** The main loop has no blocking call that does not time out, and an
interrupt handler runs to its end: weak fairness of `MainContinues` and
`IndexHandler`. The index handler is fair because the motor is on while a capture
or write waits; a drive without a disk is outside `ReadEnds` and `WriteEnds`. On
the link the host reads what is there or times out (`Fetch`, `GiveUp`). The
command actions (`Command`, `Send`) are never fair: nothing makes a user send
commands. In `MigDumper` every thread is scheduled, a joined thread ends and the
mutex is granted (`CallContinues`, `Monitor`, `Dump`); calls, plugs, a restart of
the program and events of other devices are not fair. `TransmitRing` states safety
only. On the IEC bus the controller's program runs (`Controller`) and a drive that
has something to do does it (`Drive`), unless it has stopped: delays are longer
than its reactions. In `DriveControl` the function being executed goes on
(`Continue`). `GbCartridge` states safety only.

## 5. Proofs

Each `*_proof` module extends its component, `UsbLink_proof` the two that model
`ufi_usb.c` (whose names differ for that), and every theorem holds for all
constants that satisfy the component's `ASSUME`:

| Module | Theorems | Argument |
|---|---|---|
| `FluxCapture_proof` | `TypeCorrect`, `ReadsWhole`, `Quiet`, `Pure`, `Undisturbed`, `ReadsAreFinite`, `Refinement`, `CaptureForWriting` | `IInv` adds: `Progress`, how many revolutions each state may hold; `Control`, which of timer and stream may be enabled in each state and main step (this is what makes an abort split by the interrupt harmless), and that only the first read can have the stream of `ufi_flux_init`; `Stream` and `Current`, the DMA buffer holds a gapless stretch of the current turn once a revolution was stored. `Place`: until the head is moved, every sample stored for a read carries the read's surface, for which an abort must not leave samples behind (`Control` again). `Quiet` and `Undisturbed` have the first read after power-up as their exception. The refinement shows each step to be a `CaptureService` step or a stutter, using `Control` for the steps of an abort; it is about what is offered, and a refusal is one of the service's steps. `CaptureForWriting` shows that the capture's state takes the steps `FluxWrite` has for it, and no others: what is proved there of the shared interrupt rests on this |
| `FluxWrite_proof` | `TypeCorrect`, `DataSafe`, `GateSafe` | lengths, index and state are inductive together; the gate invariant needs the history variables, since abort and erasure do break the correspondence |
| `DriveHead_proof` | `TypeCorrect`, `Recalibrates`, `CounterTells`, `FunctionsAreFinite` | way left plus tries left suffices for recalibration; `NotBeyond` and `Exact` are kept also inside the loops, for the drive being moved (`Known`) |
| `UsbLink_proof` (`TransmitRing`) | `RingTypeCorrect`, `BytesConserved`, `StreamIsIntact`, `RingIsChannel` | modular arithmetic of the indices; `Content`: slot `tail + i` holds byte `taken + i`, and the slots of `flight` those before it, unless a copy spilled or overran them; `Filled`: a packet never passes what was accepted. `RingIsChannel` maps the bytes in `flight` and those from `tail` on to the queue of `ByteChannel`; with `Content` before and after a step they are a run of numbers, which an acceptance makes longer at one end and a packet shorter at the other |
| `UsbLink_proof` (`CommandLink`) | `TypeCorrect`, `CommandsStayWhole`, `AnswersMatch`, `CommandsServedOnce`, `SilenceExplained`, `CommandsAreFinite` | who waits for what tells where its command is: `Mail`, `Replies`, `Reads`, `Answers`, all conditional on `Clean`, that no read was given up or left bytes in the ring; `Heard` adds, while no wait timed out, that the part of the answer still awaited is on the link or still to be sent |
| `MigDumper_proof` | `TypeCorrect`, `ThreadsSafe`, `Mounted`, `RemovalNoticed`, `NobodyInACircle` | `Handles`: the handle is that of the dump at work, and no dump is at work once its thread was joined or the library closed, so the unlocked tests lead to no second join; a handle that a failed `pthread_create` left is excepted, in `ThreadsSafe` for `mig_dump_wait` and in `NobodyInACircle` for a caller lost in it; `MountsCover` counts: every scanner that has mounted and not told yet, and the state if it says connected, has a mount of its own; `Noticed`: a reader that is gone has its removal in the queue, or the state is not connected and no scanner can make it so unseen. Both hold until `revived`: an ejection between the tests and the writes of a dump is what they do not cover. `NobodyInACircle` states the guards of each thread: the mutex is held by a thread that is about to release it (`Held`), and the monitor and a dump that the caller joins wait for the mutex only |
| `GbCartridge_proof` | `TypeCorrect`, `RomIsTrue`, `SaveIsTrue` | `WindowShows`: whatever the registers held, selecting the bank of an address makes the chip show it if the reader knows the chip; `ByteIsTrue` carries that over the bytes of a chunk, which never leaves the ROM area; `RamIsOpen`: from selection to the end of a write the RAM answers, which is why no byte that a packet has brought is lost (`SaveIsTrue` says nothing of those it has not); `RamWindowShows`: the register shared with the ROM is rewritten before every RAM access |
| `IecBus_proof` | `TypeCorrect`, `BytesArrive`, `BusIsOrderly`, `DialogsAreFinite` | see below |
| `DriveControl_proof` | `TypeCorrect`, `PinsCorrect`, `CounterCorrect`, `FunctionsAreFinite` | `Selection`: what is selected is the drive of the current type; `OnTrack0`: only a Shugart drive can have calibrated a type. Then a pulse moves exactly the heads whose counters it changes, and every other type that stands for a moved drive leaves `known` |

The safety invariants alone are not inductive. That a slot is in bounds, for
instance, needs that revolutions captured so far are fewer than requested
whenever the state is `RUNNING`, which in turn needs that no abort in progress
coexists with a start.

*The IEC bus.* `IInv` of `IecBus_proof` is `Types`, for any drive, and for a
faultless one `Owed` and `InStep(c)` for some context `c`. `Owed` says of the
result that ends a script: the number of bytes it asks for is there, or the drive
has sent its last one, or the receive into a buffer of that size is still to come.
So only a block can fail, and only if the drive had less to say. A context says
where a dialog stands: ATN, who was addressed, whether anything was received
(`fresh`), whether CLK was given to the talker (`turned`). `Allowed` says which
steps of a script are right in a context, `After` what they lead to, and
`DialogsLead` proves once that every dialog is a path through contexts that ends
with nobody addressed and ATN released, for commands of any length. `InStep` has
five parts. `Standing`: the rest of the script leads from `c` to such an end.
`Agreed`: the drive has the role the controller thinks, and has heard what was
sent, also in the moment in which it has taken a byte that the controller does not
yet count (`Acked`). `Received`: the bytes in the buffer begin the message, the
byte in the making has its first bits. `HearingInStep` and `TellingInStep` pair
every place of the two byte functions with the phases in which a listening or
talking drive may be there, its lines, and the bits it has shifted. This is what
the alternation of the edges is, and what makes every bit be read while it is on
the line. Whether a delay or a poll was long enough enters at two points only:
`SettledWaits`, what a drive waits for once it has reacted, and `UnreactingWaits`,
what it waits for if a loop ends without `late`. The proof needs that the bytes
with a meaning under ATN differ, which `IecAssumption` takes from
`ufi_iec.c:287-322` (0x20, 0x40, 0x3F, 0x5F, 0x60). A drive that hangs or is late
leaves the invariant's second half; the types and the end of the dialogs are
proved for it as well.

*Why things end.* Liveness under fairness is beyond the prover, but the part of it
that does not concern fairness is proved where steps could repeat: a measure, a
natural number or for the bus five of them in order, that every step of a
function, a read, a command or a dialog decreases and that only a new command or
call increases (`ReadsAreFinite`, both `FunctionsAreFinite`, `CommandsAreFinite`,
`DialogsAreFinite`). A read's counts the pulses, copies and revolutions to come;
that an abort split by the interrupt also decreases it needs `Control`. What is
left to the runs is that something of it always has a step. `NobodyInACircle` is
the converse for the MIG library: something has a step, but nothing is counted,
since the monitor polls for ever.

**Only model-checked**: the liveness properties `ReadEnds`, `WriteEnds`,
`FunctionEnds`, `Served`, `CallsReturn`, `DialogsEnd`, `FunctionsEnd` themselves,
and the violations.

## 6. Not modelled

*The second capture*, `ufi_flux.c`: the interrupt handler of the program calls the
capture of `ufi_main.c` (`ufi_main.c:508-517`) and never this one. Its callbacks
do not have the names of the HAL's, so nothing calls them either, and a capture of
`ufi_flux.c` has no next step to model. Only `ufi_flux_init` is called, by
`ufi_init`, and what it leaves behind is in `FluxCapture.Init`. *The MIG web
service* does by itself what the library does: requests check and set one status;
section 7 has the race. *The EPROM reader* is sequential and keeps only the
detected type. The IEC functions of `ufi_main.c:369-506` are a second version of
those of `ufi_iec.c`, with inverted lines; `IecBus` has the one in the file of its
own. Debug output, clocks, descriptors and register set-up keep no state that
another part reads. The decoders of `ufi_processor.py` compute on arrays without
keeping state. Web panel, schematics and set-up script have no behaviour of their
own to check, and the Switch cartridge module is a document without code. Left out
of the modelled parts: timestamps and the contents of samples, precompensation,
progress percentages, motor and LED outputs, delays as durations (a timeout is a
nondeterministic step), and the byte layout of packets. Of the MIG library:
cartridge data, file operations, copying, the progress record with the flag that
`mig_dump_cancel` sets in it, a program with several calling threads, a udev
monitor that cannot be opened, and `mig_wait_for_device`, which with a timeout of
0 polls until a reader comes. Of the second drive control: what its functions
return and `ufi_drive_get_status`, which copies pins. Of the Game Boy reader:
BOOTLOADER, and commands of which a packet brings only the first bytes, so that
addresses and lengths are old ones. Of the IEC bus: drives that keep to the
protocol in another way than the one above, and durations; that each delay is long
enough is assumed. Of the link: the bytes of a packet, so that the endpoint's
pointer to the response header, a local variable of the dispatcher, is no part of
`CommandLink`.

## 7. Observations without a run

Facts met while modelling that concern sizes, constants or layouts rather than
the order of steps.

- `ufi_main.c:15` has room for "Max 5 Laufwerke", but `DRIVE_IEC` is 5: its entry is
  the memory behind the array. `DriveHead` gives that drive an entry of its own.
- `ufi_main.c:198`: the first read after power-up is started on the stream that
  `ufi_flux_init` has enabled, so its first revolution is what
  `g_flux_dma_buffer` held, not the disk. This is `Stray` in `FluxCapture`.
- `ufi_usb.c:200-202` gives `UFI_CMD_NOP` no answer, while
  `docs/USB_Protocol_Specification.md:556` recovers with "Send CMD_NOP, wait for
  response". RESET and BOOTLOADER (`:337-347`) and commands of more than 64 bytes
  (`:114`) have none either; `OthersAreAnswered` says that every other command has.
- `ufi_usb.c:193` keeps the response header on the stack and hands the endpoint its
  address; the dispatcher returns before the host has read it.
- `docs/UFI_Code_Review.md:229` calls the DMA capture "glitch-free", but
  transitions that pass while the interrupt copies (`ufi_main.c:527-553`) are in
  no revolution. `FluxCapture` has this loss; `TurnsInOrder` says there
  is no other hole.
- A full track is about 200 KB and the ring 64 KB: `ufi_usb_send_flux` returns
  `BUFFER_FULL` and the main loop ignores it (`ufi_main.c:586`), so the read goes
  unanswered. This is `BufferFull` in `CommandLink` and the refusal in
  `CaptureService.Offer`.
- `ufi_usb.c:365` announces chunks of write data that no command delivers.
- `ufi_processor.py` puts a 16-bit length behind the command code, where the
  dispatcher expects the first parameter.
- The first revolution of a read holds samples from before its index: the stream
  starts with the timer (`ufi_main.c:198-205`) and the opening pulse does not reset
  it, while `ufi_firmware.h:62` calls a revolution the data between two pulses.
- `ufi_drive_seek` ignores a failed recalibration (`ufi_main.c:314`) and returns 0
  (`:330`); `docs/USB_Protocol_Specification.md:302` has an error for it.
- `ufi_usb_flush` sends at most 512 bytes (`ufi_usb.c:172`) and its only caller is
  `ufi_usb_send_flux` (`:145`): what is left waits for the next revolution or read,
  whose data it begins. This is `leftover` in `CommandLink`.
- `ufi_usb.c:174-177` frees the bytes of a packet before they are sent; the next
  revolution may go over them. This is `overrun` in `TransmitRing`.
- `ufi_processor.py:160` never compares the echoed command number
  (`ufi_firmware.h:166`): after a read that was given up, old flux is taken for a
  new answer. This is `abandoned` in `CommandLink`.
- `ufi_write.c:273`: a verification that times out leaves its capture running; the
  main loop later sends a revolution nobody asked for. `ufi_write.c:311` divides by
  `bytes_expected` and `flux_count`, which are 0 after an abort.
- `ufi_iec.c:161-166, 238-243`: a loop `while (line && timeout--)` leaves
  `timeout` at its largest value when time is up, so the test after it takes a
  timeout for success (run `IecBusAbsent`). `:334-338` returns with ATN asserted.
  OPEN 0xF0 (`:444`) and CLOSE 0xE0 (`:480`) go through a function that masks
  them to 0x60; block reads never open their channel; CLK stays pulled after
  unlisten and untalk; no loop waits for the listener to release DATA.
- `ufi_iec.c:246`: the controller sleeps 200 us before it looks for EOI; a drive
  that does not wait would have sent bits by then. `IecBus` has a drive that waits.
- `ufi_drive.c:314` counts two phases for a track, but a seek by *n* tracks makes
  *n* phases (`:359-373`) and returns 0. Nobody pulls TRACK0 for a Disk II, so its
  recalibration fails after 50 phases. `:418` says "Low = Seite 0" where side 0
  sets the pin. Select does not restore the side line.
- `gb_gba_dumper/src/main.c:330-342`: a request that begins in bank 0 and goes on
  into bank 1 reads the bank selected last. This is the exception in `RomReadsTrue`.
- `gb_gba_dumper/src/main.c:193`: MBC1's upper bits are written only for banks
  above 0x1F, so that later reads of lower banks use old ones, and banks 0x20,
  0x40 and 0x60 cannot be reached. `:262-285` detects neither MBC6, MBC7 nor
  MMM01, and MBC2's RAM has size 0 and is never read.
- `gb_gba_dumper/src/main.c:450, 465`: answers are cut at 4092 bytes, where the
  Python tool in `SPECIFICATION.md` steps by 4096; READ_RAM ignores its length.
  `:482`: a WRITE_RAM longer than its packet writes old bytes of the buffer and,
  beyond it, other memory, and the rest arrives as new commands; no command writes
  behind the first 4093 bytes of RAM. This is `junk` and the exception in
  `SaveTrue`. The DETECT of `SPECIFICATION.md`, SET_MODE, ERASE and WRITE_FLASH
  have no case.
- `mig_dumper.c:321-345` tests the state, releases the mutex and sets BUSY
  without another test, and `:885` ends every dump with READY: a reader that was
  pulled out meanwhile is called connected again until the next event. This is
  `revived` in `MigDumper`, the exception in `ReadyIsMounted` and `GoneIsNoticed`.
- `mig_dumper.c:681-695` does not ask which device an event is about: the removal
  of any USB device sets DISCONNECTED, and when any is plugged in the mounted
  reader is mounted again, which the kernel refuses, and the state becomes ERROR.
- `mig_dumper.c:161-167`: `mig_exit` joins a dump thread only if it is active
  and unmounts once. A dump that nobody waited for stays unjoined, its handle is
  overwritten by the next (`:347`), and mounts of readers pulled out remain;
  `mig_dumper.h:216-221` promises that exit releases the resources.
- `mig_dumper.c:347-351`: a `pthread_create` that fails may leave any value in
  the handle, and the code does not clear it; `mig_dump_wait` (`:384-388`) joins
  what is not 0. So may the monitor's at `:134`, which `mig_exit` joins. This is
  `Dangling` in `MigDumper`.
- `mig_dumper.c:377` sets a flag that the dump thread never reads.
- `mig_api.py:182-191` checks and then sets the status in separate steps.
