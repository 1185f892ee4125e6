# PyPC: specifications, model checking and proofs

PyPC is an emulator of an IBM PC/XT that host programs can debug, drive and watch: a JSON-RPC server stops and
steps the machine, a mailbox in guest memory runs DOS commands, a VNC server shows the picture, and a host
directory appears as a FAT16 disk. This directory holds TLA+ modules for the parts of it in which something
can go wrong that a unit test hardly reaches, TLC configurations that check them on small instances, and TLAPS
proofs for every value of the constants. Paths and line numbers refer to the repository's root.

- [The system](#the-system): its parts, their state, operations and hard cases
- [Plan](#plan): what is done, what comes next
- [The modules](#the-modules): how state and actions correspond to the code, what is checked, within which
  bounds, under which fairness
- [Where code and documentation disagree](#where-code-and-documentation-disagree)
- [Proofs](#proofs)
- [What is not modelled](#what-is-not-modelled)

## The system

**Threads.** One *emulator thread* runs `main.py`'s loop: it answers queued debug requests, then executes the
guest (CPU, bus, devices; a device's `Tick` runs after every instruction). Each debug connection, VNC viewer
and Telnet session has a thread of its own. They meet at four places: the debug server's request queue, the
keyboard's buffer and schedule, the display's memory and pixel buffer, and the VNC server's frame cache. Host
programs outside the process (the mailbox client in `guest/dos_control.py`, editors in a mounted directory)
meet it through TCP and through files.

| component | state it keeps | operations | interacts with | hard because |
|---|---|---|---|---|
| Debug server (`debugserver.py`) | request queue, pending event and its lock, a response queue per request | submit, poll, process a batch, answer | client threads block in it; main loop polls it | event and queue are two things; `get_nowait` runs without the lock; flooding, hang-ups, reconnects |
| Execution control (`main.py`) | paused, step, run-until predicate and limit, skip id, operation ledger, state revision, cached hook flags | pause, continue, step, run_until, wait, breakpoints, registers, trace, import; one round of the loop | breakpoints, CPU hooks, debug server, snapshots | six ways to stop and five to start; one-shot breakpoints vanish in the middle of a round; a fast path that observes nothing |
| Breakpoints (`debugbreakpoints.py`) | table in creation order, hit counts | create, delete, scan at an instruction, an access, an INT | consulted from the CPU's hooks | hit selection, conditions, one-shots, several matches of one event |
| DOS mailbox (`dosmailbox.py`, `guest/dos_control.py`, `.asm`) | command, state and data bytes in guest memory | host: request, collect, ready; worker: poll, dispatch, reply | JSON-RPC calls that may fail after they took effect | no request ids; lost replies, timeouts, late effects of abandoned connections |
| Interrupt controller (`i8259.py`) | request, service and mask registers, initialization state | request, acknowledge, EOI, OCW/ICW writes | devices request, CPU acknowledges | nesting, any order of programming |
| Keyboard (`keyboard.py`, `device.py`) | scan codes, scheduled interrupts, flag, hold and reset bits | push (host threads), read, control port, Tick | PIC; VNC and Telnet threads | flag read without the lock; interrupts and codes are counted separately |
| FAT16 host directory (`virtualfat16.py`) | image, known paths, signatures and hashes of mirrored files | sector write and mirroring walk, removal of stale paths | host directory edited by others | guest writes sectors in any order; walks that fail half way; external edits |
| VNC server (`vncserver.py`) | cached frame and version, history of changed rectangles; per viewer the last version sent | request, render, send, change of format | display written by the emulator, snapshots | buffer shared without a lock; versions marked before or after a change; slow viewers |
| Timer, DMA (`i8253.py`, `i8237.py`) | counters, latches, byte phases; addresses, counts, masks | program, latch, Tick; batched refresh | PIC, refresh | arithmetic at wrap-around, batches against single steps |
| Serial port (`uart8250.py`) | registers, receive queue, transmit ring | guest reads and writes; host read by offset | PIC, debug server | ring that drops, loopback, interrupt priority |
| Observation rings (`debugtrace.py`, `debughardware.py`, `videohistory.py`) | events with sequence numbers, drop counts | start, capture, page by cursor, stop | CPU and device hooks, debug server | cursors of dropped events |
| XT-IDE (`xtide.py`) | sector buffer, offset, target drive, status | commands, data port | disks | abandoned transfers |
| Snapshots (`machinesnapshots.py`, codecs, `checkpointbundle.py`) | archives on disk | export, validate, install | everything: needs frame, display and keyboard locks | all or nothing; publishing without overwriting |
| CPU (`i8088.py`) | registers, flags, prefix and repetition state, shadow, halt | one Tick: interrupt, instruction, trap | PIC, bus, debugger | repetitions that are interrupted; flags that several instructions share |
| bus, memory, PPI, video adapters, BIOS services, Telnet, game port, tools | registers and bytes | ports, rendering | | data rather than protocol; see the end |

What makes each correct, in one line: the **debug server** answers every request once and lets the machine
run; **execution control** never loses a stop, never leaves a predicate behind, never misses an observer,
never accepts a stale revision; **the mailbox** runs a job at most once and never gives one job's answer to
another; **the PIC** nests; **the keyboard** loses no interrupt and invents none; **the mirror** equals the
guest's files and keeps what others wrote; **the VNC server** sends every viewer what it lacks; **timer and
DMA** lose no period however cycles are cut into Ticks; **the serial port** announces every condition the
guest has enabled; **a recorder's** pages have no gap; **the XT-IDE controller** stores what was sent, where
it was asked for; **snapshots** are published whole and installed wholly or not at all; **the CPU** gives a
program the effect its code has without the interrupts between.

`PROJECT.json` lists these components with their status, and under `hazards` each place where one of these can
go wrong, at its line, with the properties aimed at it.

## Plan

Done, in this order (most important behaviour first):

1. `RpcService`, `DebugServer`, `DebugServerProofs`: the path every request takes.
2. `Breakpoints`, `ExecControl`, `MainProofs` (also about 9): what requests do to execution.
3. `JobService`, `Mailbox`, `MailboxProofs`: a client of both, over an unreliable connection.
4. `Pic`, `Keyboard` (composes `Pic`), `KeyboardProofs` (about both): interrupts from host threads.
5. `HostFat`, `HostFatProofs`: mirroring with failures and external edits.
6. `Vnc`, `VncProofs`: shared rendering, with displays and snapshot imports.
7. `Dma`, `Timing` (extends `Dma`): batches of cycles and of refresh requests, latched counts.
8. `Rings`, `Uart`, `XtIde`: recorders paged by cursor, interrupt conditions of the serial port, abandoned disk
   transfers. `DevicesProofs` is about 7 and 8.
9. `Checkpoint`: export and import with failures, a dying process and the locks of other threads.
10. `Instructions`, `StringProgram`, `Cpu` (implements `StringProgram`), `Alu`, `ProcessorProofs`: interrupts
    between repetitions, and arithmetic over several instructions.
11. `Devices`: the processor, its arithmetic and the devices of 4, 7 and 8 (without the keyboard) in one specification, so
    that one run checks each of them.

Left to model, by value: a rendering that fails half way (`Vnc`); host directories as the disk of a snapshot
and several disks (`Checkpoint`); worker restarts (`Mailbox`); the registers of the video adapters; addressing
modes and the other instructions.

Every safety property the runs are to pass is proved (see [Proofs](#proofs)). A proof of another property of these
parts would begin with the strengthened invariants named there.

Abstract specifications: `RpcService` (the debug server), `JobService` (the mailbox), `StringProgram` (the
CPU). Worth stating: a ring as a window on an unbounded stream.

## The modules

Every action is one handler, or the part of one between two points at which another thread can get in. A
definition under a comment that begins with "Mutant:" is not part of the specification: it is a plausible bug
in the definition that follows it, and serves to show that a property can fail (`PROJECT.json` lists which
one).

### Debug server: `RpcService`, `DebugServer`, `MCDebugServer`

`thread[c]` is the place of connection c's `_client_loop`/`_submit`; `requests`, `pending`, `lock` are
`_requests`, `_pending`, `_pending_lock`; `cpu` is the place of the emulator thread in
`has_pending`/`process_pending`. `put` and `_pending.set()` are two steps under the lock (`PutRequest`,
`SetPending`); the drain takes no lock (`TakeRequest`); the final `empty()` test and the update of the event
are two steps under it (`CheckEmpty`, `UpdateFlag`). A handler is left to `ExecControl`: it returns or raises.
`PeerSends`, `PeerCloses`, `Accept` are the environment.

Run `debugserver`: two connections, batches of one (the code: eight), one buffered line. Two connections
suffice to have one put while the other is being answered and to leave a request behind a full batch; a batch
of one makes that happen at once. `NoStrandedRequest` (a published request is announced by the event),
`MachineKeepsRunning`, `EveryRequestAnswered`, and `ImplementsService` (refinement of `RpcService`, with its
fairness). `TypeOK` and `OneAnswerPerRequest` (a request is in exactly one place, and nowhere when its thread
is not blocked) are proved. *Fairness*: weak fairness of the emulator thread and of a connection thread that
is inside the lock or has its answer -- what a scheduler gives; peers need never send. The queue is
first-in-first-out, which is what makes waiting bounded (a LIFO queue is the mutant that starves).

### Execution control: `Breakpoints`, `ExecControl`, `MCExecControl`, `MCExecResume`

`Breakpoints` has the table, a function on the ids in use (ids grow, so creation order is their order), and the
scan as pure operators; hits are counted down to the next selected one
instead of up. `ExecControl` cuts a round of `while True` at `poll` (requests are handled; `FastBatch` or
`BeginTick` follows), `tick`, `exec` (`AccessMemory` may happen here), `after` (`StopOnHit`, `StopOnDeadline`,
`StopOnStep` or `KeepRunning`, in the code's order of precedence, over what every round does, `EndRound`).
`deadline` is what is left of the guest-time limit. `observed` is the machine a client read under a
`state_revision` that is still current: the number itself only matters by equality. An instruction may do
anything to the guest (`machine' \in Machine`). The guest has one piece of state that a request changes without
a new revision: `memory.read` (`MemoryRead`) goes through the bus at any time, and a VGA in mode 12h or 13h
reloads its read latches from the byte (`vga.py:375-382`), though `main.py:731-743` leaves `revision` alone. Other
devices do not change by a read of memory.

`memStop` and `intStop` are the stops the CPU keeps until the round has ended. A hook that is taken away takes
its stop with it (`RefreshHooks`; `i8088.py:859-862`, `:894-897`), so the order in which `EndRound` asks, refreshes and
asks again (`ConsumeStops`) decides what is left for a later Tick.

Run `exec`: one instruction address, one watched byte, one vector; four kinds of public breakpoint (one skips
a hit, one is one-shot) and three predicates, one conditional; two operations with one retained; two
breakpoints; two cycles; traces of one instruction. With one address everything is in everything else's way;
two breakpoints are what one-shot, predicate and public one need to collide; two operations with one retained
make eviction happen. `OperationLedger`, `RunUntilOwned`, `ObserversArmed`, `CurrentRevisionIsTruth`, and as
action properties `StopReasonsKept`, `HitsStop`; `StepsComplete` and `LimitsBoundRuns` are liveness.
`CurrentRevisionIsTruth` has the one exception the code has: under a current revision the latches may be those of
a later `memory.read`, all else is as it was read. `HitsStop` is about both kinds of hook, over all steps of a
round: what they selected survives until the Tick ends and is then reported to clients and to the operation,
the watchpoint's first; a stop that lost against it does not stop a later Tick, and no Tick without a stop
reports one.
*Fairness*: weak fairness of the round: the loop runs while the machine is not paused. The emulator may leave
its loop (`LeaveLoop`, after five zero opcodes), so `CHECK_DEADLOCK FALSE`.

### DOS mailbox: `JobService`, `Mailbox`, `MCMailbox`

`Mailbox` has the worker of `dos_control.asm` (`worker`), the emulator serving calls in the order they were
sent (`queue`), and the client of `dos_control.py` as a program of calls: `CallAt` says which call `pc` makes,
`OnReply` and `OnError` where it goes. `Fail` may strike before a call is sent, after it was sent and before
it is served, or after it took effect; the call stays sent. The *controller* follows `guest/RECOVERY.md`: it
submits a job again only when the client says that it was not published. The number of a job is in the model
only -- the mailbox has no request ids -- and lets the properties say whose answer is whose.

Run `mailbox`: three jobs, four unserved calls: enough for the calls of an abandoned attempt to be served
while the next job is being submitted. `RerunIsSafe`, `MessagesWhole`, `NotLeftPaused`, and `ImplementsJobs`
(refinement of `JobService`: a job runs at most once, a result taken is its own). No fairness is assumed; only
safety is claimed. The controller may run out of jobs, so `CHECK_DEADLOCK FALSE`. Assumptions: one controller,
no worker restart by the operator in the middle of a job, calls served in the order sent.

### Interrupt controller: `Pic`, `Devices`

A register is the set of the levels whose bits are on. `Acknowledge` is `SetIRQBeingServiced` with
`GetPendingInterrupt`'s choice; `interrupted` is a history of who was acknowledged while who was in service. A
level without a device (`Levels \ Wired`) can be requested but never acknowledged. Run `devices`: three lines,
one without a device. Three levels are needed for a handler that is interrupted and interrupts. `FullyNested`
also says that `inService`, which a non-specific EOI ends, is the level acknowledged last; `RequestsKept`: a
request goes away only when it is acknowledged or the controller is initialized.

### Keyboard: `Keyboard` over `Pic`, `MCKeyboard`

Host threads push (`PushCode`, `PushFinish`: two steps under `_state_lock`); the emulator alternates between a
guest instruction and the devices' Ticks; `TickLooks` reads `_interrupt_pending` without the lock,
`TickCounts` goes on with it. The guest is external: a BIOS-like IRQ 1 handler that reads, holds and releases
the keyboard and ends the interrupt, may allow nesting, and is interrupted by a timer line. Scan codes are
numbered by their push. In Telnet's map `[` and `]` have only a make code, and its cursor keys look their scan
codes up as characters; which code is pushed makes no difference here. Run `keyboard`: two threads, three
codes, a delay of two Ticks, a timer interrupt. `ScheduleAnnounced` is the comment at `keyboard.py:31-34`,
stated for every interleaving; `EveryIrqHasItsCode` relates schedule, request line and handlers to the buffer;
`SchedulesFire` is liveness. *Fairness*: the emulator thread runs, and a thread holding the lock finishes.

### FAT16 host directory: `HostFat`, `HostFatProofs`, `MCHostFat`

`disk` is the image (root directory, FAT, data clusters 2 to `MaxCluster`), `host` the host directory, `paths` and `synced` what
the mount remembers. A `Write...` action is one sector write with the whole call behind it: `SyncDirectory`
applies `SyncItem` to the entries in the order the code visits them and stops at the first error,
`RemoveStale` removes longest paths first and only what is unchanged. The guest writes single sectors in any
order, so chains are short, crossed or cyclic in between; `Successor` keeps it a DOS in one respect: one entry
write does not turn a file into a directory. `EditFile` and `DeleteOnHost` are other programs.

Run `hostfat`: two names, two root entries, two clusters, three writes, one external edit, from every initial
tree of files and directories; names and bytes are symmetric. Two names and slots give renames over each other
and cross-linked chains; three writes give the sequence in which DOS creates or extends a file, with a failing
walk in the middle; files in a directory exercise the removal order. `MirroredUnlessLost` (mirroring only what
is dirty equals mirroring everything), `NothingLeftBehind`, `EditsKept`: no write of the guest removes what
another program stored, and none changes it, except the guest's own write to the file of that path, which puts
the guest's bytes there, all of them. That exception is what the code does: `SyncItem` overwrites without
looking at the host's bytes, although `README.md:113-114` says that a conflicting external edit is retained. The
property states what is left of that sentence, not the sentence. The bounds on writes and edits end a
behaviour: `CHECK_DEADLOCK FALSE`.

### VNC server: `Vnc`, `MCVnc`

The picture is a row of pixels, a rectangle an interval of it (its own hull, as in `_union_rect`). A change is
two steps, in the order of the adapter: stored and then marked (`StoreByte`, `MarkFrameDirty`), or marked and
then visible (`WritePort`, `ChangePalette`). A viewer's thread samples the version, renders pixel by pixel
under `_frame_lock` into the one buffer of the adapter, appends the changed rectangle to the history, and then
sends pixel by pixel from that buffer *without* the lock, while others render into it. `RestoreMachine` starts
a new epoch with a buffer of its own. CGA's `GetFrame` returns no frame when the mode changes between its
tests (`RenderNothing`): the version is cached without one, and every session that asks for it ends
(`FindsNoFrame`) until the write that changed the mode marks the next version. A viewer whose session ends
connects again. A rendering that raises an exception half way leaves pixels in the buffer that no snapshot
has; that is left out.

Run `vnc`: two viewers, one of which may stop reading; two pixels; a history of two; two changes; one restore.
Two pixels make a torn rendering and a torn update possible; a history of two (the code: 128) lets a slow
viewer fall behind it. `CoveredByNextUpdate` was also checked with three changes (7.4 million states; too long
to keep as a run). `ViewersCatchUp` holds whenever the last change was not a port write. *Fairness*: the
emulator finishes a change it began; a thread that holds the lock goes on (weak); a viewer that is not slow
goes on reading (weak) and asking -- strong, since the lock it needs is free again and again and the operating
system's lock serves a waiting thread in the end. A slow viewer has no fairness for sending.

### Timer and DMA: `Dma`, `Timing`, `Devices`

`Timing` is `i8253` in front of `i8237` (`Dma`), in the one thread of the emulator. `Tick(cycles)` is
`i8253.Tick` with its `TickChannel0`: `Counted` and `Events` are its arithmetic for one counter, `Advance` is
`_advance_channel` for a batch of requests. `WriteCounter`, `ReadCounter`, `Latch`, `Command` are the timer's
ports, which share the byte phase; `DmaProgram` is one access to the DMA controller; `Device` is a transfer of
another device. A byte has `Byte` values and a word `Byte * Byte`, so that wrap-around is the code's at any
width. `taken` remembers the low byte that was read of a latched count, `irq` whether the step asked for IRQ 0
(`Pic` and `Keyboard` take it from there).

Run `devices`: words of two bits, two counters (timer and refresh), one channel, up to five timer cycles in a
Tick: more than a whole period of any divider, and, with divider one, several blocks of the channel. Three
accesses to the timer (latch commands are free) are what it takes to load a counter byte by byte or to write
between two reads; two to the DMA controller (`MaxDma`, with four accesses in all) set up a block and
auto-initialisation. The guest chooses periodic and one-shot modes (`Modes`), the counters start in another.
`PeriodsExact` and `RefreshExact` compare a Tick with one cycle and one request at a
time, written recursively; `LatchHeld` is the comment at `i8253.py:176-177`. The small width costs nothing:
all four are proved for every width.

### Serial port: `Uart`, `Devices`

One action per register access and per host write; `Cause` is `interrupt()`, `Notify` is `notify()`, called
where the code calls it and nowhere else: reading LSR, MSR or IIR notifies nobody. The receive queue is its
length; what the guest sends is in `Rings`. The PIC's request bit of line 4 is `requested`, and `handler`
where the guest's handler of it is: it reads IIR until that is clear or, if it enabled data interrupts only,
serves the one cause it was told. Run `devices`: a queue of three. `ConditionAnnounced`: with edges only, a
condition nobody announces would stop the port for ever.

### Recorders: `Rings`, `Devices`

The instruction trace, the hardware trace, the video history and the serial output, each with its own
numbering, cursor and retention, and one client that follows a recording page by page while events are
produced, recordings are started and stopped and snapshots imported. An event's content is the number it was
produced as. The three traces are empty after an import (`Import`); the serial port has the output and the
offsets of the snapshot (`ImportSerial`; `machineinstall.py:27-36`), which may be older or newer than its own: in
the model an import begins another recording of it, with any number of bytes sent and any of the last of them
kept.

A page tells where it ends and the cursor to go on with. `debughardware.py:150-151` and the video history give
*no* cursor (`NoCursor`) to a reader that has caught up, while the recording goes on, too; the null cursor
then reads from the oldest event again. `Read` therefore passes what the client was given or, as
`JSON_RPC_API.md:485-487` tells clients of the video history to do, the last sequence it got; a null cursor
begins what it got anew.

Run `devices`: rings of one and two, six events, two recordings, pages of one and two: events are overwritten
between two pages, and a cursor of one recording meets the next. `PagesWhole`: from a null cursor on, no gap,
no repetition, no foreign event, and all of it where the recorder says that there is no next page and nothing
is lost. Only the video history names its recordings: a cursor of an earlier recording of a trace, or an
offset from before an import of the serial port, may read from a later one, and the property says nothing of it.

### XT-IDE controller: `XtIde`, `Devices`

One action per register, command and data access, with `StoreSectorBuffer` inside the access that fills the
buffer; the disk may fail at any byte. `xtWrite` and `xtSent` are the history of the write the guest is in the
middle of. Run `devices`: four sectors on two cylinders under two heads, one sector per track, transfers of
one or two, two commands and two data accesses: a transfer that crosses head and cylinder, and one that
a shorter one replaces half way. `XtReadsInPlace`, `XtStoresWhatWasSent`, `XtCheckpointable` (the codec accepts
every state the controller can be stopped in). A guest that goes on with the bytes of a write it replaced by
another transfer may have them stored at the old target, past the end of the geometry too: the code keeps the
target on purpose (`tests/test_xtidecodec.py`), and the properties speak of the write that is under way.

### CPU: `Instructions`, `StringProgram`, `Cpu`, `Alu`, `Devices`

`Cpu` is `Tick` from one boundary to the next: take an interrupt, let time pass while halted, or execute an
instruction with its prefixes and, if it repeats, once, and trap after it. The handlers are fixed short
programs, one of which enables interrupts again and uses string instructions. `StringProgram` executes the
same code without any of that; `ImplementsProgram` maps the CPU to it by what the outermost handler will
return to. Run `devices`: seven programs (one that only ends, each repetition with every kind of string
instruction it may have, segment overrides before and after the repetition, MOV SS, STI, HLT, INT), counts of
zero, one and three, three cells of memory, both directions, with and without trap flag, two requests. Left
out: what writing IP by the debugger in the middle of a repetition leaves of it, LOCK, and REP before anything
but a string instruction (REP before INT pushes the address of the prefix). `CpuAssumption` says which
programs the model is about: they end with a jump to itself, repeat string instructions only, leave IRET to
handlers, and set SP right after SS, as Intel's manual asks; TLC evaluates it on the seven programs.

`Alu` has the arithmetic with its flags, as operators, and short programs that use it: sums and differences of
two operands through each of four encodings, with a counter stepped in between; negation; shifts and rotations
of double operands; comparisons with all ten jumps; products divided again; quotients; decimal and ASCII
adjustments. A shift counts to five at most. `AluExact` compares each with the number it must come to. Run `devices`: operands of four bits,
all of them where two are combined once, and those at either side of each sign and overflow boundary where
four are; packed decimals at their carries. Four bits have every case of sign, carry and overflow the code
distinguishes, and `AluExact` is proved for every modulus that four divides. Parity, flags that are undefined after an instruction,
and AAM with base zero are left out.

### All devices: `Devices`, `MCDevices`

The modules above share no state, so a behaviour puts one of them to use (`device`) and the others keep still:
the states are the sum of theirs, not the product. The bounds on accesses end a behaviour: `CHECK_DEADLOCK
FALSE`. No fairness; all of it is safety.

### Snapshots: `Checkpoint`, `MCCheckpoint`

A state of the machine is a number, and so is the content of its disk image; the guest gives both a new one
when it runs (`Run`). A request of the emulator's thread takes the three locks in the code's order
(`TakeLock`), works and releases them. Export: `Capture`, then, without the locks, `Create`, `Write`,
`Publish` (link, which refuses a name that is taken), `Unlink`. Import: `ReadBundle`, `Validate`, `MakeRoot`,
`CopyDisk` (which validates what it reads again), then `ClearPart` and `FillPart` for one component after the
other. Each may fail where the code can; `Restart` is a process that dies and is started again with its own
disk. The threads of viewers, Telnet and keys take their locks as in their code. Host programs damage or
remove archives and write the image.

Run `checkpoint`: one name, so that a second export finds it taken; two directories, so that an import may
follow another or meet what one left behind; two new states; one edit. A behaviour has edits of host programs
or other threads, not both: neither sees the other. `OneMachine` (all components and the disk of one state
outside an installation, and no thread in a component that is cleared), `PublishedIsWhole`, `FilesAreKept`,
`RequestsEnd` (liveness). *Fairness*: weak for the emulator's steps and for a thread that leaves the display
or the keyboard, strong for taking a lock that is free again and again; a client need never ask. An export
whose temporary file cannot be removed, or whose archive was removed before its size is read, tells its client
of a failure although the archive is published; `acked` is therefore what a client was *told* of. Clients stop
asking: `CHECK_DEADLOCK FALSE`.

### Bounds

Every bound is a constant whose name begins with `Max`, or a size the code has larger (`MaxBatch`, `Retained`,
`History`, `Delay`, `Lines`); its comment says so. They bound how often the environment acts, never how the
code reacts.

## Where code and documentation disagree

Each is a run that TLC must find violated, with one property that states the sentence.

| run | sentence | what the code does |
|---|---|---|
| `exec_resume` | resuming skips the breakpoint for one Tick "so execution can proceed" (`JSON_RPC_API.md:669-670`) | only the breakpoint reported last is exempt: two at one address stop each other for ever |
| `keyboard_irq` | IRQ 1 is raised "as soon as a scan code is available" (`keyboard.py:19`) | two expired schedules share one request bit: the second code waits for another key |
| `hostfat_lost` | guest writes reach the host "after each completed disk write" (`virtualfat16.py:13-14`) | a walk that fails forgets which clusters were dirty; the entry looks unchanged in the next walk, and the file stays stale |
| `vnc_port` | a version "for visible changes" (`mda.py:60`) | CGA and VGA mark a palette change before its Tick makes it visible: a frame rendered in between stays |

The same walk also overwrites a file a host program edited when the guest changes it (`README.md:113-114`
speaks of edits that are retained); `EditsKept` has it as its one exception, and the hazard at
`virtualfat16.py:415` records it.

## Proofs

TLAPS checks eight proof modules. All theorems are for every value of the constants that satisfies the named
assumption of the module (`ServerAssumption`, `ExecAssumption`, `MailboxAssumption`, `PicAssumption`,
`KeyboardAssumption`, `HostFatAssumption`, `DmaAssumption`, `TimingAssumption`, `UartAssumption`, `XtAssumption`, `RingsAssumption`,
`CheckpointAssumption`, `VncAssumption`, `CpuAssumption`, `AluAssumption`), which TLC evaluates in the runs. Every inductive invariant below was
checked with TLC on the component's small instance before it was proved.

`DebugServerProofs`:
- `TypeCorrect`. `TypeOK` is not inductive alone: `AnswerRequest` counts past `MaxBatch` unless a request is
  only being handled inside the limit, so `ServingInv` ties `cpu`, `serving` and `processed` together.
- `NoLostWakeup` proves `NoStrandedRequest`. The strengthening `LockInv` says who holds the lock and that its
  holder's `empty()` result is still true when it updates the event; that is the whole argument for reading
  and draining without the lock.
- `OneAnswer` proves `OneAnswerPerRequest`, which is inductive on top of `TypeCorrect`; the work is in
  relating positions in the queue before and after `Head`/`Tail` and `Append`.
- `ServerRefines` is the safety part of `ImplementsService`: every step is a step of `RpcService` or leaves
  `status`, what clients see, alone. The fairness of `RpcService` stays with TLC.

`MainProofs`, on execution control, for any machine, addresses, breakpoints, operations and bounds:
- `ExecTypeCorrect`, `LedgerCorrect` (`OperationLedger`) and `StopReasonsStay` (`StopReasonsKept`). The ledger is
  inductive with the types; every step either keeps it, completes the active operation or begins one, and a
  bound on the cardinality of a ledger from which the oldest are evicted needs the finite-set lemmas.
- `RunUntilIsOwned` (`RunUntilOwned`): whoever ends an operation clears its predicate, shown action by action.
- `ObserversStayArmed` (`ObserversArmed`) is not inductive: between two refreshes of the CPU's hook flags the
  table changes. `Covered` says what the flags lack while the round has a refresh still ahead of it, `Armed`
  that nothing is lacking where a batch may start.
- `RevisionIsTruth` (`CurrentRevisionIsTruth`): every request and every round either gives up what was read, or
  reads it, or leaves the machine alone -- but for `MemoryRead`, which changes the latches and nothing else.
- `HitsAreReported` (`HitsStop`). That a stop is kept, consumed and reported rests on `Armed`: between two rounds
  no stop is left, and one is there only while its hook is. A stop of a breakpoint that has removed itself is
  therefore still asked for, since the hooks are refreshed behind it only, and the refresh behind a watchpoint's
  stop, or the request for it, takes away the INT's (`StopsConsumed`).

`MailboxProofs`, for any commands, number of jobs and number of unserved calls:
- `ConversationHolds` is the inductive invariant `MailboxInv`. Its core: a client that got where it is by replies
  (`Fresh`) has one unserved call at most; therefore one *write* at most is ever unserved (`QueueInv`), however
  many calls were given up; a write that is served late still finds the mailbox it was sent for (`WritesInv`),
  since only writes and the worker change it and the worker moves on published or acknowledged headers only;
  and what a reply says still holds when it is taken (`ReplyInv`). `PauseInv`: once a continue was sent, every
  pause has one behind it.
- `NotPublishedIsSafe` (`RerunIsSafe`), `MessagesStayWhole` (`MessagesWhole`), `MachineResumes`
  (`NotLeftPaused`) follow from it.
- `JobsRunOnce` is the whole refinement `ImplementsJobs`, which is a safety specification: the dispatch of the
  worker is `Run`, taking the payload is `TakeResult`, everything else stutters.

`KeyboardProofs`, for any number of lines, any wiring and any program of the controller, any host threads, delay and
number of codes:
- of the controller alone `PicTypeCorrect`, `PicFullyNested`, `PicAutoEoiAnnounced`, `PicRequestsKept`. A least
  level exists in every non-empty set of levels (well-foundedness of `<` on `Nat`), so `Highest` and `Innermost`
  are well defined; since `Pending` admits only levels above everything in service, acknowledging adds a new
  innermost level, and an EOI removes the innermost one or a specific one, leaving the history an order on what
  is left.
- `KeyboardAnnounces` (`ScheduleAnnounced`) and `IrqsHaveCodes` (`EveryIrqHasItsCode`), from `KeyboardInv`: codes
  that wait and codes that were dropped are different ones (`CodesCounted`), and the handlers that have not
  ended are those of the levels in service, an inner one with strictly higher priority (`HandlersNest`) -- so
  that one handler at most waits for its code.
- `KeyboardUsesPic`: every step is one of `Pic`'s or leaves its registers alone, and therefore
  `ControllerStaysNested`: the theorems about the controller hold of the composition without being proved again.

`MainProofs`, on snapshots, for any archives, directories, references and bounds: `CheckpointTypeCorrect`, `MachineIsOne`
(`OneMachine`), `ArchivesAreWhole` (`PublishedIsWhole`), `NothingIsOverwritten` (`FilesAreKept`), all from
`CheckpointInv`: a request at work holds the display's and the keyboard's lock (`LocksHeld`), so that no thread
is in a component that is cleared; a whole archive pairs a state with the disk that goes with it, for good
(`BundlesGenuine`), since later states have greater numbers; a temporary archive that is published is the one
captured (`Publishing`); and half an installation has the first components and the disk of the archive
(`MachineOrInstallation`). `CheckpointAssumption` says that names, components, references and states are told
apart.

`DevicesProofs`, on `Timing` and `Dma`, for every width of a byte, prescaler and length of a Tick: `TimingTypeCorrect`,
`TimingPeriodsExact`, `TimingRefreshExact`, `TimingLatchHeld`. The core are two algebraic theorems,
`CycleBatch` and `RequestBatch`: a batch of n + 1 is a batch of n and then a single one, which comes down to
how quotient and remainder change from x to x + 1 (`Successor`). The references `Cycles` and `Requests` are
recursive functions. That they exist and compute the batch is shown without induction over an operator: the
batches of every length up to n are a function that satisfies the recursive equation, and the set of lengths
where two solutions agree contains 0 and with k also k + 1 (`Upwards`, by the least counterexample). `TypeOK` is
inductive as it stands; its part `InPhase` is what keeps the byte phase of a programmed counter away from the
wrap-around of `latch_n_cur`, and a periodic counter within a word, without which `CycleBatch` does not apply.

`HostFatProofs`, for any number of names, contents, root entries, clusters, writes and edits: `HostFatMirrors`
(`MirroredUnlessLost`), `HostFatLeavesNothing` (`NothingLeftBehind`) and `HostFatKeepsEdits` (`EditsKept`), all
from `IInv`. None of the three follows by itself: the first two say something only of states after a walk that succeeded, and a
walk may fail half way; the third needs to know that what the mount remembers of a path is older than the edit. What holds in all states is about what the mount remembers. `Consistent`: a path it has a
hash for is on the host with the bytes of that hash, unless another program changed it or it is a directory -- so a
file it removes has bytes of the guest, never `HostBytes`. `Fresh`: the clusters of the chain in the remembered
signature still hold the bytes of the hash, unless one of them was lost -- so a file whose signature is that of its
entry may be skipped. Storing a cluster disturbs `Fresh` for every chain through it, of other files and of former
ones as well; the walk of the same call repairs those that an entry still has before anyone relies on them, or fails
and adds the cluster to `lost`. `NamesApart`, that no two entries have the
same path, is needed so that an item later in the walk does not overwrite what an earlier one established
(`WalkResult`, an induction over the items in which the items visited are `Signed`); `StaleResult` is the removal from
the longest path on. The chain, the items of a directory and the walk are recursive functions; their existence is
shown as in `DevicesProofs` (`ChainSteps`, `FoundSteps`, `WalkSteps`).

`VncProofs`, for any screen, colours, displays, clients, length of the history and number of versions: `UpdatesCover`
(`CoveredByNextUpdate`), from `VncInv`. The cached frame, the history and the buffer are shared by all clients,
so the invariant says what each is *about*: the one who renders holds the lock and renders a version newer than
the cached one (`Rendering`); the history is of this epoch, its versions grow and it ends with the cached frame
(`Recorded`); outside of a rendering the buffer is the cached frame, and what is yet to be rendered is not touched
(`Buffered`); and no client starts from a version that is still to be rendered (`BasesKnown`). The core is
`ReadIsCovered`: if the history still has the version a client starts from, what the client has read and no later
entry covers is as in the cached frame, or as it is being rendered. `RectCovers` (a hull covers what differs),
`HistoryAppended` (dropping old entries loses no newer damage) and `SendKeeps` (a client that reads while another
renders) are where it could have failed. `VncAssumption` says that no colour is the unknown one and that `None` is
no version and no frame.

`DevicesProofs`, on the other devices: for every length of the receive queue of the serial port, `UartTypeCorrect`
and `UartConditionAnnounced`.
`ConditionAnnounced` is not inductive: `AnnouncedInv` adds that a handler that may leave (`MayLeave`) leaves
no condition behind without its request. Every access that notifies establishes it (`NotifyAnnounces`);
reading LSR or MSR only takes conditions away (`ClearingKeeps`); the case that needs thought is reading IIR,
which takes the transmitter's cause away and may be the last thing a handler does (`ReadIirAnnounces`).
For any geometry, sector size and count register of the disk controller: `XtAlwaysCheckpointable`
(`XtCheckpointable`), `XtReadsConsecutive` (`XtReadsInPlace`) and `XtStoresSent` (`XtStoresWhatWasSent`), from `XtInv`.
One position of the geometry on is one sector on (`NextIsOneOn`: within a track, to the next head, to the next
cylinder), and so a walk is consecutive (`WalkIsConsecutive`, by the least position that is not, `UpToLast`); that the
walk, a recursive function, exists at all is `PositionsStep`. `WriteUnderWay` is the strengthening: while the guest is in
the middle of a write, the pending target is that of its command and the buffer begins with what it sent, so that
the byte that completes the buffer stores exactly that (`ByteWritten`).
For any capacity, limits and number of recordings `PagesStayWhole` (`PagesWhole`), from `RingsInv`: what a recorder
retains are the last events produced, consecutive in number and content, within its capacity (`Numbered`); what it
retained and what it lost make up what was produced (`Accounted`); and the end of a client's last page is right
after the last event it got, and counts them if none was lost, while its cursor is that end or null (`AtCursor`) --
`PagesGapless` alone does not say what the next page may begin with. A reader's filter by sequence numbers, a
recursive function, gives the end of the ring (`FromIs`), and the pages of all four recorders, whose cursors mean
different things, go on where the cursor stands in one common numbering or, from a null cursor, begin anew
(`Continues`). An import of the serial port begins another recording, so what clients have of the former one is
no longer spoken of.

`ProcessorProofs`, for every program `CpuAssumption` describes, any contents of memory and registers and any number of
interrupts: `CpuImplementsProgram` (`ImplementsProgram`), the refinement of `StringProgram`, by what holds between two
instructions (`Boundary`). The stack consists of frames and of what handlers saved, each on top of a frame whose place
is one where its code can have been interrupted (`StackOK`): so IRET and the pop of the registers find what was
pushed, and the outermost frame and the oldest saved registers, which the refinement mapping reads, stay what they
were (`AboveFrame`, `AboveRegisters`). What is remembered of prefixes belongs to the instruction at IP, which has them
again (`PrefixesOK`): so an interrupt that forgets them and returns to the first prefix loses nothing, and no
other instruction is repeated or overridden. And half a stack is in the shadow of MOV SS with MOV SP next
(`ShadowOK`). The proof takes an instruction apart as the code does (`FetchedResult`, `CountResult`, `OnceResult`,
`EndResult`), shows that an instruction of the program is a step of `StringProgram` (`MainString`, `MainPlain`,
`MainInt`) and one of a handler none (`HandlerSave` to `HandlerIret`), and that interrupts and traps, wherever they are
taken, change nothing of the program (`InterruptKeeps`, `TrappedKeeps`). TLC checked `Boundary` as an invariant with
three requests before.

`ProcessorProofs`, for every modulus that four divides, any operands and any decimals that are digits: `AluIsExact`
(`AluExact`), from `AluInv`, which says for each program and each place in it what is known there (`AluAt`): after
the low halves of a sum the carry is the one that is due, and stepping a counter in between leaves it
(`SumNext`, `IncrementMoves`); after a product nothing is lost that a division by a factor needs (`Factors`,
`ProductDivided`). First come the operators, each against numbers: `AddExact` and `SubtractExact` give every flag by
signed and unsigned sums, `DivideNatural` and `DivideSigned` the quotients and exactly the operands that trap
(`Truncates`), `AdjustsSum` and `AdjustsDifference` the decimal corrections digit by digit, `OnceExact` one bit of each
shift and rotation. A shift by a count is a recursive function; what its values have to do with each other
(`Walk`) gives the power of two (`ShiftedThrough`) and that a rotation and the one back undo each other
(`Reverses`). `CompareExact` is about all ten jumps. Nonlinear steps are reduced to bounds between multiples
(`Unique`, `Bounded`), which the solver decides. `TwoTo` spells the powers up to the largest count, five, because
the provers have no exponentiation.

The type invariants of `DebugServer`, `Pic`, `Timing`, `Uart` and `Checkpoint`, `OneAnswerPerRequest` and
`AutoEoiIsAnnounced` are proved and in no run; in the other modules the type invariant is the first conjunct of
a property that a run checks (`OperationLedger`, `MessagesWhole`, `ScheduleAnnounced`, `NothingLeftBehind`,
`CoveredByNextUpdate`).

Model-checked only: all liveness properties and anything under fairness (`StepsComplete`, `LimitsBoundRuns`,
`RequestsEnd`, `SchedulesFire`, `ViewersCatchUp`, `MachineKeepsRunning`, `EveryRequestAnswered`, the fairness of
`ImplementsService`).

## What is not modelled

- The rest of the 8088's instruction set (addressing modes, segments, moves, calls, jumps, port instructions,
  cycle counts), the field codecs of snapshots, the VNC encoders, rendering and fonts: pure data
  transformations, tested in the repository against recorded vectors or by round trips.
- Bus, memory, ROM, PPI, CRTC, VGA register files, BIOS services, game port: registers without protocol or
  concurrency of their own.
- Telnet: a byte pump around `PushKeyboardScancode`, which `Keyboard` has.
- Session tools, launcher, tests, benchmarks: scripts around the emulator.
- Host directories as the disk of a snapshot, several disks, worker restarts, a rendering that fails half way:
  see [Plan](#plan).
- Time: delays are counted in Ticks or are arbitrary; wall-clock pacing and timeouts only appear as "may
  expire".
