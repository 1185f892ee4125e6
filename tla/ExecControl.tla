----------------------------- MODULE ExecControl ----------------------------
(***************************************************************************)
(* main.py: the emulator's execution loop, the debugger's requests that    *)
(* start, stop and observe execution, and the CPU hooks (i8088.py) through *)
(* which watchpoints and INT breakpoints reach it.                         *)
(*                                                                         *)
(* One round of `while True` is cut at the points where something else is  *)
(* decided: requests are handled at "poll" (process_pending runs on this   *)
(* thread, see DebugServer.tla), CPU.Tick passes through "tick" and        *)
(* "exec", and "after" is the code that follows Tick.  The guest is an     *)
(* instruction pointer, one register, one bit of device state and the read *)
(* latch of a planar VGA; what an instruction does to them is left open.   *)
(***************************************************************************)
EXTENDS Integers, Breakpoints

CONSTANTS
  Code,        \* addresses instructions are fetched from
  Data,        \* addresses instructions read and write
  Vectors,     \* software interrupt numbers
  Params,      \* what clients ask breakpoints.create for
  Predicates,  \* what clients ask execution.run_until for
  Retained,    \* operations kept for execution.wait
  MaxOps,      \* bound: operations ever started
  MaxBps,      \* bound: breakpoints and predicates ever created
  MaxCycles,   \* bound: guest time limits of run_until, in cycles
  MaxTrace     \* bound: instruction_count of trace.start

ASSUME ExecAssumption ==
  /\ Retained \in Nat \ {0}
  /\ MaxOps \in Nat /\ MaxBps \in Nat /\ MaxCycles \in Nat /\ MaxTrace \in Nat
  /\ Params \cup Predicates \subseteq
       [kind : MemoryKinds \cup {ExecutionKind, InterruptKind},
        at : Code \cup Data \cup Vectors, once : BOOLEAN,
        cond : Conditions, skip : Nat, every : Nat \ {0}]
  /\ \A p \in Predicates : p.once

None == 0            \* Python's None, where a breakpoint or operation id could be
NoStop == [kind |-> "none", id |-> None, access |-> FALSE]
StopKinds == {"breakpoint", "run_until", "emulated_time_limit", "step", "pause",
              "machine_snapshot_restored"}

VARIABLES
  phase,        \* where the main loop is
  machine,      \* the guest: ip, ax, device state and VGA read latch
  paused, step, \* control['paused'], control['step']
  lastStop,     \* control['last_stop']
  skip,         \* control['skip_breakpoint_id']
  runUntil,     \* control['run_until_id']
  deadline,     \* cycles left to control['run_until_deadline_clock']; -1 is None
  active,       \* control['active_operation'], by id
  ops,          \* control['operations']
  nextOp,       \* control['next_operation']
  bps, nextBp,  \* the BreakpointManager's table and _next_id
  hooks,        \* the *_active flags rpc_refresh_instruction_hooks last computed
  traceLeft,    \* TraceRecorder._remaining while _active, else 0
  memStop,      \* i8088._memory_access_stop
  intStop,      \* i8088._interrupt_stop
  observed      \* what a client knows of the machine from its last read, while
                \* the state_revision it got with that is current

controlVars == <<paused, step, lastStop, skip, runUntil, deadline>>
opVars == <<active, ops, nextOp>>
bpVars == <<bps, nextBp, hooks, traceLeft>>
tickVars == <<phase, memStop, intStop>>
vars == <<machine, observed, controlVars, opVars, bpVars, tickVars>>

Machine == [ip : Code, ax : {"zero", "one"}, dev : BOOLEAN, latch : {"zero", "one"}]
Stops == [kind : StopKinds, id : 0..MaxBps, access : BOOLEAN]
Nothing == [ip |-> "unread"]     \* no client holds a current state_revision
Reloaded == "reloaded"           \* a latch memory.read loaded after the client's read
Seen == Machine \cup [ip : Code, ax : {"zero", "one"}, dev : BOOLEAN, latch : {Reloaded}]
                 \cup {Nothing}

-----------------------------------------------------------------------------
(* Helpers of the request handlers (main.py:252-315). *)

Refreshed(table, trace) ==
  [exec |-> HasExecution(table), memory |-> HasMemoryAccess(table),
   interrupt |-> HasInterrupt(table), trace |-> trace > 0]

\* rpc_refresh_instruction_hooks
SetHooks(table, trace) == hooks' = Refreshed(table, trace)

\* A hook that is taken away takes its stop with it (i8088.py:859-862, :894-897).
RefreshHooks(table, trace) ==
  /\ SetHooks(table, trace)
  /\ memStop' = IF hooks'.memory THEN memStop ELSE NoHit
  /\ intStop' = IF hooks'.interrupt THEN intStop ELSE NoHit

\* Mutant: the completed operation stays active.
LastStopActive(stop) ==
  /\ step' = FALSE
  /\ lastStop' = stop
  /\ active' = active
  /\ ops' = IF active = None THEN ops
            ELSE [ops EXCEPT ![active].done = TRUE, ![active].stop = stop]

\* Mutant: the completed operation is popped from the ledger.
LastStopPopped(stop) ==
  /\ step' = FALSE
  /\ lastStop' = stop
  /\ active' = None
  /\ ops' = [o \in DOMAIN ops \ {active} |-> ops[o]]

\* rpc_last_stop: every stop completes the operation it ends.
LastStop(stop) ==
  /\ step' = FALSE
  /\ lastStop' = stop
  /\ active' = None
  /\ ops' = IF active = None THEN ops
            ELSE [ops EXCEPT ![active].done = TRUE, ![active].stop = stop]

\* rpc_resume_skip_id: only stops that precede execution are stepped over.
ResumeSkipId ==
  IF lastStop.kind = "breakpoint" /\ ~lastStop.access THEN lastStop.id ELSE None

\* rpc_start_operation
NewOperation == [kind |-> "new", done |-> FALSE, stop |-> NoStop]

EvictOldest(table) ==
  IF Cardinality(DOMAIN table) <= Retained THEN table
  ELSE LET oldest == CHOOSE o \in DOMAIN table : \A p \in DOMAIN table : o <= p
       IN IF ~table[oldest].done THEN table
          ELSE [o \in DOMAIN table \ {oldest} |-> table[o]]

StartOperation(kind) ==
  /\ active = None
  /\ nextOp <= MaxOps
  /\ nextOp' = nextOp + 1
  /\ active' = nextOp
  /\ ops' = EvictOldest([o \in DOMAIN ops \cup {nextOp} |->
                           IF o = nextOp THEN [NewOperation EXCEPT !.kind = kind]
                           ELSE ops[o]])

\* Mutant: the private predicate is forgotten but not deleted.
ClearedTableLeak(table) == table

\* rpc_clear_run_until
ClearedTable(table) == IF runUntil = None THEN table ELSE Without(table, runUntil)

ClearRunUntil ==
  /\ runUntil' = None
  /\ deadline' = -1

\* Any number of successes of handlers that bump control['revision'] make the
\* revisions clients hold stale.
BumpRevision == observed' = Nothing

-----------------------------------------------------------------------------
Init ==
  /\ phase = "poll"
  /\ machine \in Machine
  /\ paused = FALSE /\ step = FALSE
  /\ lastStop = NoStop
  /\ skip = None
  /\ runUntil = None /\ deadline = -1
  /\ active = None /\ ops = [o \in {} |-> NewOperation] /\ nextOp = 1
  /\ bps = EmptyTable /\ nextBp = 1
  /\ hooks = Refreshed(EmptyTable, 0)
  /\ traceLeft = 0
  /\ memStop = NoHit /\ intStop = NoHit
  /\ observed = Nothing

-----------------------------------------------------------------------------
(* Requests, handled between two rounds of execution. *)

\* execution.pause; redundant when paused.
Pause ==
  /\ phase = "poll" /\ ~paused
  /\ bps' = ClearedTable(bps)
  /\ ClearRunUntil
  /\ RefreshHooks(bps', traceLeft)
  /\ paused' = TRUE
  /\ skip' = None
  /\ LastStop([kind |-> "pause", id |-> None, access |-> FALSE])
  /\ UNCHANGED <<machine, observed, nextOp, nextBp, traceLeft, phase>>

Resume(stepping) ==
  /\ paused' = FALSE
  /\ step' = stepping
  /\ skip' = ResumeSkipId
  /\ lastStop' = NoStop

\* execution.continue and execution.go do not require a paused machine.
Continue ==
  /\ phase = "poll"
  /\ StartOperation("continue")
  /\ Resume(FALSE)
  /\ UNCHANGED <<machine, observed, runUntil, deadline, bpVars, tickVars>>

\* execution.run_until.  A paused machine has no active operation (see
\* OperationLedger), so rpc_start_operation does not refuse after the
\* predicate has been created.
RunUntil(p) ==
  /\ phase = "poll" /\ paused
  /\ nextBp <= MaxBps
  /\ StartOperation("run_until")
  /\ bps' = With(bps, nextBp, NewBreakpoint(TRUE, p))
  /\ nextBp' = nextBp + 1
  /\ runUntil' = nextBp
  /\ deadline' \in {-1} \cup 1..MaxCycles
  /\ RefreshHooks(bps', traceLeft)
  /\ Resume(FALSE)
  /\ UNCHANGED <<machine, observed, traceLeft, phase>>

Step ==
  /\ phase = "poll" /\ paused
  /\ StartOperation("step")
  /\ bps' = ClearedTable(bps)
  /\ ClearRunUntil
  /\ RefreshHooks(bps', traceLeft)
  /\ Resume(TRUE)
  /\ UNCHANGED <<machine, observed, nextBp, traceLeft, phase>>

CreateBreakpoint(p) ==
  /\ phase = "poll"
  /\ nextBp <= MaxBps
  /\ bps' = With(bps, nextBp, NewBreakpoint(FALSE, p))
  /\ nextBp' = nextBp + 1
  /\ RefreshHooks(bps', traceLeft)
  /\ UNCHANGED <<machine, observed, controlVars, opVars, traceLeft, phase>>

\* The id of a private predicate is refused no more than any other.
DeleteBreakpoint(id) ==
  /\ phase = "poll"
  /\ Contains(bps, id)
  /\ bps' = Without(bps, id)
  /\ RefreshHooks(bps', traceLeft)
  /\ UNCHANGED <<machine, observed, controlVars, opVars, nextBp, traceLeft, phase>>

\* state.get_registers
ReadRegisters ==
  /\ phase = "poll"
  /\ observed' = machine
  /\ UNCHANGED <<machine, controlVars, opVars, bpVars, tickVars>>

\* state.set_registers: expected_state_revision must be the live one.
SetRegisters(ip, ax) ==
  /\ phase = "poll" /\ paused
  /\ observed # Nothing
  /\ machine' = [machine EXCEPT !.ip = ip, !.ax = ax]
  /\ BumpRevision
  /\ UNCHANGED <<controlVars, opVars, bpVars, tickVars>>

\* memory.read goes through the bus at any time and returns the revision it
\* finds: a VGA in mode 12h or 13h loads its latches from the byte that was read
\* (vga.py:375-382).  A memory.write that expected_sha256 refuses has read, too.
MemoryRead ==
  /\ phase = "poll"
  /\ \E latch \in {"zero", "one"} : machine' = [machine EXCEPT !.latch = latch]
  /\ observed' = IF observed = Nothing THEN Nothing ELSE [observed EXCEPT !.latch = Reloaded]
  /\ UNCHANGED <<controlVars, opVars, bpVars, tickVars>>

\* Mutant: a device access that leaves the revision alone.
ChangeDeviceSilently(anytime) ==
  /\ phase = "poll"
  /\ paused \/ anytime
  /\ \E dev \in BOOLEAN : machine' = [machine EXCEPT !.dev = dev]
  /\ UNCHANGED <<observed, controlVars, opVars, bpVars, tickVars>>

\* memory.write, io.write and input.joystick need a paused machine; io.read,
\* serial.write and input.keyboard reach devices while it runs, too.
ChangeDevice(anytime) ==
  /\ phase = "poll"
  /\ paused \/ anytime
  /\ \E dev \in BOOLEAN, latch \in {"zero", "one"} :
        machine' = [machine EXCEPT !.dev = dev, !.latch = latch]
  /\ BumpRevision
  /\ UNCHANGED <<controlVars, opVars, bpVars, tickVars>>

TraceStart(count) ==
  /\ phase = "poll" /\ paused
  /\ traceLeft = 0
  /\ traceLeft' = count
  /\ RefreshHooks(bps, count)
  /\ UNCHANGED <<machine, observed, controlVars, opVars, bps, nextBp, phase>>

TraceStop ==
  /\ phase = "poll"
  /\ traceLeft' = 0
  /\ RefreshHooks(bps, 0)
  /\ UNCHANGED <<machine, observed, controlVars, opVars, bps, nextBp, phase>>

\* machine.snapshot.import, once MachineSnapshots.restore has installed the
\* archive; a refused archive changes nothing.
ImportSnapshot(preserve) ==
  /\ phase = "poll" /\ paused
  /\ observed # Nothing
  /\ machine' \in Machine
  /\ bps' = IF preserve THEN ClearedTable(bps) ELSE OnlyPrivate(ClearedTable(bps))
  /\ ClearRunUntil
  /\ ops' = [o \in {} |-> NewOperation]
  /\ active' = None
  /\ skip' = None
  /\ traceLeft' = 0
  /\ SetHooks(bps', 0)
  /\ memStop' = NoHit /\ intStop' = NoHit
  /\ step' = FALSE
  /\ lastStop' = [kind |-> "machine_snapshot_restored", id |-> None, access |-> FALSE]
  /\ BumpRevision
  /\ UNCHANGED <<paused, nextOp, nextBp, phase>>

Request ==
  \/ Pause \/ Continue \/ Step \/ ReadRegisters \/ MemoryRead \/ TraceStop
  \/ \E p \in Predicates : RunUntil(p)
  \/ \E p \in Params : CreateBreakpoint(p)
  \/ \E id \in DOMAIN bps : DeleteBreakpoint(id)
  \/ \E ip \in Code, ax \in {"zero", "one"} : SetRegisters(ip, ax)
  \/ \E anytime \in BOOLEAN : ChangeDevice(anytime)
  \/ \E count \in 1..MaxTrace : TraceStart(count)
  \/ \E preserve \in BOOLEAN : ImportSnapshot(preserve)

-----------------------------------------------------------------------------
(* One round of the main loop. *)

Unobserved ==
  /\ ~hooks.exec /\ ~hooks.memory /\ ~hooks.interrupt /\ ~hooks.trace
  /\ ~step /\ deadline = -1 /\ skip = None

\* Up to 64 Ticks without any debugger feature.
FastBatch ==
  /\ phase = "poll" /\ ~paused
  /\ Unobserved
  /\ machine' \in Machine
  /\ BumpRevision
  /\ UNCHANGED <<controlVars, opVars, bpVars, tickVars>>

AtBreakpoint ==
  IF hooks.exec
  THEN Candidates(bps, {ExecutionKind}, machine.ip, skip, machine.ax)
  ELSE {}

StopKind(id) == IF id = runUntil THEN "run_until" ELSE "breakpoint"

\* BreakpointManager.check stops the machine ahead of the instruction.
StopAtBreakpoint ==
  /\ phase = "poll" /\ ~paused /\ ~Unobserved
  /\ Selected(bps, AtBreakpoint) # NoHit
  /\ LET table == Scanned(bps, AtBreakpoint)
         id == Selected(bps, AtBreakpoint)
     IN /\ bps' = ClearedTable(table)
        /\ IF runUntil = None THEN UNCHANGED <<hooks, memStop, intStop>>
           ELSE RefreshHooks(bps', traceLeft)
        /\ LastStop([kind |-> StopKind(id), id |-> id, access |-> FALSE])
  /\ ClearRunUntil
  /\ paused' = TRUE
  /\ UNCHANGED <<machine, observed, skip, nextOp, nextBp, traceLeft, phase>>

BeginTick ==
  /\ phase = "poll" /\ ~paused /\ ~Unobserved
  /\ Selected(bps, AtBreakpoint) = NoHit
  /\ bps' = Scanned(bps, AtBreakpoint)
  /\ phase' = "tick"
  /\ UNCHANGED <<machine, observed, controlVars, opVars, nextBp, hooks, traceLeft,
                 memStop, intStop>>

\* Mutant: the limit is compared with host progress, not the guest clock.
ElapseNever == UNCHANGED deadline

\* Guest time passes in every Tick.
Elapse == IF deadline = -1 THEN deadline' = -1 ELSE deadline' \in 0..deadline - 1

\* A Tick that leaves CS:IP where it was: HLT, or an INT that was stopped.
\* Devices tick all the same.
StayPut ==
  /\ \E dev \in BOOLEAN : machine' = [machine EXCEPT !.dev = dev]
  /\ Elapse
  /\ phase' = "after"

TickHalted ==
  /\ phase = "tick"
  /\ StayPut
  /\ UNCHANGED <<observed, paused, step, lastStop, skip, runUntil, opVars, bpVars,
                 nextBp, memStop, intStop>>

\* An ordinary instruction, or the dispatch of a hardware interrupt.
BeginInstruction ==
  /\ phase = "tick"
  /\ phase' = "exec"
  /\ UNCHANGED <<machine, observed, controlVars, opVars, bpVars, memStop, intStop>>

\* Op_INT: a breakpoint resets IP to the INT and executes nothing, but the
\* trap flag still pushes a frame behind it.
InterruptMatches(n) ==
  IF hooks.interrupt THEN Candidates(bps, {InterruptKind}, n, skip, machine.ax) ELSE {}

SoftwareInterrupt(n) ==
  /\ phase = "tick"
  /\ intStop = NoHit
  /\ bps' = Scanned(bps, InterruptMatches(n))
  /\ intStop' = Selected(bps, InterruptMatches(n))
  /\ \/ intStop' # NoHit /\ StayPut
     \/ phase' = "exec" /\ UNCHANGED <<machine, deadline>>
  /\ UNCHANGED <<observed, paused, step, lastStop, skip, runUntil, opVars, nextBp,
                 hooks, traceLeft, memStop>>

\* ReadMemByte and WriteMemByte: the first watchpoint hit of a Tick counts.
AccessMatches(kind, a) ==
  IF hooks.memory
  THEN Candidates(bps, {kind, "memory_access"}, a, skip, machine.ax)
  ELSE {}

\* Mutant: the hooks are refreshed as soon as a watchpoint has removed itself.
AccessMemoryRefreshing(kind, a) ==
  /\ phase = "exec"
  /\ memStop = NoHit
  /\ AccessMatches(kind, a) # {}
  /\ bps' = Scanned(bps, AccessMatches(kind, a))
  /\ memStop' = Selected(bps, AccessMatches(kind, a))
  /\ SetHooks(bps', traceLeft)
  /\ UNCHANGED <<machine, observed, controlVars, opVars, nextBp, traceLeft, phase, intStop>>

AccessMemory(kind, a) ==
  /\ phase = "exec"
  /\ memStop = NoHit
  /\ AccessMatches(kind, a) # {}
  /\ bps' = Scanned(bps, AccessMatches(kind, a))
  /\ memStop' = Selected(bps, AccessMatches(kind, a))
  /\ UNCHANGED <<machine, observed, controlVars, opVars, nextBp, hooks, traceLeft,
                 phase, intStop>>

FinishInstruction ==
  /\ phase = "exec"
  /\ machine' \in Machine
  /\ Elapse
  /\ phase' = "after"
  /\ UNCHANGED <<observed, paused, step, lastStop, skip, runUntil, opVars, bpVars,
                 nextBp, memStop, intStop>>

\* Tick returns -1 after five 0x00 opcodes in a row: main leaves its loop.
LeaveLoop ==
  /\ \/ phase = "tick"
     \/ phase = "poll" /\ ~paused /\ Unobserved
  /\ phase' = "exited"
  /\ UNCHANGED <<machine, observed, controlVars, opVars, bpVars, memStop, intStop>>

\* What main.py finds when it consumes the CPU's stops: it asks only while the
\* flag says that there is a hook.
MemoryHit == IF hooks.memory THEN memStop ELSE NoHit
InterruptHit == IF hooks.interrupt THEN intStop ELSE NoHit

\* Mutant: the INT's stop is looked for only if there is no watchpoint's.
ConsumeStopsElif ==
  /\ memStop' = IF hooks.memory THEN NoHit ELSE memStop
  /\ intStop' = IF MemoryHit # NoHit /\ HasInterrupt(ClearedTable(bps)) THEN intStop
                ELSE IF hooks.interrupt \/ MemoryHit # NoHit THEN NoHit ELSE intStop

ConsumeStops ==
  /\ memStop' = IF hooks.memory THEN NoHit ELSE memStop
  \* Behind a watchpoint's stop the hooks are refreshed first: with the hook of
  \* the last INT breakpoint its stop goes, and else it is consumed.
  /\ intStop' = IF hooks.interrupt \/ MemoryHit # NoHit THEN NoHit ELSE intStop

\* Mutant: the trace counts on below zero.
EndRoundUnguarded ==
  /\ phase = "after"
  /\ phase' = "poll"
  /\ ConsumeStops
  /\ skip' = None
  /\ BumpRevision
  /\ traceLeft' = traceLeft - 1
  /\ UNCHANGED <<machine, nextOp, nextBp>>

\* What every round does behind its Tick, whatever ended it.
EndRound ==
  /\ phase = "after"
  /\ phase' = "poll"
  /\ ConsumeStops
  /\ skip' = None
  /\ BumpRevision
  /\ traceLeft' = IF traceLeft > 0 THEN traceLeft - 1 ELSE 0
  /\ UNCHANGED <<machine, nextOp, nextBp>>

\* Mutant: the INT breakpoint wins.
WatchedIntFirst == IF InterruptHit # NoHit THEN InterruptHit ELSE MemoryHit

Watched == IF MemoryHit # NoHit THEN MemoryHit ELSE InterruptHit

HooksAfterTrace ==
  IF traceLeft > 0 THEN SetHooks(bps, traceLeft') ELSE UNCHANGED hooks

\* Mutant: the hooks are not refreshed after a watchpoint removed itself.
StopOnHitStale ==
  /\ EndRound
  /\ Watched # NoHit
  /\ bps' = ClearedTable(bps)
  /\ ClearRunUntil
  /\ paused' = TRUE
  /\ LastStop([kind |-> StopKind(Watched), id |-> Watched,
               access |-> MemoryHit # NoHit])
  /\ HooksAfterTrace

\* A watchpoint wins over an INT breakpoint, and both over the time limit.
StopOnHit ==
  /\ EndRound
  /\ Watched # NoHit
  /\ bps' = ClearedTable(bps)
  /\ ClearRunUntil
  /\ paused' = TRUE
  /\ LastStop([kind |-> StopKind(Watched), id |-> Watched,
               access |-> MemoryHit # NoHit])
  /\ SetHooks(bps', traceLeft')

StopOnDeadline ==
  /\ EndRound
  /\ Watched = NoHit /\ deadline = 0
  /\ bps' = ClearedTable(bps)
  /\ ClearRunUntil
  /\ paused' = TRUE
  /\ LastStop([kind |-> "emulated_time_limit", id |-> None, access |-> FALSE])
  /\ SetHooks(bps', traceLeft')

\* Mutant: a step under a trace is not ended.
StopOnStepUntraced ==
  /\ EndRound
  /\ Watched = NoHit /\ deadline # 0 /\ step /\ traceLeft = 0
  /\ paused' = TRUE
  /\ LastStop([kind |-> "step", id |-> None, access |-> FALSE])
  /\ HooksAfterTrace
  /\ UNCHANGED <<bps, runUntil, deadline>>

StopOnStep ==
  /\ EndRound
  /\ Watched = NoHit /\ deadline # 0 /\ step
  /\ paused' = TRUE
  /\ LastStop([kind |-> "step", id |-> None, access |-> FALSE])
  /\ HooksAfterTrace
  /\ UNCHANGED <<bps, runUntil, deadline>>

KeepRunning ==
  /\ EndRound
  /\ Watched = NoHit /\ deadline # 0 /\ ~step
  /\ HooksAfterTrace
  /\ UNCHANGED <<bps, runUntil, deadline, paused, step, lastStop, active, ops>>

Round ==
  \/ FastBatch \/ StopAtBreakpoint \/ BeginTick
  \/ TickHalted \/ BeginInstruction \/ FinishInstruction
  \/ \E n \in Vectors : SoftwareInterrupt(n)
  \/ \E kind \in {"memory_read", "memory_write"}, a \in Data : AccessMemory(kind, a)
  \/ StopOnHit \/ StopOnDeadline \/ StopOnStep \/ KeepRunning

-----------------------------------------------------------------------------
Next == Request \/ Round \/ LeaveLoop

Spec == Init /\ [][Next]_vars

\* The main loop runs whenever the machine is not paused.
FairSpec == Spec /\ WF_vars(Round)

-----------------------------------------------------------------------------
(* Properties *)

TypeOK ==
  /\ phase \in {"poll", "tick", "exec", "after", "exited"}
  /\ machine \in Machine
  /\ paused \in BOOLEAN /\ step \in BOOLEAN
  /\ lastStop \in Stops \cup {NoStop}
  /\ skip \in 0..MaxBps /\ runUntil \in 0..MaxBps
  /\ deadline \in -1..MaxCycles
  /\ nextOp \in 1..MaxOps + 1 /\ active \in 0..MaxOps
  /\ DOMAIN ops \subseteq 1..MaxOps
  /\ \A o \in DOMAIN ops :
        ops[o] \in [kind : {"continue", "run_until", "step"}, done : BOOLEAN,
                    stop : Stops \cup {NoStop}]
  /\ nextBp \in 1..MaxBps + 1
  /\ DOMAIN bps \subseteq 1..nextBp - 1
  /\ bps \in [DOMAIN bps -> BreakpointsAt(Code \cup Data \cup Vectors)]
  /\ hooks \in [exec : BOOLEAN, memory : BOOLEAN, interrupt : BOOLEAN, trace : BOOLEAN]
  /\ traceLeft \in 0..MaxTrace
  /\ memStop \in 0..MaxBps /\ intStop \in 0..MaxBps
  /\ observed \in Seen

\* The ledger of operations (main.py:252-285): the only operation that is not
\* done is the active one, it is still retained and carries no stop reason, and
\* it exists only while the machine runs -- so a stop of any kind, from any of
\* the six places that pause, has completed it exactly when the machine pauses.
OperationLedger ==
  /\ TypeOK
  /\ active # None => ~paused /\ active \in DOMAIN ops /\ active < nextOp
  /\ \A o \in DOMAIN ops :
        /\ o < nextOp
        /\ ops[o].done <=> o # active
        /\ ops[o].done <=> ops[o].stop # NoStop
  /\ Cardinality(DOMAIN ops) <= Retained

\* run_until's private predicate and its guest-time limit live exactly as long
\* as its operation (main.py:287-295, :985-1027): none is left behind by any
\* stop, pause, step or import, none outlives a run that found another stop.
RunUntilOwned ==
  /\ runUntil # None =>
       active # None /\ ops[active].kind = "run_until" /\ ~step
  /\ active # None /\ ops[active].kind = "run_until" => runUntil # None
  /\ deadline # -1 => runUntil # None
  /\ step => active # None /\ ops[active].kind = "step"
  /\ \A i \in DOMAIN bps : bps[i].private => i = runUntil

\* No observer is ever left to the fast path (main.py:1064-1070): between two
\* rounds every breakpoint in the table is announced by its flag and the CPU
\* hooks are the ones the table and the trace need.  One-shot breakpoints
\* remove themselves in the middle of a round, so this is not one assignment.
ObserversArmed ==
  phase = "poll" =>
    /\ HasExecution(bps) => hooks.exec
    /\ hooks.memory = HasMemoryAccess(bps)
    /\ hooks.interrupt = HasInterrupt(bps)
    /\ hooks.trace = (traceLeft > 0)

\* Optimistic concurrency (main.py:702-729, :634-637): a client that still
\* holds the current state_revision has seen the machine as it is, whatever
\* rounds, device accesses and imports happened since its read; but for the
\* latches of a planar VGA, if somebody has used memory.read since.
CurrentRevisionIsTruth ==
  phase = "poll" /\ observed # Nothing =>
    \/ observed = machine
    \/ observed = [machine EXCEPT !.latch = Reloaded]

\* What execution.wait once reported stays true (main.py:947-962): a completed
\* operation keeps its stop reason for as long as it is retained, and only an
\* import or a newer operation drops it.
StopReasonsKept ==
  [][\A o \in DOMAIN ops :
        \/ ops[o].done /\ o \in DOMAIN ops' /\ ops'[o] = ops[o]
        \/ ops[o].done /\ o \notin DOMAIN ops' /\ nextOp' > nextOp
        \/ ~ops[o].done /\ o \in DOMAIN ops'
        \/ lastStop'.kind = "machine_snapshot_restored"]_vars

\* A stop that a hook reported, to the clients and to the operation it ends.
ReportedHit(id, access) ==
  /\ paused'
  /\ lastStop' = [kind |-> StopKind(id), id |-> id, access |-> access]
  /\ active # None => ops'[active].done /\ ops'[active].stop = lastStop'

\* The stops the CPU keeps (main.py:1121-1154, i8088.py:237-262, :1888-1892) are
\* those of one Tick.  What its hooks selected is kept until the Tick ends, the
\* first hit being the one that counts; it is reported there, the watchpoint's
\* over the INT breakpoint's; none is lost with a breakpoint that removed itself,
\* none is left for a later Tick to stop for, and no Tick without one reports a
\* breakpoint.
HitsStop ==
  [][/\ phase = "poll" => memStop = NoHit /\ intStop = NoHit
     /\ phase' # "poll" =>
          /\ memStop # NoHit => memStop' = memStop
          /\ intStop # NoHit => intStop' = intStop
     /\ phase = "after" /\ phase' = "poll" =>
          CASE memStop # NoHit -> ReportedHit(memStop, TRUE)
            [] memStop = NoHit /\ intStop # NoHit -> ReportedHit(intStop, FALSE)
            [] memStop = NoHit /\ intStop = NoHit ->
                 paused' => lastStop'.kind \in {"step", "emulated_time_limit"}]_vars

\* A step ends (main.py:1194), even under watchpoints, traces and stops that
\* win over it, unless the emulator leaves its loop.
StepsComplete == step ~> (~step \/ phase = "exited")

\* A guest-time limit ends its run (main.py:1155): the predicate may never
\* match, or may have been deleted, and the machine may halt.
LimitsBoundRuns == deadline # -1 ~> (deadline = -1 \/ phase = "exited")
=============================================================================
