------------------------------ MODULE Keyboard ------------------------------
(***************************************************************************)
(* keyboard.py and device.py: scan codes pushed by host threads, the       *)
(* interrupts scheduled for them, and a guest that reads them in an IRQ1   *)
(* handler, through the interrupt controller of Pic.tla.                   *)
(*                                                                         *)
(* The emulator thread alternates between an instruction of the guest and  *)
(* Keyboard.Tick.  Everything in keyboard.py holds _state_lock, but for    *)
(* Tick's first look at _interrupt_pending.  The guest's program is not    *)
(* part of the source: a BIOS-like handler, interrupted by a timer, that   *)
(* writes bit 6 of port 0x61 back as POST left it.                         *)
(*                                                                         *)
(* A scan code is numbered by its push; the reset reply 0xAA is numbered   *)
(* like one.  A delay counts Ticks, not cycles.                            *)
(***************************************************************************)
EXTENDS Pic, Sequences

CONSTANTS
  Hosts,      \* host threads that push scan codes (VNC and Telnet sessions)
  NoOne,      \* nobody holds _state_lock
  Delay,      \* _kb_key_irq and _kb_reset_irq_delay
  MaxCodes,   \* bound: scan codes and reset replies
  MaxTimer    \* bound: timer interrupts

ASSUME KeyboardAssumption ==
  /\ NoOne \notin Hosts
  /\ Delay \in Nat \ {0} /\ MaxCodes \in Nat /\ MaxTimer \in Nat
  /\ {0, 1} \subseteq Wired

VARIABLES
  buffer,     \* _keyboard_buffer
  schedule,   \* _next_interrupt: only its head counts down
  pending,    \* _interrupt_pending
  clear,      \* bit 7 of port 0x61: the keyboard is held
  clockLow,   \* _clock_low
  lock,       \* _state_lock
  made,       \* scan codes made so far
  dropped,    \* how many of them a reset discarded
  cpu,        \* where the emulator thread is
  frames,     \* the guest's interrupt handlers, innermost last
  enabled,    \* the guest's interrupt flag
  timer       \* timer interrupts so far

kbVars == <<buffer, schedule, pending, clear, clockLow, lock, made, dropped>>
guestVars == <<cpu, frames, enabled, timer>>
vars == <<picVars, kbVars, guestVars>>

Init ==
  /\ PicInit
  /\ buffer = <<>> /\ schedule = <<>> /\ pending = FALSE
  /\ clear = FALSE /\ clockLow = FALSE
  /\ lock = NoOne
  /\ made = 0 /\ dropped = 0
  /\ cpu = "instruction" /\ frames = <<>> /\ enabled = FALSE /\ timer = 0

-----------------------------------------------------------------------------
(* The host threads: PushKeyboardScancode. *)

PushCode(h) ==
  /\ lock = NoOne
  /\ made < MaxCodes
  /\ lock' = h
  /\ made' = made + 1
  /\ buffer' = Append(buffer, made')
  /\ schedule' = Append(schedule, Delay)
  /\ UNCHANGED <<picVars, pending, clear, clockLow, dropped, guestVars>>

\* Mutant: ScheduleInterrupt is not overridden.
PushFinishPlain(h) ==
  /\ lock = h
  /\ lock' = NoOne
  /\ UNCHANGED <<picVars, buffer, schedule, pending, clear, clockLow, made, dropped, guestVars>>

PushFinish(h) ==
  /\ lock = h
  /\ pending' = TRUE
  /\ lock' = NoOne
  /\ UNCHANGED <<picVars, buffer, schedule, clear, clockLow, made, dropped, guestVars>>

-----------------------------------------------------------------------------
(* The emulator thread: an instruction of the guest ... *)

Instruction == cpu = "instruction" /\ cpu' = "tick"

Idle ==
  /\ Instruction
  /\ frames = <<>>
  /\ enabled' \in BOOLEAN
  /\ UNCHANGED <<picVars, kbVars, frames, timer>>

\* The guest masks or unmasks lines.
SetMask(mask) ==
  /\ Instruction
  /\ frames = <<>>
  /\ mask # imr
  /\ WriteMask(mask)
  /\ UNCHANGED <<kbVars, frames, enabled, timer>>

Interrupt(l) ==
  /\ Instruction
  /\ enabled
  /\ Acknowledge(l)
  /\ frames' = Append(frames, [level |-> l, at |-> "entered"])
  /\ enabled' = FALSE
  /\ UNCHANGED <<kbVars, timer>>

Top == frames[Len(frames)]
Handler(l, at) == Instruction /\ frames # <<>> /\ Top = [level |-> l, at |-> at]
GoOn(at) == frames' = [frames EXCEPT ![Len(frames)].at = at]

\* Handlers may let higher levels in until they end.
AllowNesting ==
  /\ Instruction
  /\ frames # <<>> /\ Top.at # "ended" /\ ~enabled
  /\ enabled' = TRUE
  /\ UNCHANGED <<picVars, kbVars, frames, timer>>

\* IO_Read(0x60)
ReadCode ==
  /\ Handler(1, "entered")
  /\ lock = NoOne
  /\ buffer' = IF buffer = <<>> THEN buffer ELSE Tail(buffer)
  /\ GoOn("read")
  /\ UNCHANGED <<picVars, schedule, pending, clear, clockLow, lock, made, dropped,
                 enabled, timer>>

\* IO_Write(0x61): bit 6 going up resets the keyboard, which replaces the
\* buffer, but leaves what is scheduled.
WriteControl(bit7, bit6) ==
  /\ lock = NoOne
  /\ clear' = bit7
  /\ clockLow' = ~bit6
  /\ IF bit6 /\ clockLow
     THEN /\ made < MaxCodes
          /\ made' = made + 1
          /\ dropped' = dropped + Len(buffer)
          /\ buffer' = <<made'>>
          /\ schedule' = Append(schedule, Delay)
          /\ pending' = TRUE
     ELSE UNCHANGED <<made, dropped, buffer, schedule, pending>>
  /\ UNCHANGED lock

HoldKeyboard ==
  /\ Handler(1, "read")
  /\ WriteControl(TRUE, ~clockLow)
  /\ GoOn("held")
  /\ UNCHANGED <<picVars, enabled, timer>>

ReleaseKeyboard ==
  /\ Handler(1, "held")
  /\ WriteControl(FALSE, ~clockLow)
  /\ GoOn("released")
  /\ UNCHANGED <<picVars, enabled, timer>>

ResetKeyboard(bit6) ==
  /\ Instruction
  /\ frames = <<>> /\ bit6 = clockLow
  /\ WriteControl(FALSE, bit6)
  /\ UNCHANGED <<picVars, frames, enabled, timer>>

EndOfInterrupt ==
  /\ Handler(0, "entered") \/ Handler(1, "released")
  /\ WriteEoi(FALSE, 0)
  /\ GoOn("ended")
  /\ enabled' = FALSE
  /\ UNCHANGED <<kbVars, timer>>

Return ==
  /\ Instruction
  /\ frames # <<>> /\ Top.at = "ended"
  /\ frames' = SubSeq(frames, 1, Len(frames) - 1)
  /\ enabled' = TRUE
  /\ UNCHANGED <<picVars, kbVars, timer>>

Guest ==
  \/ Idle \/ \E mask \in SUBSET Levels : SetMask(mask)
  \/ \E l \in Levels : Interrupt(l)
  \/ AllowNesting \/ ReadCode \/ HoldKeyboard \/ ReleaseKeyboard
  \/ \E bit6 \in BOOLEAN : ResetKeyboard(bit6)
  \/ EndOfInterrupt \/ Return

-----------------------------------------------------------------------------
(* ... and the devices' Ticks behind it. *)

TickTimer ==
  /\ cpu = "tick" /\ timer < MaxTimer
  /\ Request(0)
  /\ timer' = timer + 1
  /\ UNCHANGED <<kbVars, cpu, frames, enabled>>

\* Tick reads _interrupt_pending without the lock.
TickLooks ==
  /\ cpu = "tick"
  /\ cpu' = IF pending THEN "locked" ELSE "instruction"
  /\ UNCHANGED <<picVars, kbVars, frames, enabled, timer>>

Counting == ~clear /\ schedule # <<>>
Expired == Counting /\ Head(schedule) <= 1

\* Mutant: what was scheduled behind an expired interrupt is forgotten.
TickCountsOnce ==
  /\ cpu = "locked" /\ lock = NoOne
  /\ cpu' = "instruction"
  /\ IF Expired THEN Request(1) ELSE UNCHANGED picVars
  /\ schedule' = IF Expired THEN Tail(schedule)
                 ELSE IF Counting THEN [schedule EXCEPT ![1] = @ - 1]
                 ELSE schedule
  /\ pending' = ~Expired
  /\ UNCHANGED <<buffer, clear, clockLow, lock, made, dropped, frames, enabled, timer>>

\* Mutant: an expired interrupt stays scheduled.
TickCountsOn ==
  /\ cpu = "locked" /\ lock = NoOne
  /\ cpu' = "instruction"
  /\ IF Expired THEN Request(1) ELSE UNCHANGED picVars
  /\ schedule' = IF Counting /\ ~Expired THEN [schedule EXCEPT ![1] = @ - 1] ELSE schedule
  /\ pending' = (schedule' # <<>>)
  /\ UNCHANGED <<buffer, clear, clockLow, lock, made, dropped, frames, enabled, timer>>

\* Mutant: CheckScheduledInterrupt lets the count run below zero.
TickCountsDown ==
  /\ cpu = "locked" /\ lock = NoOne
  /\ cpu' = "instruction"
  /\ UNCHANGED picVars
  /\ schedule' = IF Counting THEN [schedule EXCEPT ![1] = @ - 1] ELSE schedule
  /\ pending' = (schedule' # <<>>)
  /\ UNCHANGED <<buffer, clear, clockLow, lock, made, dropped, frames, enabled, timer>>

\* The rest of Tick, with the lock.
TickCounts ==
  /\ cpu = "locked" /\ lock = NoOne
  /\ cpu' = "instruction"
  /\ IF Expired THEN Request(1) ELSE UNCHANGED picVars
  /\ schedule' = IF Expired THEN Tail(schedule)
                 ELSE IF Counting THEN [schedule EXCEPT ![1] = @ - 1]
                 ELSE schedule
  /\ pending' = (schedule' # <<>>)
  /\ UNCHANGED <<buffer, clear, clockLow, lock, made, dropped, frames, enabled, timer>>

Emulator == Guest \/ TickTimer \/ TickLooks \/ TickCounts

Next == Emulator \/ \E h \in Hosts : PushCode(h) \/ PushFinish(h)

Spec == Init /\ [][Next]_vars

FairSpec == Spec /\ WF_vars(Emulator) /\ \A h \in Hosts : WF_vars(PushFinish(h))

-----------------------------------------------------------------------------
(* Properties *)

TypeOK ==
  /\ PicTypeOK
  /\ buffer \in Seq(1..MaxCodes) /\ schedule \in Seq(1..Delay)
  /\ pending \in BOOLEAN /\ clear \in BOOLEAN /\ clockLow \in BOOLEAN
  /\ lock \in Hosts \cup {NoOne}
  /\ made \in 0..MaxCodes /\ dropped \in 0..MaxCodes
  /\ cpu \in {"instruction", "tick", "locked"}
  /\ \A i \in DOMAIN frames : frames[i].level \in {0, 1}
  /\ enabled \in BOOLEAN /\ timer \in 0..MaxTimer

\* "Reading this flag without the lock ... cannot lose" an event
\* (keyboard.py:31-34): whenever the lock is free, scheduled interrupts are
\* announced by the flag, wherever Tick and the pushing threads are.
ScheduleAnnounced ==
  /\ TypeOK
  /\ lock = NoOne /\ schedule # <<>> => pending

CodesAwaited ==
  {i \in DOMAIN frames : frames[i] = [level |-> 1, at |-> "entered"]}

Count(b) == IF b THEN 1 ELSE 0

\* Interrupts never outnumber scan codes (keyboard.py:42-49, :71-79): what is
\* scheduled, requested, or about to be read by a handler finds its own code,
\* unless a keyboard reset discarded it; otherwise the handler would read the
\* last key a second time.
EveryIrqHasItsCode ==
  Len(schedule) + Count(1 \in irr) + Count(CodesAwaited # {})
    <= Len(buffer) + dropped

\* Every scheduled interrupt is requested in the end (keyboard.py:123-132),
\* although the guest holds the keyboard now and then and threads push while
\* Tick looks: the schedule runs empty once nobody pushes.
SchedulesFire == schedule # <<>> ~> schedule = <<>>

\* "The XT keyboard raises IRQ1 as soon as a scan code is available"
\* (keyboard.py:19): while one is, an interrupt is scheduled, requested, or
\* being handled by a handler that is yet to read.
AvailableRaisesIrq ==
  buffer # <<>> => schedule # <<>> \/ 1 \in irr \/ CodesAwaited # {}
=============================================================================
