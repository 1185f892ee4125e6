-------------------------------- MODULE Uart --------------------------------
(***************************************************************************)
(* uart8250.py: the serial port between the guest's port accesses, the     *)
(* host's serial.write requests and the interrupt controller, of which     *)
(* only the request bit and the handler of line 4 are here.  The receive   *)
(* queue is its length.  What the guest transmits is in Rings.tla; the     *)
(* divisor, line control and scratch registers, which nothing else reads,  *)
(* are left out.                                                           *)
(***************************************************************************)
EXTENDS Integers

CONSTANT UartCapacity   \* bytes the host may have waiting, 65536

ASSUME UartAssumption == UartCapacity \in Nat \ {0}

Causes == {"line", "rx", "thre", "modem"}    \* the bits of the IER

VARIABLES
  ier, out2, loopback,   \* the bits of IER and MCR the code looks at
  rx,                    \* len(rx)
  overrun,               \* errors # 0: only loopback sets one
  delta,                 \* a modem status change not read yet
  threPending,
  requested,             \* the PIC's IRR bit of line 4
  handler                \* the guest's handler of line 4: where it is

uartVars == <<ier, out2, loopback, rx, overrun, delta, threPending, requested, handler>>

\* interrupt(): the cause the IIR names, errors first, or "clear".
Cause ==
  IF overrun /\ "line" \in ier THEN "line"
  ELSE IF rx > 0 /\ "rx" \in ier THEN "rx"
  ELSE IF threPending /\ "thre" \in ier THEN "thre"
  ELSE IF delta /\ "modem" \in ier THEN "modem"
  ELSE "clear"

\* notify(), at the end of a port access or of a host's write.
Notify == requested' = (requested \/ (out2' /\ Cause' # "clear"))

\* A handler that is still at work after an access.
Busy(place) == handler' = IF handler = "none" THEN "none" ELSE place

UartInit ==
  /\ ier = {} /\ out2 = FALSE /\ loopback = FALSE
  /\ rx = 0 /\ overrun = FALSE /\ delta = FALSE
  /\ threPending = TRUE
  /\ requested = FALSE /\ handler = "none"

-----------------------------------------------------------------------------
\* Mutant: the bytes are queued without a word to the interrupt controller.
HostWriteQuietly(n) ==
  /\ ~loopback /\ rx + n <= UartCapacity
  /\ rx' = rx + n
  /\ UNCHANGED <<ier, out2, loopback, overrun, delta, threPending, requested, handler>>

\* host_write of n bytes: refused in loopback mode or without room for all.
HostWrite(n) ==
  /\ ~loopback /\ rx + n <= UartCapacity
  /\ rx' = rx + n
  /\ UNCHANGED <<ier, out2, loopback, overrun, delta, threPending, handler>>
  /\ Notify

-----------------------------------------------------------------------------
(* The guest's port accesses. *)

\* RBR
ReadRbr ==
  /\ rx' = IF rx = 0 THEN 0 ELSE rx - 1
  /\ UNCHANGED <<ier, out2, loopback, overrun, delta, threPending>>
  /\ Notify
  /\ Busy(IF handler = "rx" THEN "served" ELSE "at work")

\* IIR: the transmitter's cause is gone once it was named.
ReadIir ==
  /\ threPending' = (threPending /\ Cause # "thre")
  /\ UNCHANGED <<ier, out2, loopback, rx, overrun, delta, requested>>
  /\ Busy(Cause)

\* LSR and MSR clear what they report, and notify nobody.
ReadLsr ==
  /\ overrun' = FALSE
  /\ UNCHANGED <<ier, out2, loopback, rx, delta, threPending, requested>>
  /\ Busy("at work")

ReadMsr ==
  /\ delta' = FALSE
  /\ UNCHANGED <<ier, out2, loopback, rx, overrun, threPending, requested>>
  /\ Busy("at work")

\* THR; in loopback mode the byte comes back, if there is room for it.
WriteThr ==
  /\ overrun' = (overrun \/ (loopback /\ rx > 0))
  /\ rx' = IF loopback /\ rx = 0 THEN 1 ELSE rx
  /\ threPending' = TRUE
  /\ UNCHANGED <<ier, out2, loopback, delta>>
  /\ Notify
  /\ Busy(IF handler = "thre" THEN "served" ELSE "at work")

\* IER: enabling the transmitter's interrupt raises it.
WriteIer(causes) ==
  /\ threPending' = (threPending \/ "thre" \in causes \ ier)
  /\ ier' = causes
  /\ UNCHANGED <<out2, loopback, rx, overrun, delta>>
  /\ Notify
  /\ Busy("at work")

\* MCR: in loopback mode its outputs are the modem status, out of it the
\* virtual terminal's are.  Of the four outputs only OUT2 is kept apart: what
\* the others do to the status may be a change or not.
WriteMcr(gate, loop) ==
  /\ out2' = gate /\ loopback' = loop
  /\ \/ loop /\ loopback /\ gate # out2 /\ delta' = TRUE
     \/ loop /\ ~loopback /\ ~gate /\ delta' = TRUE
     \/ ~loop /\ loopback /\ ~out2 /\ delta' = TRUE
     \/ loop /\ loopback /\ gate = out2 /\ delta' \in {delta, TRUE}
     \/ (IF loop THEN gate ELSE out2) /\ loop # loopback /\ delta' \in {delta, TRUE}
     \/ ~loop /\ ~loopback /\ UNCHANGED delta
  /\ UNCHANGED <<ier, rx, overrun, threPending>>
  /\ Notify
  /\ Busy("at work")

-----------------------------------------------------------------------------
(* The guest's handler of line 4: one that reads the IIR until it is clear,  *)
(* or, with only data interrupts enabled, one that serves the one cause the  *)
(* IIR named, as serial drivers on edge-triggered lines do.                  *)

EnterHandler ==
  /\ requested /\ handler = "none"
  /\ requested' = FALSE /\ handler' = "at work"
  /\ UNCHANGED <<ier, out2, loopback, rx, overrun, delta, threPending>>

LeaveHandler ==
  /\ \/ handler = "clear"
     \/ handler \in {"served", "thre"} /\ ier \subseteq {"rx", "thre"}
  /\ handler' = "none"
  /\ UNCHANGED <<ier, out2, loopback, rx, overrun, delta, threPending, requested>>

UartNext ==
  \/ \E n \in 1..UartCapacity : HostWrite(n)
  \/ ReadRbr \/ ReadIir \/ ReadLsr \/ ReadMsr \/ WriteThr
  \/ \E causes \in SUBSET Causes : WriteIer(causes)
  \/ \E gate, loop \in BOOLEAN : WriteMcr(gate, loop)
  \/ EnterHandler \/ LeaveHandler

UartSpec == UartInit /\ [][UartNext]_uartVars

-----------------------------------------------------------------------------
UartTypeOK ==
  /\ ier \subseteq Causes
  /\ {out2, loopback, overrun, delta, threPending, requested} \subseteq BOOLEAN
  /\ rx \in 0..UartCapacity
  /\ handler \in {"none", "at work", "served", "clear"} \cup Causes

\* A condition the guest has enabled and has not been told of is announced:
\* its request waits at the interrupt controller or its handler is at work,
\* whatever the host writes meanwhile.  The code calls notify after writes,
\* host input and RBR reads only (uart8250.py:63-67, 108-136); a condition
\* left behind without a request would stop the port for ever, because the
\* controller sees edges only.
ConditionAnnounced ==
  out2 /\ Cause # "clear" => requested \/ handler # "none"
=============================================================================
