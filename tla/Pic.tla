-------------------------------- MODULE Pic ---------------------------------
(***************************************************************************)
(* i8259.py: the interrupt controller, as the devices that request, the    *)
(* processor that acknowledges (i8088.py, Tick and InvokeInterrupt) and    *)
(* the guest that programs it see it.  Level 0 has the highest priority.   *)
(* A command byte is a record of the bits the code looks at; the vector    *)
(* offset that ICW2 also stores is left out.                               *)
(***************************************************************************)
EXTENDS Integers

CONSTANTS
  Lines,     \* interrupt request lines, eight in the code
  Wired      \* the lines that some device's GetIRQNumber names

Levels == 0..Lines - 1

ASSUME PicAssumption == Lines \in Nat \ {0} /\ Wired \subseteq Levels

VARIABLES
  irr, isr, imr,   \* requested, in service, masked
  inService,       \* _int_in_service
  autoEoi,         \* _auto_eoi
  init,            \* what the data port expects: an ICW, or the "mask"
  hasSlave, needIcw4,
  readIrr,         \* which register the command port reads
  interrupted      \* history: <<k, l>> when l was acknowledged while k was in service

picVars == <<irr, isr, imr, inService, autoEoi, init, hasSlave, needIcw4, readIrr, interrupted>>
icwVars == <<init, hasSlave, needIcw4>>

\* _highest_in_service of a set of levels, -1 if there is none
Highest(levels) ==
  IF levels = {} THEN -1
  ELSE CHOOSE l \in levels : \A k \in levels : l <= k

PicInit ==
  /\ irr = {} /\ isr = {} /\ imr = Levels
  /\ inService = -1
  /\ autoEoi = FALSE
  /\ init = "mask" /\ hasSlave = FALSE /\ needIcw4 = FALSE
  /\ readIrr = TRUE
  /\ interrupted = {}

\* Mutant: the level in service does not block itself.
PendingReentrant ==
  {l \in irr \ imr : \A k \in 0..l - 1 : k \notin isr /\ k \notin irr \ imr}

\* GetPendingInterrupt, as the set of the level it returns: an ISR bit blocks
\* its own level and every lower one.
Pending ==
  {l \in irr \ imr : (\A k \in 0..l : k \notin isr) /\ (\A k \in 0..l - 1 : k \notin irr \ imr)}

\* RequestInterruptPIC
Request(l) ==
  /\ irr' = irr \cup {l}
  /\ UNCHANGED <<isr, imr, inService, autoEoi, icwVars, readIrr, interrupted>>

\* SetIRQBeingServiced, for a level that has a device behind it.
Acknowledge(l) ==
  /\ l \in Pending \cap Wired
  /\ irr' = irr \ {l}
  /\ isr' = IF autoEoi THEN isr ELSE isr \cup {l}
  /\ inService' = Highest(isr')
  /\ interrupted' = IF autoEoi THEN interrupted ELSE interrupted \cup (isr \X {l})
  /\ UNCHANGED <<imr, autoEoi, icwVars, readIrr>>

WriteIcw1(slave, icw4) ==
  /\ init' = "icw2" /\ hasSlave' = slave /\ needIcw4' = icw4
  /\ autoEoi' = (autoEoi /\ icw4)
  /\ readIrr' = TRUE
  /\ irr' = {} /\ isr' = {} /\ imr' = {}
  /\ inService' = -1
  /\ interrupted' = {}

\* Mutant: the EOI consumes a request of the same level, too.
WriteEoiClears(specific, level) ==
  LET l == IF specific THEN level ELSE Highest(isr)
  IN /\ isr' = isr \ {l}
     /\ irr' = irr \ {l}
     /\ inService' = Highest(isr')
     /\ interrupted' = interrupted \cap (isr' \X isr')
     /\ UNCHANGED <<imr, autoEoi, icwVars, readIrr>>

\* OCW2 with the EOI bit: a specific EOI names its level.
WriteEoi(specific, level) ==
  LET l == IF specific THEN level ELSE Highest(isr)
  IN /\ isr' = isr \ {l}
     /\ inService' = Highest(isr')
     /\ interrupted' = interrupted \cap (isr' \X isr')
     /\ UNCHANGED <<irr, imr, autoEoi, icwVars, readIrr>>

\* OCW3: RIS counts only with RR.
WriteOcw3(rr, ris) ==
  /\ readIrr' = IF rr THEN ~ris ELSE readIrr
  /\ UNCHANGED <<irr, isr, imr, inService, autoEoi, icwVars, interrupted>>

\* The data port: ICW2, ICW3 and ICW4 as far as ICW1 announced them, the mask
\* otherwise.
WriteIcw2 ==
  /\ init = "icw2"
  /\ init' = IF hasSlave THEN "icw3" ELSE IF needIcw4 THEN "icw4" ELSE "mask"
  /\ UNCHANGED <<irr, isr, imr, inService, autoEoi, hasSlave, needIcw4, readIrr, interrupted>>

WriteIcw3 ==
  /\ init = "icw3"
  /\ init' = IF needIcw4 THEN "icw4" ELSE "mask"
  /\ UNCHANGED <<irr, isr, imr, inService, autoEoi, hasSlave, needIcw4, readIrr, interrupted>>

WriteIcw4(aeoi) ==
  /\ init = "icw4"
  /\ init' = "mask"
  /\ autoEoi' = aeoi
  /\ UNCHANGED <<irr, isr, imr, inService, hasSlave, needIcw4, readIrr, interrupted>>

WriteMask(mask) ==
  /\ init = "mask"
  /\ imr' = mask
  /\ UNCHANGED <<irr, isr, inService, autoEoi, icwVars, readIrr, interrupted>>

PicProgram ==
  \/ \E slave, icw4 \in BOOLEAN : WriteIcw1(slave, icw4)
  \/ \E specific \in BOOLEAN, l \in Levels : WriteEoi(specific, l)
  \/ \E rr, ris \in BOOLEAN : WriteOcw3(rr, ris)
  \/ WriteIcw2 \/ WriteIcw3
  \/ \E aeoi \in BOOLEAN : WriteIcw4(aeoi)
  \/ \E mask \in SUBSET Levels : WriteMask(mask)

PicNext == \/ \E l \in Levels : Request(l) \/ Acknowledge(l)
           \/ PicProgram

PicSpec == PicInit /\ [][PicNext]_picVars

-----------------------------------------------------------------------------
(* Properties *)

PicTypeOK ==
  /\ irr \subseteq Levels /\ isr \subseteq Levels /\ imr \subseteq Levels
  /\ inService \in Levels \cup {-1}
  /\ autoEoi \in BOOLEAN
  /\ init \in {"icw2", "icw3", "icw4", "mask"}
  /\ hasSlave \in BOOLEAN /\ needIcw4 \in BOOLEAN /\ readIrr \in BOOLEAN
  /\ interrupted \subseteq Levels \X Levels

\* The level whose handler no other one has interrupted, or -1.
Innermost ==
  IF isr = {} THEN -1
  ELSE CHOOSE l \in isr : \A k \in isr \ {l} : <<k, l>> \in interrupted

\* Fully nested service (i8259.py:62-71, :110-118, :168-172): whatever masks,
\* EOIs and initializations come in between, a handler is only ever interrupted
\* by one of strictly higher priority, and the level that inService names -- the
\* one a non-specific EOI will end -- is the one acknowledged last.
FullyNested ==
  /\ \A k, l \in isr : <<k, l>> \in interrupted => l < k
  /\ \A k, l \in isr : k # l => <<k, l>> \in interrupted \/ <<l, k>> \in interrupted
  /\ interrupted \subseteq isr \X isr
  /\ inService = Innermost

\* Automatic EOI is on only if the last ICW1 announced the ICW4 that set it
\* (i8259.py:144-148), and the data port never waits for a word that the
\* announced sequence does not contain.
AutoEoiIsAnnounced ==
  /\ autoEoi => needIcw4
  /\ init = "icw4" => needIcw4
  /\ init = "icw3" => hasSlave

\* A request is consumed by an initialization or by its acknowledgement while
\* it is unmasked and unblocked, never by an EOI, by masking or by a repeated
\* request (i8259.py:113, :167).
RequestsKept ==
  [][\A l \in irr \ irr' : l \in Pending \/ init' = "icw2"]_picVars
=============================================================================
