----------------------------- MODULE MainProofs -----------------------------
(***************************************************************************)
(* Proofs about the requests of main.py and the loop they are served in:   *)
(* Breakpoints.tla and ExecControl.tla, for any breakpoints, predicates,   *)
(* guest and bounds; Checkpoint.tla, for any archives, directories and     *)
(* bounds.                                                                 *)
(***************************************************************************)
EXTENDS ExecControl, Checkpoint, FiniteSetTheorems, WellFoundedInduction, TLAPS

Places == Code \cup Data \cup Vectors

\* A table that breakpoints are scanned in: typed entries under positive ids.
TableOK(t) ==
  /\ DOMAIN t \subseteq Nat \ {0}
  /\ t \in [DOMAIN t -> BreakpointsAt(Places)]

-----------------------------------------------------------------------------
(* The table of breakpoints. *)

\* A nonempty set of ids has a least one, the first in creation order.
LEMMA LeastExists ==
  ASSUME NEW S \in SUBSET Nat, S # {}
  PROVE  \E x \in S : \A y \in S : x <= y
<1>1. PICK x \in S : \A y \in S : <<y, x>> \notin OpToRel(<, Nat)
  BY NatLessThanWellFounded, WFMin
<1>2. \A y \in S : x <= y
  <2> SUFFICES ASSUME NEW y \in S PROVE x <= y
    OBVIOUS
  <2>1. ~(y < x)
    BY <1>1 DEF OpToRel
  <2>2. x \in Nat /\ y \in Nat
    OBVIOUS
  <2>3. QED BY <2>1, <2>2
<1>3. QED BY <1>2

\* The scan (debugbreakpoints.py:227-306) selects a match that is due, and
\* every match it passed over before that was not.
LEMMA SelectedIsDue ==
  ASSUME NEW t, TableOK(t), NEW M \in SUBSET DOMAIN t
  PROVE  \/ /\ Selected(t, M) = NoHit
            /\ \A i \in M : t[i].due # 0
         \/ /\ Selected(t, M) \in M
            /\ Selected(t, M) # NoHit
            /\ t[Selected(t, M)].due = 0
            /\ \A i \in M : i < Selected(t, M) => t[i].due # 0
<1> DEFINE ready == {i \in M : t[i].due = 0}
<1>1. CASE ready = {}
  BY <1>1 DEF Selected
<1>2. CASE ready # {}
  <2>1. ready \in SUBSET Nat
    BY DEF TableOK
  <2>2. \E x \in ready : \A y \in ready : x <= y
    BY <1>2, <2>1, LeastExists
  <2>3. Selected(t, M) = CHOOSE i \in ready : \A j \in ready : i <= j
    BY <1>2 DEF Selected
  <2>4. Selected(t, M) \in ready /\ \A j \in ready : Selected(t, M) <= j
    BY <2>2, <2>3
  <2>5. Selected(t, M) \in Nat \ {0}
    BY <2>4 DEF TableOK
  <2>6. \A i \in M : i < Selected(t, M) => t[i].due # 0
    <3> SUFFICES ASSUME NEW i \in M, i < Selected(t, M), t[i].due = 0 PROVE FALSE
      OBVIOUS
    <3>1. i \in Nat /\ Selected(t, M) <= i
      BY <2>1, <2>4
    <3>2. QED BY <3>1, <2>5
  <2>7. QED BY <2>4, <2>5, <2>6 DEF NoHit
<1>3. QED BY <1>1, <1>2

\* A scan keeps the table typed and every breakpoint's identity; it removes
\* the selected one or nothing, and nothing at all when it selects none.
LEMMA ScanKeepsTable ==
  ASSUME NEW t, TableOK(t), NEW M \in SUBSET DOMAIN t
  PROVE  /\ TableOK(Scanned(t, M))
         /\ DOMAIN t \ {Selected(t, M)} \subseteq DOMAIN Scanned(t, M)
         /\ DOMAIN Scanned(t, M) \subseteq DOMAIN t
         /\ Selected(t, M) = NoHit => DOMAIN Scanned(t, M) = DOMAIN t
         /\ \A i \in DOMAIN Scanned(t, M) :
              /\ Scanned(t, M)[i].kind = t[i].kind
              /\ Scanned(t, M)[i].private = t[i].private
<1> DEFINE s == Selected(t, M)
           c == Counted(t, M)
<1>1. DOMAIN c = DOMAIN t
  BY DEF Counted
<1>2. ASSUME NEW i \in DOMAIN t
      PROVE  c[i] \in BreakpointsAt(Places) /\ c[i].kind = t[i].kind
             /\ c[i].private = t[i].private
  <2>1. t[i] \in BreakpointsAt(Places)
    BY DEF TableOK
  <2>2. CASE i = s
    <3>1. c[i] = [t[i] EXCEPT !.due = t[i].every - 1]
      BY <2>2 DEF Counted
    <3>2. t[i].every - 1 \in Nat
      BY <2>1 DEF BreakpointsAt
    <3>3. QED BY <2>1, <3>1, <3>2 DEF BreakpointsAt
  <2>3. CASE i # s /\ i \in M /\ (s = NoHit \/ i < s)
    <3>1. c[i] = [t[i] EXCEPT !.due = t[i].due - 1]
      BY <2>3 DEF Counted
    <3>2. t[i].due # 0
      BY <2>3, SelectedIsDue
    <3>3. t[i].due - 1 \in Nat
      BY <2>1, <3>2 DEF BreakpointsAt
    <3>4. QED BY <2>1, <3>1, <3>3 DEF BreakpointsAt
  <2>4. CASE i # s /\ ~(i \in M /\ (s = NoHit \/ i < s))
    BY <2>1, <2>4 DEF Counted
  <2>5. QED BY <2>2, <2>3, <2>4
<1>3. c \in [DOMAIN t -> BreakpointsAt(Places)]
  BY <1>2 DEF Counted
<1>4. CASE s # NoHit /\ t[s].once
  <2>1. Scanned(t, M) = [i \in DOMAIN t \ {s} |-> c[i]]
    BY <1>1, <1>4 DEF Scanned, Without
  <2>2. QED BY <1>2, <1>3, <1>4, <2>1 DEF TableOK
<1>5. CASE ~(s # NoHit /\ t[s].once)
  <2>1. Scanned(t, M) = c
    BY <1>5 DEF Scanned
  <2>2. QED BY <1>1, <1>2, <1>3, <2>1 DEF TableOK
<1>6. QED BY <1>4, <1>5

LEMMA WithoutKeepsTable ==
  ASSUME NEW t, TableOK(t), NEW id
  PROVE  /\ TableOK(Without(t, id))
         /\ DOMAIN Without(t, id) = DOMAIN t \ {id}
         /\ \A i \in DOMAIN t \ {id} : Without(t, id)[i] = t[i]
BY DEF Without, TableOK

LEMMA WithKeepsTable ==
  ASSUME NEW t, TableOK(t), NEW id \in Nat \ {0}, NEW b \in BreakpointsAt(Places)
  PROVE  /\ TableOK(With(t, id, b))
         /\ DOMAIN With(t, id, b) = DOMAIN t \cup {id}
         /\ With(t, id, b)[id] = b
         /\ \A i \in DOMAIN t \ {id} : With(t, id, b)[i] = t[i]
BY DEF With, TableOK

LEMMA ClearedKeepsTable ==
  ASSUME NEW t, TableOK(t), NoHit \notin DOMAIN t
  PROVE  /\ TableOK(ClearedTable(t))
         /\ DOMAIN ClearedTable(t) = DOMAIN t \ {runUntil}
         /\ \A i \in DOMAIN t \ {runUntil} : ClearedTable(t)[i] = t[i]
<1>1. CASE runUntil = None
  BY <1>1 DEF ClearedTable, None, NoHit
<1>2. CASE runUntil # None
  BY <1>2, WithoutKeepsTable DEF ClearedTable
<1>3. QED BY <1>1, <1>2

LEMMA PrivateKeepsTable ==
  ASSUME NEW t, TableOK(t)
  PROVE  /\ TableOK(OnlyPrivate(t))
         /\ DOMAIN OnlyPrivate(t) \subseteq DOMAIN t
         /\ \A i \in DOMAIN OnlyPrivate(t) : OnlyPrivate(t)[i] = t[i]
BY DEF OnlyPrivate, TableOK

\* Breakpoints are made from requests the code accepts.
LEMMA NewBreakpointType ==
  ASSUME NEW private \in BOOLEAN, NEW p \in Params \cup Predicates
  PROVE  NewBreakpoint(private, p) \in BreakpointsAt(Places)
BY ExecAssumption DEF NewBreakpoint, BreakpointsAt, Places

-----------------------------------------------------------------------------
(* Type correctness. *)

OpsType ==
  /\ nextOp \in 1..MaxOps + 1 /\ active \in 0..MaxOps
  /\ DOMAIN ops \subseteq 1..MaxOps
  /\ \A o \in DOMAIN ops :
        ops[o] \in [kind : {"continue", "run_until", "step"}, done : BOOLEAN,
                    stop : Stops \cup {NoStop}]

TableType ==
  /\ nextBp \in 1..MaxBps + 1
  /\ DOMAIN bps \subseteq 1..nextBp - 1
  /\ bps \in [DOMAIN bps -> BreakpointsAt(Places)]

LEMMA TableTypeOK ==
  ASSUME TypeOK
  PROVE  /\ OpsType /\ TableType /\ TableOK(bps)
         /\ DOMAIN bps \subseteq 1..MaxBps
         /\ NoHit \notin DOMAIN bps
<1>1. OpsType /\ TableType
  BY DEF TypeOK, OpsType, TableType, Places
<1>2. DOMAIN bps \subseteq 1..MaxBps
  BY <1>1, ExecAssumption DEF TableType
<1>3. DOMAIN bps \subseteq Nat \ {0}
  BY <1>2, ExecAssumption
<1>4. QED BY <1>1, <1>2, <1>3 DEF TableOK, TableType, NoHit

\* What a stop does to the operations, whatever stopped (main.py:252-262).
LEMMA LastStopType ==
  ASSUME OpsType, NEW stop \in Stops, LastStop(stop), nextOp' = nextOp
  PROVE  OpsType' /\ step' \in BOOLEAN /\ lastStop' \in Stops
<1>1. CASE active = None
  BY <1>1, ExecAssumption DEF OpsType, LastStop, None
<1>2. CASE active # None
  <2>1. ops' = [o \in DOMAIN ops |->
                  IF o = active THEN [ops[o] EXCEPT !.done = TRUE, !.stop = stop]
                  ELSE ops[o]]
    BY <1>2 DEF LastStop
  <2>2. \A o \in DOMAIN ops' :
          ops'[o] \in [kind : {"continue", "run_until", "step"}, done : BOOLEAN,
                       stop : Stops \cup {NoStop}]
    BY <2>1 DEF OpsType
  <2>3. DOMAIN ops' \subseteq 1..MaxOps
    BY <2>1 DEF OpsType
  <2>4. active' \in 0..MaxOps /\ nextOp' \in 1..MaxOps + 1
    BY ExecAssumption DEF LastStop, OpsType, None
  <2>5. QED BY <2>2, <2>3, <2>4 DEF OpsType, LastStop
<1>3. QED BY <1>1, <1>2

LEMMA EvictOldestKeeps ==
  ASSUME NEW t
  PROVE  /\ DOMAIN EvictOldest(t) \subseteq DOMAIN t
         /\ \A o \in DOMAIN EvictOldest(t) : EvictOldest(t)[o] = t[o]
BY DEF EvictOldest

LEMMA StartOperationType ==
  ASSUME OpsType, NEW kind \in {"continue", "run_until", "step"}, StartOperation(kind)
  PROVE  OpsType'
<1> DEFINE t == [o \in DOMAIN ops \cup {nextOp} |->
                   IF o = nextOp THEN [NewOperation EXCEPT !.kind = kind] ELSE ops[o]]
<1>1. DOMAIN t \subseteq 1..MaxOps
  BY ExecAssumption DEF OpsType, StartOperation
<1>2. \A o \in DOMAIN t :
        t[o] \in [kind : {"continue", "run_until", "step"}, done : BOOLEAN,
                  stop : Stops \cup {NoStop}]
  BY DEF OpsType, NewOperation
<1>3. ops' = EvictOldest(t)
  BY DEF StartOperation
<1>4. DOMAIN ops' \subseteq 1..MaxOps
  BY <1>1, <1>3, EvictOldestKeeps
<1>5. \A o \in DOMAIN ops' :
        ops'[o] \in [kind : {"continue", "run_until", "step"}, done : BOOLEAN,
                     stop : Stops \cup {NoStop}]
  BY <1>2, <1>3, EvictOldestKeeps
<1>6. nextOp' \in 1..MaxOps + 1 /\ active' \in 0..MaxOps
  BY ExecAssumption DEF OpsType, StartOperation
<1>7. QED BY <1>4, <1>5, <1>6 DEF OpsType

LEMMA RefreshedType ==
  ASSUME NEW t, NEW trace \in Nat
  PROVE  Refreshed(t, trace) \in
           [exec : BOOLEAN, memory : BOOLEAN, interrupt : BOOLEAN, trace : BOOLEAN]
BY DEF Refreshed, HasExecution, HasMemoryAccess, HasInterrupt

LEMMA MatchesInTable ==
  /\ AtBreakpoint \in SUBSET DOMAIN bps
  /\ \A n : InterruptMatches(n) \in SUBSET DOMAIN bps
  /\ \A kind, a : AccessMatches(kind, a) \in SUBSET DOMAIN bps
BY DEF AtBreakpoint, InterruptMatches, AccessMatches, Candidates

LEMMA SelectedType ==
  ASSUME TypeOK, NEW M \in SUBSET DOMAIN bps
  PROVE  Selected(bps, M) \in 0..MaxBps
BY TableTypeOK, SelectedIsDue, ExecAssumption DEF NoHit

LEMMA WatchedType == TypeOK => Watched \in 0..MaxBps
BY ExecAssumption DEF TypeOK, Watched, MemoryHit, InterruptHit, NoHit

\* What a step may do to the operations: a stop completes the active one, a
\* start adds one, an import clears them, and nothing else touches them.
LEMMA OpSteps ==
  ASSUME TypeOK, [Next]_vars
  PROVE  \/ UNCHANGED <<paused, step, lastStop, opVars>>
         \/ \E stop \in Stops : LastStop(stop) /\ paused' = TRUE /\ nextOp' = nextOp
         \/ \E kind \in {"continue", "run_until", "step"} :
              /\ StartOperation(kind)
              /\ paused' = FALSE /\ step' = (kind = "step") /\ lastStop' = NoStop
         \/ /\ ops' = [o \in {} |-> NewOperation] /\ active' = None
            /\ nextOp' = nextOp /\ paused' = paused /\ step' = FALSE
            /\ lastStop' = [kind |-> "machine_snapshot_restored", id |-> None,
                             access |-> FALSE]
<1> USE DEF opVars, controlVars
<1>1. CASE Pause
  <2>1. [kind |-> "pause", id |-> None, access |-> FALSE] \in Stops
    BY ExecAssumption DEF Stops, StopKinds, None
  <2>2. QED BY <1>1, <2>1 DEF Pause
<1>2. CASE Continue
  BY <1>2 DEF Continue, Resume
<1>3. CASE Step
  BY <1>3 DEF Step, Resume
<1>4. ASSUME NEW p \in Predicates, RunUntil(p)
      PROVE  /\ StartOperation("run_until")
             /\ paused' = FALSE /\ step' = FALSE /\ lastStop' = NoStop
  BY <1>4 DEF RunUntil, Resume
<1>5. CASE \/ ReadRegisters \/ MemoryRead \/ TraceStop
           \/ \E p \in Params : CreateBreakpoint(p)
           \/ \E id \in DOMAIN bps : DeleteBreakpoint(id)
           \/ \E ip \in Code, ax \in {"zero", "one"} : SetRegisters(ip, ax)
           \/ \E anytime \in BOOLEAN : ChangeDevice(anytime)
           \/ \E count \in 1..MaxTrace : TraceStart(count)
  BY <1>5 DEF ReadRegisters, MemoryRead, TraceStop, CreateBreakpoint, DeleteBreakpoint,
              SetRegisters, ChangeDevice, TraceStart
<1>6. ASSUME NEW preserve \in BOOLEAN, ImportSnapshot(preserve)
      PROVE  /\ ops' = [o \in {} |-> NewOperation] /\ active' = None
             /\ nextOp' = nextOp /\ paused' = paused /\ step' = FALSE
             /\ lastStop' = [kind |-> "machine_snapshot_restored", id |-> None,
                              access |-> FALSE]
  BY <1>6 DEF ImportSnapshot
<1>7. CASE StopAtBreakpoint
  <2> DEFINE stop == [kind |-> StopKind(Selected(bps, AtBreakpoint)),
                      id |-> Selected(bps, AtBreakpoint), access |-> FALSE]
  <2>1. stop \in Stops
    BY MatchesInTable, SelectedType DEF Stops, StopKinds, StopKind
  <2>2. LastStop(stop) /\ paused' = TRUE /\ nextOp' = nextOp
    BY <1>7 DEF StopAtBreakpoint
  <2>3. QED BY <2>1, <2>2
<1>8. CASE StopOnHit
  <2> DEFINE stop == [kind |-> StopKind(Watched), id |-> Watched,
                      access |-> MemoryHit # NoHit]
  <2>1. stop \in Stops
    BY WatchedType DEF Stops, StopKinds, StopKind
  <2>2. LastStop(stop) /\ paused' = TRUE /\ nextOp' = nextOp
    BY <1>8 DEF StopOnHit, EndRound
  <2>3. QED BY <2>1, <2>2
<1>9. CASE StopOnDeadline
  <2>1. [kind |-> "emulated_time_limit", id |-> None, access |-> FALSE] \in Stops
    BY ExecAssumption DEF Stops, StopKinds, None
  <2>2. QED BY <1>9, <2>1 DEF StopOnDeadline, EndRound
<1>10. CASE StopOnStep
  <2>1. [kind |-> "step", id |-> None, access |-> FALSE] \in Stops
    BY ExecAssumption DEF Stops, StopKinds, None
  <2>2. QED BY <1>10, <2>1 DEF StopOnStep, EndRound
<1>11. CASE \/ FastBatch \/ BeginTick \/ TickHalted \/ BeginInstruction
            \/ FinishInstruction \/ KeepRunning \/ LeaveLoop
            \/ \E n \in Vectors : SoftwareInterrupt(n)
            \/ \E kind \in {"memory_read", "memory_write"}, a \in Data :
                 AccessMemory(kind, a)
            \/ UNCHANGED vars
  BY <1>11 DEF FastBatch, BeginTick, TickHalted, BeginInstruction,
               FinishInstruction, KeepRunning, LeaveLoop, SoftwareInterrupt,
               AccessMemory, EndRound, vars
<1>12. QED
  BY <1>1, <1>2, <1>3, <1>4, <1>5, <1>6, <1>7, <1>8, <1>9, <1>10, <1>11
     DEF Next, Request, Round

\* What a step may do to the table and its ids: nothing, a scan, a new
\* breakpoint under the next id, or the removal of some.
LEMMA TableSteps ==
  ASSUME TypeOK, [Next]_vars
  PROVE  \/ UNCHANGED <<bps, nextBp>>
         \/ /\ nextBp' = nextBp
            /\ \E M \in SUBSET DOMAIN bps :
                 bps' \in {Scanned(bps, M), ClearedTable(Scanned(bps, M))}
         \/ /\ nextBp' = nextBp
            /\ \/ bps' \in {ClearedTable(bps), OnlyPrivate(ClearedTable(bps))}
               \/ \E id \in DOMAIN bps : bps' = Without(bps, id)
         \/ /\ nextBp <= MaxBps /\ nextBp' = nextBp + 1
            /\ \E private \in BOOLEAN, p \in Params \cup Predicates :
                 bps' = With(bps, nextBp, NewBreakpoint(private, p))
<1> USE DEF bpVars
<1>1. CASE Pause \/ Step \/ StopOnHit \/ StopOnDeadline
  BY <1>1 DEF Pause, Step, StopOnHit, StopOnDeadline, EndRound
<1>2. CASE \/ Continue \/ ReadRegisters \/ MemoryRead \/ TraceStop \/ FastBatch \/ TickHalted
           \/ BeginInstruction \/ FinishInstruction \/ StopOnStep \/ KeepRunning
           \/ LeaveLoop
           \/ \E ip \in Code, ax \in {"zero", "one"} : SetRegisters(ip, ax)
           \/ \E anytime \in BOOLEAN : ChangeDevice(anytime)
           \/ \E count \in 1..MaxTrace : TraceStart(count)
           \/ UNCHANGED vars
  BY <1>2 DEF Continue, ReadRegisters, MemoryRead, TraceStop, FastBatch, TickHalted,
              BeginInstruction, FinishInstruction, StopOnStep, KeepRunning,
              LeaveLoop, SetRegisters, ChangeDevice, TraceStart, EndRound, vars
<1>3. CASE \/ \E p \in Predicates : RunUntil(p)
           \/ \E p \in Params : CreateBreakpoint(p)
  BY <1>3 DEF RunUntil, CreateBreakpoint
<1>4. CASE \E id \in DOMAIN bps : DeleteBreakpoint(id)
  BY <1>4 DEF DeleteBreakpoint
<1>5. CASE \E preserve \in BOOLEAN : ImportSnapshot(preserve)
  BY <1>5 DEF ImportSnapshot
<1>6. CASE StopAtBreakpoint
  BY <1>6, MatchesInTable DEF StopAtBreakpoint
<1>7. CASE BeginTick
  BY <1>7, MatchesInTable DEF BeginTick
<1>8. ASSUME NEW n \in Vectors, SoftwareInterrupt(n)
      PROVE  bps' = Scanned(bps, InterruptMatches(n)) /\ nextBp' = nextBp
  BY <1>8 DEF SoftwareInterrupt
<1>9. ASSUME NEW kind \in {"memory_read", "memory_write"}, NEW a \in Data,
             AccessMemory(kind, a)
      PROVE  bps' = Scanned(bps, AccessMatches(kind, a)) /\ nextBp' = nextBp
  BY <1>9 DEF AccessMemory
<1>10. QED
  BY <1>1, <1>2, <1>3, <1>4, <1>5, <1>6, <1>7, <1>8, <1>9, MatchesInTable
     DEF Next, Request, Round

LEMMA TableTypeKept ==
  ASSUME TypeOK, [Next]_vars
  PROVE  TableType'
<1>1. TableType /\ TableOK(bps) /\ NoHit \notin DOMAIN bps
  BY TableTypeOK
<1>2. ASSUME nextBp' = nextBp, TableOK(bps'), DOMAIN bps' \subseteq DOMAIN bps
      PROVE  TableType'
  BY <1>1, <1>2 DEF TableType, TableOK
<1>3. CASE UNCHANGED <<bps, nextBp>>
  BY <1>1, <1>2, <1>3
<1>4. ASSUME nextBp' = nextBp, NEW M \in SUBSET DOMAIN bps,
             bps' \in {Scanned(bps, M), ClearedTable(Scanned(bps, M))}
      PROVE  TableType'
  <2>1. TableOK(Scanned(bps, M)) /\ DOMAIN Scanned(bps, M) \subseteq DOMAIN bps
    BY <1>1, ScanKeepsTable
  <2>2. /\ TableOK(ClearedTable(Scanned(bps, M)))
        /\ DOMAIN ClearedTable(Scanned(bps, M)) \subseteq DOMAIN bps
    BY <1>1, <2>1, ClearedKeepsTable
  <2>3. QED BY <1>2, <1>4, <2>1, <2>2
<1>5. ASSUME nextBp' = nextBp,
             bps' \in {ClearedTable(bps), OnlyPrivate(ClearedTable(bps))}
      PROVE  TableType'
  <2>1. TableOK(ClearedTable(bps)) /\ DOMAIN ClearedTable(bps) \subseteq DOMAIN bps
    BY <1>1, ClearedKeepsTable
  <2>2. /\ TableOK(OnlyPrivate(ClearedTable(bps)))
        /\ DOMAIN OnlyPrivate(ClearedTable(bps)) \subseteq DOMAIN bps
    BY <2>1, PrivateKeepsTable
  <2>3. QED BY <1>2, <1>5, <2>1, <2>2
<1>6. ASSUME nextBp' = nextBp, NEW id \in DOMAIN bps, bps' = Without(bps, id)
      PROVE  TableType'
  <2>1. TableOK(Without(bps, id)) /\ DOMAIN Without(bps, id) \subseteq DOMAIN bps
    BY <1>1, WithoutKeepsTable
  <2>2. QED BY <1>2, <1>6, <2>1
<1>7. ASSUME nextBp <= MaxBps, nextBp' = nextBp + 1, NEW private \in BOOLEAN,
             NEW p \in Params \cup Predicates,
             bps' = With(bps, nextBp, NewBreakpoint(private, p))
      PROVE  TableType'
  <2>1. nextBp \in Nat \ {0}
    BY <1>1, ExecAssumption DEF TableType
  <2> DEFINE b == NewBreakpoint(private, p)
  <2>2. b \in BreakpointsAt(Places)
    BY NewBreakpointType
  <2> HIDE DEF b
  <2>6. /\ TableOK(With(bps, nextBp, b))
        /\ DOMAIN With(bps, nextBp, b) = DOMAIN bps \cup {nextBp}
    BY <1>1, <2>1, <2>2, WithKeepsTable
  <2>7. bps' = With(bps, nextBp, b)
    BY <1>7 DEF b
  <2>8. TableOK(bps') /\ DOMAIN bps' = DOMAIN bps \cup {nextBp}
    BY <2>6, <2>7
  <2>3. nextBp' \in 1..MaxBps + 1
    BY <1>7, <2>1, ExecAssumption
  <2>4. DOMAIN bps' \subseteq 1..nextBp' - 1
    BY <1>1, <1>7, <2>1, <2>8 DEF TableType
  <2>5. QED BY <2>8, <2>3, <2>4 DEF TableType, TableOK
<1>8. QED
  BY <1>3, <1>4, <1>5, <1>6, <1>7, TableSteps

LEMMA OpsTypeKept ==
  ASSUME TypeOK, [Next]_vars
  PROVE  OpsType'
<1>1. OpsType
  BY TableTypeOK
<1>2. CASE UNCHANGED <<paused, step, lastStop, opVars>>
  BY <1>1, <1>2 DEF OpsType, opVars
<1>3. ASSUME NEW stop \in Stops, LastStop(stop), nextOp' = nextOp
      PROVE  OpsType'
  BY <1>1, <1>3, LastStopType
<1>4. ASSUME NEW kind \in {"continue", "run_until", "step"}, StartOperation(kind)
      PROVE  OpsType'
  BY <1>1, <1>4, StartOperationType
<1>5. CASE ops' = [o \in {} |-> NewOperation] /\ active' = None /\ nextOp' = nextOp
  BY <1>1, <1>5, ExecAssumption DEF OpsType, None
<1>6. QED BY <1>2, <1>3, <1>4, <1>5, OpSteps

\* The guest, the control fields, the hooks and what a Tick left behind.
RestType ==
  /\ phase \in {"poll", "tick", "exec", "after", "exited"}
  /\ machine \in Machine
  /\ paused \in BOOLEAN /\ step \in BOOLEAN
  /\ lastStop \in Stops \cup {NoStop}
  /\ skip \in 0..MaxBps /\ runUntil \in 0..MaxBps
  /\ deadline \in -1..MaxCycles
  /\ hooks \in [exec : BOOLEAN, memory : BOOLEAN, interrupt : BOOLEAN, trace : BOOLEAN]
  /\ traceLeft \in 0..MaxTrace
  /\ memStop \in 0..MaxBps /\ intStop \in 0..MaxBps
  /\ observed \in Seen

\* The CPU hooks follow the table and the trace, or neither hooks nor trace
\* change (main.py:300-315, :1178-1193).
LEMMA HookSteps ==
  ASSUME TypeOK, [Next]_vars
  PROVE  \/ hooks' = Refreshed(bps', traceLeft')
         \/ hooks' = hooks /\ traceLeft' = traceLeft
<1> USE DEF RefreshHooks, SetHooks, bpVars
<1>1. CASE \/ Pause \/ Step \/ TraceStop
           \/ \E p \in Predicates : RunUntil(p)
           \/ \E p \in Params : CreateBreakpoint(p)
           \/ \E id \in DOMAIN bps : DeleteBreakpoint(id)
           \/ \E count \in 1..MaxTrace : TraceStart(count)
           \/ \E preserve \in BOOLEAN : ImportSnapshot(preserve)
  BY <1>1 DEF Pause, Step, TraceStop, RunUntil, CreateBreakpoint, DeleteBreakpoint,
              TraceStart, ImportSnapshot
<1>2. CASE \/ Continue \/ ReadRegisters \/ MemoryRead
           \/ \E ip \in Code, ax \in {"zero", "one"} : SetRegisters(ip, ax)
           \/ \E anytime \in BOOLEAN : ChangeDevice(anytime)
           \/ UNCHANGED vars
  BY <1>2 DEF Continue, ReadRegisters, MemoryRead, SetRegisters, ChangeDevice, vars
<1>3. CASE \/ FastBatch \/ StopAtBreakpoint \/ BeginTick \/ TickHalted
           \/ BeginInstruction \/ FinishInstruction \/ LeaveLoop
           \/ \E n \in Vectors : SoftwareInterrupt(n)
           \/ \E kind \in {"memory_read", "memory_write"}, a \in Data :
                AccessMemory(kind, a)
  BY <1>3 DEF FastBatch, StopAtBreakpoint, BeginTick, TickHalted, BeginInstruction,
              FinishInstruction, LeaveLoop, SoftwareInterrupt, AccessMemory
<1>4. CASE StopOnHit \/ StopOnDeadline
  BY <1>4 DEF StopOnHit, StopOnDeadline
<1>5. CASE StopOnStep \/ KeepRunning
  <2>1. bps' = bps /\ HooksAfterTrace
    BY <1>5 DEF StopOnStep, KeepRunning
  <2>2. traceLeft' = IF traceLeft > 0 THEN traceLeft - 1 ELSE 0
    BY <1>5 DEF StopOnStep, KeepRunning, EndRound
  <2>3. CASE traceLeft > 0
    BY <2>1, <2>3 DEF HooksAfterTrace
  <2>4. CASE ~(traceLeft > 0)
    <3>1. traceLeft = 0
      BY <2>4, ExecAssumption DEF TypeOK
    <3>2. QED BY <2>1, <2>2, <2>4, <3>1 DEF HooksAfterTrace
  <2>5. QED BY <2>3, <2>4
<1>6. QED
  BY <1>1, <1>2, <1>3, <1>4, <1>5 DEF Next, Request, Round

LEMMA HooksType ==
  ASSUME TypeOK, [Next]_vars
  PROVE  /\ hooks' \in [exec : BOOLEAN, memory : BOOLEAN, interrupt : BOOLEAN,
                        trace : BOOLEAN]
         /\ traceLeft' \in 0..MaxTrace
<1>1. traceLeft' \in 0..MaxTrace
  <2> USE DEF bpVars
  <2>1. traceLeft \in 0..MaxTrace
    BY DEF TypeOK
  <2>2. CASE TraceStop \/ \E preserve \in BOOLEAN : ImportSnapshot(preserve)
    BY <2>2, ExecAssumption DEF TraceStop, ImportSnapshot
  <2>3. CASE \E count \in 1..MaxTrace : TraceStart(count)
    BY <2>3, ExecAssumption DEF TraceStart
  <2>4. CASE StopOnHit \/ StopOnDeadline \/ StopOnStep \/ KeepRunning
    <3>1. traceLeft' = IF traceLeft > 0 THEN traceLeft - 1 ELSE 0
      BY <2>4 DEF StopOnHit, StopOnDeadline, StopOnStep, KeepRunning, EndRound
    <3>2. QED BY <2>1, <3>1, ExecAssumption
  <2>5. CASE \/ Pause \/ Continue \/ Step \/ ReadRegisters \/ MemoryRead
             \/ \E p \in Predicates : RunUntil(p)
             \/ \E p \in Params : CreateBreakpoint(p)
             \/ \E id \in DOMAIN bps : DeleteBreakpoint(id)
             \/ \E ip \in Code, ax \in {"zero", "one"} : SetRegisters(ip, ax)
             \/ \E anytime \in BOOLEAN : ChangeDevice(anytime)
             \/ UNCHANGED vars
    BY <2>1, <2>5 DEF Pause, Continue, Step, ReadRegisters, MemoryRead, RunUntil,
         CreateBreakpoint, DeleteBreakpoint, SetRegisters, ChangeDevice, vars
  <2>6. CASE \/ FastBatch \/ StopAtBreakpoint \/ BeginTick \/ TickHalted
             \/ BeginInstruction \/ FinishInstruction \/ LeaveLoop
             \/ \E n \in Vectors : SoftwareInterrupt(n)
             \/ \E kind \in {"memory_read", "memory_write"}, a \in Data :
                  AccessMemory(kind, a)
    BY <2>1, <2>6
       DEF FastBatch, StopAtBreakpoint, BeginTick, TickHalted, BeginInstruction,
           FinishInstruction, LeaveLoop, SoftwareInterrupt, AccessMemory
  <2>7. QED
    BY <2>2, <2>3, <2>4, <2>5, <2>6 DEF Next, Request, Round
<1>2. CASE hooks' = hooks
  BY <1>1, <1>2 DEF TypeOK
<1>3. CASE hooks' = Refreshed(bps', traceLeft')
  BY <1>1, <1>3 DEF Refreshed, HasExecution, HasMemoryAccess, HasInterrupt
<1>4. QED BY <1>2, <1>3, HookSteps

LEMMA GuestType ==
  ASSUME TypeOK, [Next]_vars
  PROVE  machine' \in Machine /\ observed' \in Seen
<1>1. /\ machine \in Machine /\ observed \in Seen
      /\ Nothing \in Seen /\ Machine \subseteq Seen
  BY DEF TypeOK, Seen
<1>2. CASE MemoryRead
  <2>1. machine' \in Machine
    <3>1. PICK latch \in {"zero", "one"} : machine' = [machine EXCEPT !.latch = latch]
      BY <1>2 DEF MemoryRead
    <3>2. QED BY <1>1, <3>1 DEF Machine
  <2>2. CASE observed = Nothing
    BY <1>1, <1>2, <2>1, <2>2 DEF MemoryRead
  <2>3. CASE observed # Nothing
    <3>1. observed' = [observed EXCEPT !.latch = Reloaded]
      BY <1>2, <2>3 DEF MemoryRead
    <3>2. observed' \in [ip : Code, ax : {"zero", "one"}, dev : BOOLEAN, latch : {Reloaded}]
      <4>1. CASE observed \in Machine
        BY <3>1, <4>1 DEF Machine
      <4>2. CASE observed \in [ip : Code, ax : {"zero", "one"}, dev : BOOLEAN, latch : {Reloaded}]
        BY <3>1, <4>2
      <4>3. QED BY <1>1, <2>3, <4>1, <4>2 DEF Seen
    <3>3. QED BY <2>1, <3>2 DEF Seen
  <2>4. QED BY <2>1, <2>2, <2>3
<1>3. ASSUME NEW anytime \in BOOLEAN, ChangeDevice(anytime)
      PROVE  machine' \in Machine /\ observed' \in Seen
  BY <1>1, <1>3 DEF ChangeDevice, BumpRevision, Machine
<1>4. ASSUME NEW ip \in Code, NEW ax \in {"zero", "one"}, SetRegisters(ip, ax)
      PROVE  machine' \in Machine /\ observed' \in Seen
  BY <1>1, <1>4 DEF SetRegisters, BumpRevision, Machine
<1>5. CASE \/ Pause \/ Continue \/ Step \/ ReadRegisters \/ TraceStop
           \/ \E p \in Predicates : RunUntil(p)
           \/ \E p \in Params : CreateBreakpoint(p)
           \/ \E id \in DOMAIN bps : DeleteBreakpoint(id)
           \/ \E count \in 1..MaxTrace : TraceStart(count)
           \/ \E preserve \in BOOLEAN : ImportSnapshot(preserve)
  BY <1>1, <1>5
     DEF Pause, Continue, Step, ReadRegisters, TraceStop, RunUntil, CreateBreakpoint,
         DeleteBreakpoint, TraceStart, ImportSnapshot, BumpRevision
<1>6. CASE FastBatch \/ StopAtBreakpoint \/ BeginTick \/ BeginInstruction \/ LeaveLoop
  BY <1>1, <1>6
     DEF FastBatch, StopAtBreakpoint, BeginTick, BeginInstruction, LeaveLoop,
         BumpRevision
<1>7. CASE \/ TickHalted \/ FinishInstruction
           \/ \E n \in Vectors : SoftwareInterrupt(n)
           \/ \E kind \in {"memory_read", "memory_write"}, a \in Data :
                AccessMemory(kind, a)
  BY <1>1, <1>7
     DEF TickHalted, FinishInstruction, SoftwareInterrupt, AccessMemory, StayPut,
         Machine
<1>8. CASE StopOnHit \/ StopOnDeadline \/ StopOnStep \/ KeepRunning
  BY <1>1, <1>8
     DEF StopOnHit, StopOnDeadline, StopOnStep, KeepRunning, EndRound, BumpRevision
<1>9. CASE UNCHANGED vars
  BY <1>1, <1>9 DEF vars
<1>10. QED
  BY <1>2, <1>3, <1>4, <1>5, <1>6, <1>7, <1>8, <1>9 DEF Next, Request, Round

LEMMA ControlType ==
  ASSUME TypeOK, [Next]_vars
  PROVE  /\ paused' \in BOOLEAN /\ step' \in BOOLEAN
         /\ lastStop' \in Stops \cup {NoStop}
<1>1. paused \in BOOLEAN /\ step \in BOOLEAN /\ lastStop \in Stops \cup {NoStop}
  BY DEF TypeOK
<1>2. [kind |-> "machine_snapshot_restored", id |-> None, access |-> FALSE] \in Stops
  BY ExecAssumption DEF Stops, StopKinds, None
<1>3. ASSUME NEW stop \in Stops, LastStop(stop)
      PROVE  step' = FALSE /\ lastStop' \in Stops
  BY <1>3 DEF LastStop
<1>4. QED BY <1>1, <1>2, <1>3, OpSteps

LEMMA RunType ==
  ASSUME TypeOK, [Next]_vars
  PROVE  /\ skip' \in 0..MaxBps /\ runUntil' \in 0..MaxBps
         /\ deadline' \in -1..MaxCycles
<1>1. skip \in 0..MaxBps /\ runUntil \in 0..MaxBps /\ deadline \in -1..MaxCycles
  BY DEF TypeOK
<1>2. None \in 0..MaxBps /\ -1 \in -1..MaxCycles
  BY ExecAssumption DEF None
<1>3. ResumeSkipId \in 0..MaxBps
  BY <1>2 DEF TypeOK, ResumeSkipId, Stops, NoStop
<1>4. CASE Pause \/ StopAtBreakpoint \/ StopOnHit \/ StopOnDeadline
  BY <1>1, <1>2, <1>4
     DEF Pause, StopAtBreakpoint, StopOnHit, StopOnDeadline, EndRound, ClearRunUntil
<1>5. CASE Continue \/ Step
  BY <1>1, <1>2, <1>3, <1>5 DEF Continue, Step, Resume, ClearRunUntil
<1>6. ASSUME NEW p \in Predicates, RunUntil(p)
      PROVE  skip' \in 0..MaxBps /\ runUntil' \in 0..MaxBps
             /\ deadline' \in -1..MaxCycles
  <2>1. runUntil' = nextBp /\ nextBp <= MaxBps /\ nextBp \in 1..MaxBps + 1
    BY <1>6 DEF RunUntil, TypeOK
  <2>2. skip' = ResumeSkipId /\ deadline' \in {-1} \cup 1..MaxCycles
    BY <1>6 DEF RunUntil, Resume
  <2>3. QED BY <1>3, <2>1, <2>2, ExecAssumption
<1>7. CASE \E preserve \in BOOLEAN : ImportSnapshot(preserve)
  BY <1>2, <1>7 DEF ImportSnapshot, ClearRunUntil
<1>8. CASE StopOnStep \/ KeepRunning
  BY <1>1, <1>2, <1>8 DEF StopOnStep, KeepRunning, EndRound
<1>9. CASE \/ TickHalted \/ FinishInstruction
           \/ \E n \in Vectors : SoftwareInterrupt(n)
  <2>1. skip' = skip /\ runUntil' = runUntil
    BY <1>9 DEF TickHalted, FinishInstruction, SoftwareInterrupt
  <2>2. Elapse \/ deadline' = deadline
    BY <1>9 DEF TickHalted, FinishInstruction, SoftwareInterrupt, StayPut
  <2>3. deadline' \in -1..MaxCycles
    BY <1>1, <1>2, <2>2, ExecAssumption DEF Elapse
  <2>4. QED BY <1>1, <2>1, <2>3
<1>10. CASE \/ ReadRegisters \/ MemoryRead \/ TraceStop \/ FastBatch \/ BeginTick
            \/ BeginInstruction \/ LeaveLoop
            \/ \E p \in Params : CreateBreakpoint(p)
            \/ \E id \in DOMAIN bps : DeleteBreakpoint(id)
            \/ \E ip \in Code, ax \in {"zero", "one"} : SetRegisters(ip, ax)
            \/ \E anytime \in BOOLEAN : ChangeDevice(anytime)
            \/ \E count \in 1..MaxTrace : TraceStart(count)
            \/ \E kind \in {"memory_read", "memory_write"}, a \in Data :
                 AccessMemory(kind, a)
            \/ UNCHANGED vars
  BY <1>1, <1>10
     DEF ReadRegisters, MemoryRead, TraceStop, FastBatch, BeginTick, BeginInstruction,
         LeaveLoop, CreateBreakpoint, DeleteBreakpoint, SetRegisters, ChangeDevice,
         TraceStart, AccessMemory, controlVars, vars
<1>11. QED
  BY <1>4, <1>5, <1>6, <1>7, <1>8, <1>9, <1>10 DEF Next, Request, Round

LEMMA TickType ==
  ASSUME TypeOK, [Next]_vars
  PROVE  /\ phase' \in {"poll", "tick", "exec", "after", "exited"}
         /\ memStop' \in 0..MaxBps /\ intStop' \in 0..MaxBps
<1>1. /\ phase \in {"poll", "tick", "exec", "after", "exited"}
      /\ memStop \in 0..MaxBps /\ intStop \in 0..MaxBps
  BY DEF TypeOK
<1>2. NoHit \in 0..MaxBps
  BY ExecAssumption DEF NoHit
<1>3. ASSUME Request \/ StopAtBreakpoint
      PROVE  phase' = phase /\ memStop' \in {memStop, NoHit} /\ intStop' \in {intStop, NoHit}
  BY <1>3
     DEF Request, Pause, Continue, Step, ReadRegisters, MemoryRead, TraceStop, RunUntil,
         CreateBreakpoint, DeleteBreakpoint, SetRegisters, ChangeDevice,
         TraceStart, ImportSnapshot, StopAtBreakpoint, RefreshHooks, tickVars
<1>4. CASE \/ FastBatch \/ BeginTick \/ TickHalted
           \/ BeginInstruction \/ FinishInstruction \/ LeaveLoop \/ UNCHANGED vars
  BY <1>1, <1>4
     DEF FastBatch, BeginTick, TickHalted,
         BeginInstruction, FinishInstruction, LeaveLoop, StayPut, tickVars, vars
<1>5. CASE StopOnHit \/ StopOnDeadline \/ StopOnStep \/ KeepRunning
  BY <1>1, <1>2, <1>5
     DEF StopOnHit, StopOnDeadline, StopOnStep, KeepRunning, EndRound, ConsumeStops
<1>6. ASSUME NEW n \in Vectors, SoftwareInterrupt(n)
      PROVE  /\ phase' \in {"exec", "after"} /\ memStop' = memStop
             /\ intStop' = Selected(bps, InterruptMatches(n))
  BY <1>6 DEF SoftwareInterrupt, StayPut
<1>7. ASSUME NEW kind \in {"memory_read", "memory_write"}, NEW a \in Data,
             AccessMemory(kind, a)
      PROVE  /\ phase' = phase /\ intStop' = intStop
             /\ memStop' = Selected(bps, AccessMatches(kind, a))
  BY <1>7 DEF AccessMemory
<1>8. /\ \A n \in Vectors : Selected(bps, InterruptMatches(n)) \in 0..MaxBps
      /\ \A kind \in {"memory_read", "memory_write"}, a \in Data :
           Selected(bps, AccessMatches(kind, a)) \in 0..MaxBps
  BY MatchesInTable, SelectedType
<1>9. QED
  BY <1>1, <1>2, <1>3, <1>4, <1>5, <1>6, <1>7, <1>8 DEF Next, Round

LEMMA TypeKept ==
  ASSUME TypeOK, [Next]_vars
  PROVE  TypeOK'
BY OpsTypeKept, TableTypeKept, HooksType, GuestType, ControlType, RunType, TickType
   DEF TypeOK, OpsType, TableType, Places

LEMMA InitType == Init => TypeOK
<1> SUFFICES ASSUME Init PROVE TypeOK
  OBVIOUS
<1>1. hooks \in [exec : BOOLEAN, memory : BOOLEAN, interrupt : BOOLEAN, trace : BOOLEAN]
  BY DEF Init, Refreshed, HasExecution, HasMemoryAccess, HasInterrupt
<1>2. DOMAIN bps = {} /\ bps \in [DOMAIN bps -> BreakpointsAt(Code \cup Data \cup Vectors)]
  BY DEF Init, EmptyTable
<1>3. DOMAIN ops = {}
  BY DEF Init
<1>4. /\ OpsType
      /\ nextBp \in 1..MaxBps + 1 /\ DOMAIN bps \subseteq 1..nextBp - 1
  BY <1>2, <1>3, ExecAssumption DEF Init, OpsType, None
<1>5. /\ skip \in 0..MaxBps /\ runUntil \in 0..MaxBps /\ deadline \in -1..MaxCycles
      /\ traceLeft \in 0..MaxTrace /\ memStop \in 0..MaxBps /\ intStop \in 0..MaxBps
  BY ExecAssumption DEF Init, None, NoHit
<1>6. /\ phase \in {"poll", "tick", "exec", "after", "exited"} /\ machine \in Machine
      /\ paused \in BOOLEAN /\ step \in BOOLEAN /\ lastStop \in Stops \cup {NoStop}
      /\ observed \in Seen
  BY DEF Init, Seen
<1>7. QED
  BY <1>1, <1>2, <1>4, <1>5, <1>6 DEF TypeOK, OpsType

-----------------------------------------------------------------------------
(* The ledger of operations. *)

\* A new operation makes room for itself: of a ledger that is one too long,
\* whose older operations are all done, the oldest goes and the new one stays.
LEMMA EvictOldestMakesRoom ==
  ASSUME NEW t, NEW last \in DOMAIN t,
         DOMAIN t \in SUBSET Nat, IsFiniteSet(DOMAIN t),
         Cardinality(DOMAIN t) <= Retained + 1,
         \A o \in DOMAIN t \ {last} : o < last /\ t[o].done
  PROVE  /\ last \in DOMAIN EvictOldest(t)
         /\ Cardinality(DOMAIN EvictOldest(t)) <= Retained
<1>1. CASE Cardinality(DOMAIN t) <= Retained
  BY <1>1 DEF EvictOldest
<1>2. CASE ~(Cardinality(DOMAIN t) <= Retained)
  <2> DEFINE oldest == CHOOSE o \in DOMAIN t : \A p \in DOMAIN t : o <= p
  <2>1. Cardinality(DOMAIN t) \in Nat
    BY FS_CardinalityType
  <2>2. Cardinality(DOMAIN t) > 1
    BY <1>2, <2>1, ExecAssumption
  <2>3. PICK o \in DOMAIN t : o # last
    <3> SUFFICES ASSUME DOMAIN t = {last} PROVE FALSE
      OBVIOUS
    <3>1. Cardinality({last}) = 1
      BY FS_Singleton
    <3>2. QED BY <2>2, <3>1
  <2>4. oldest \in DOMAIN t /\ \A p \in DOMAIN t : oldest <= p
    <3>1. DOMAIN t \in SUBSET Nat /\ DOMAIN t # {}
      OBVIOUS
    <3>2. \E x \in DOMAIN t : \A y \in DOMAIN t : x <= y
      BY <3>1, LeastExists
    <3>3. QED BY <3>2
  <2> HIDE DEF oldest
  <2>5. oldest # last
    <3>1. oldest <= o /\ o < last
      BY <2>3, <2>4
    <3>2. oldest \in Nat /\ o \in Nat /\ last \in Nat
      BY <2>3, <2>4
    <3>3. QED BY <3>1, <3>2
  <2>6. t[oldest].done
    BY <2>4, <2>5
  <2>7. EvictOldest(t) = [o2 \in DOMAIN t \ {oldest} |-> t[o2]]
    BY <1>2, <2>6 DEF EvictOldest, oldest
  <2>8. Cardinality(DOMAIN t \ {oldest}) = Cardinality(DOMAIN t) - 1
    BY <2>4, FS_RemoveElement
  <2>9. Cardinality(DOMAIN t) - 1 <= Retained
    BY <2>1, ExecAssumption
  <2>10. QED BY <2>5, <2>7, <2>8, <2>9
<1>3. QED BY <1>1, <1>2

LEMMA LedgerFinite ==
  ASSUME OpsType
  PROVE  IsFiniteSet(DOMAIN ops)
<1>1. IsFiniteSet(1..MaxOps)
  BY ExecAssumption, FS_Interval
<1>2. DOMAIN ops \subseteq 1..MaxOps
  BY DEF OpsType
<1>3. QED BY <1>1, <1>2, FS_Subset

\* What OperationLedger says beside the types.
Ledger ==
  /\ active # None => ~paused /\ active \in DOMAIN ops /\ active < nextOp
  /\ \A o \in DOMAIN ops :
        /\ o < nextOp
        /\ ops[o].done <=> o # active
        /\ ops[o].done <=> ops[o].stop # NoStop
  /\ Cardinality(DOMAIN ops) <= Retained

LEMMA LedgerStops ==
  ASSUME OpsType, Ledger, NEW stop \in Stops, LastStop(stop), nextOp' = nextOp
  PROVE  /\ Ledger'
         /\ DOMAIN ops' = DOMAIN ops
         /\ \A o \in DOMAIN ops : ops[o].done => ops'[o] = ops[o]
         /\ \A o \in DOMAIN ops : ops'[o].kind = ops[o].kind
<1>1. stop # NoStop
  BY DEF Stops, StopKinds, NoStop
<1>2. active' = None
  BY DEF LastStop
<1>3. \A o \in DOMAIN ops : o # None
  BY ExecAssumption DEF OpsType, None
<1>4. CASE active = None
  <2>1. ops' = ops
    BY <1>4 DEF LastStop
  <2>2. QED BY <1>2, <1>4, <2>1 DEF Ledger
<1>5. CASE active # None
  <2>1. ops' = [o \in DOMAIN ops |->
                  IF o = active THEN [ops[o] EXCEPT !.done = TRUE, !.stop = stop]
                  ELSE ops[o]]
    BY <1>5 DEF LastStop
  <2>2. DOMAIN ops' = DOMAIN ops
    BY <2>1
  <2>3. ASSUME NEW o \in DOMAIN ops
        PROVE  /\ ops'[o].done /\ ops'[o].stop # NoStop
               /\ ops[o].done => ops'[o] = ops[o]
               /\ ops'[o].kind = ops[o].kind
    <3>1. ops[o] \in [kind : {"continue", "run_until", "step"}, done : BOOLEAN,
                      stop : Stops \cup {NoStop}]
      BY DEF OpsType
    <3>2. CASE o = active
      <4>1. ops'[o] = [ops[o] EXCEPT !.done = TRUE, !.stop = stop]
        BY <2>1, <3>2
      <4>2. ~ops[o].done
        BY <3>2 DEF Ledger
      <4>3. QED BY <1>1, <3>1, <4>1, <4>2
    <3>3. CASE o # active
      <4>1. ops'[o] = ops[o]
        BY <2>1, <3>3
      <4>2. ops[o].done /\ ops[o].stop # NoStop
        BY <3>3 DEF Ledger
      <4>3. QED BY <4>1, <4>2
    <3>4. QED BY <3>2, <3>3
  <2>4. QED BY <1>2, <1>3, <2>2, <2>3 DEF Ledger
<1>6. QED BY <1>4, <1>5

LEMMA LedgerStarts ==
  ASSUME OpsType, Ledger, NEW kind \in {"continue", "run_until", "step"},
         StartOperation(kind), paused' = FALSE
  PROVE  /\ Ledger'
         /\ active' # None /\ ops'[active'].kind = kind
         /\ nextOp' > nextOp
         /\ \A o \in DOMAIN ops :
              ops[o].done /\ (o \in DOMAIN ops' => ops'[o] = ops[o])
<1> DEFINE t == [o \in DOMAIN ops \cup {nextOp} |->
                   IF o = nextOp THEN [NewOperation EXCEPT !.kind = kind] ELSE ops[o]]
<1>1. /\ active = None /\ active' = nextOp /\ nextOp' = nextOp + 1
      /\ ops' = EvictOldest(t)
  BY DEF StartOperation
<1>2. nextOp \in Nat \ {0} /\ nextOp' \in Nat /\ nextOp < nextOp'
  BY <1>1, ExecAssumption DEF OpsType
<1>3. DOMAIN ops \subseteq Nat \ {0} /\ \A o \in DOMAIN ops : o < nextOp
  BY ExecAssumption DEF OpsType, Ledger
<1>4. \A o \in DOMAIN ops : o # None /\ ops[o].done /\ ops[o].stop # NoStop
  BY <1>1, <1>3 DEF Ledger, None
<1>5. nextOp \notin DOMAIN ops
  BY <1>2, <1>3
<1>6. DOMAIN t \in SUBSET Nat /\ nextOp \in DOMAIN t /\ DOMAIN t \ {nextOp} = DOMAIN ops
  BY <1>2, <1>3, <1>5
<1>7. IsFiniteSet(DOMAIN t) /\ Cardinality(DOMAIN t) = Cardinality(DOMAIN ops) + 1
  BY <1>5, LedgerFinite, FS_AddElement
<1>8. Cardinality(DOMAIN t) <= Retained + 1
  <2>1. Cardinality(DOMAIN ops) \in Nat
    BY LedgerFinite, FS_CardinalityType
  <2>2. QED BY <1>7, <2>1, ExecAssumption DEF Ledger
<1>9. \A o \in DOMAIN t \ {nextOp} : o < nextOp /\ t[o].done
  BY <1>3, <1>4, <1>6
<1>10. /\ nextOp \in DOMAIN ops' /\ Cardinality(DOMAIN ops') <= Retained
  BY <1>1, <1>6, <1>7, <1>8, <1>9, EvictOldestMakesRoom
<1>11. /\ DOMAIN ops' \subseteq DOMAIN ops \cup {nextOp}
       /\ \A o \in DOMAIN ops' : ops'[o] = t[o]
  BY <1>1, <1>6, EvictOldestKeeps
<1>12. /\ ops'[nextOp] = [NewOperation EXCEPT !.kind = kind]
       /\ \A o \in DOMAIN ops' \ {nextOp} : o \in DOMAIN ops /\ ops'[o] = ops[o]
  BY <1>10, <1>11
<1>13. /\ ops'[nextOp].kind = kind
       /\ ~ops'[nextOp].done /\ ops'[nextOp].stop = NoStop
  BY <1>12 DEF NewOperation
<1>14. \A o \in DOMAIN ops' : o < nextOp'
  BY <1>2, <1>3, <1>11
<1>15. \A o \in DOMAIN ops' :
         /\ ops'[o].done <=> o # active'
         /\ ops'[o].done <=> ops'[o].stop # NoStop
  BY <1>1, <1>4, <1>12, <1>13
<1>16. active' # None
  BY <1>1, <1>2 DEF None
<1>17. Ledger'
  BY <1>1, <1>2, <1>10, <1>14, <1>15 DEF Ledger
<1>18. QED BY <1>1, <1>2, <1>4, <1>5, <1>12, <1>13, <1>16, <1>17

LEMMA LedgerIs == OperationLedger <=> TypeOK /\ Ledger
BY DEF OperationLedger, Ledger

LEMMA LedgerKept ==
  ASSUME OperationLedger, [Next]_vars
  PROVE  OperationLedger'
<1>1. TypeOK /\ OpsType /\ Ledger /\ TypeOK'
  BY LedgerIs, TableTypeOK, TypeKept
<1>2. SUFFICES Ledger'
  BY <1>1 DEF OperationLedger, Ledger
<1>3. CASE UNCHANGED <<paused, step, lastStop, opVars>>
  BY <1>1, <1>3 DEF Ledger, opVars
<1>4. ASSUME NEW stop \in Stops, LastStop(stop), nextOp' = nextOp
      PROVE  Ledger'
  BY <1>1, <1>4, LedgerStops
<1>5. ASSUME NEW kind \in {"continue", "run_until", "step"}, StartOperation(kind),
             paused' = FALSE
      PROVE  Ledger'
  BY <1>1, <1>5, LedgerStarts
<1>6. CASE ops' = [o \in {} |-> NewOperation] /\ active' = None /\ nextOp' = nextOp
  <2>1. DOMAIN ops' = {} /\ active' = None
    BY <1>6
  <2>2. Cardinality(DOMAIN ops') <= Retained
    BY <2>1, FS_EmptySet, ExecAssumption
  <2>3. QED BY <2>1, <2>2 DEF Ledger
<1>7. QED
  BY <1>1, <1>3, <1>4, <1>5, <1>6, OpSteps

LEMMA InitLedger == Init => OperationLedger
<1> SUFFICES ASSUME Init PROVE OperationLedger
  OBVIOUS
<1>1. DOMAIN ops = {} /\ active = None
  BY DEF Init
<1>2. Cardinality(DOMAIN ops) <= Retained
  BY <1>1, FS_EmptySet, ExecAssumption
<1>3. QED BY <1>1, <1>2, InitType DEF OperationLedger

\* Type correctness, under every interleaving of requests and rounds.
THEOREM ExecTypeCorrect == Spec => []TypeOK
BY InitType, TypeKept, PTL DEF Spec

\* The ledger of operations (main.py:252-285): every operation that is not done
\* is the active one, is retained and runs, however execution came to a stop.
THEOREM LedgerCorrect == Spec => []OperationLedger
BY InitLedger, LedgerKept, PTL DEF Spec

\* What execution.wait reported stays true (main.py:947-962) until an import or
\* a newer operation drops it.
THEOREM StopReasonsStay == Spec => StopReasonsKept
<1> DEFINE Kept ==
  \A o \in DOMAIN ops :
        \/ ops[o].done /\ o \in DOMAIN ops' /\ ops'[o] = ops[o]
        \/ ops[o].done /\ o \notin DOMAIN ops' /\ nextOp' > nextOp
        \/ ~ops[o].done /\ o \in DOMAIN ops'
        \/ lastStop'.kind = "machine_snapshot_restored"
<1>1. ASSUME OperationLedger, [Next]_vars PROVE Kept
  <2>1. TypeOK /\ OpsType /\ Ledger
    BY <1>1, LedgerIs, TableTypeOK
  <2>2. CASE UNCHANGED <<paused, step, lastStop, opVars>>
    BY <2>1, <2>2 DEF OpsType, opVars
  <2>3. ASSUME NEW stop \in Stops, LastStop(stop), nextOp' = nextOp
        PROVE  Kept
    BY <2>1, <2>3, LedgerStops
  <2>4. ASSUME NEW kind \in {"continue", "run_until", "step"}, StartOperation(kind),
               paused' = FALSE
        PROVE  Kept
    BY <2>1, <2>4, LedgerStarts
  <2>5. CASE lastStop' = [kind |-> "machine_snapshot_restored", id |-> None,
                          access |-> FALSE]
    BY <2>5
  <2>6. QED BY <1>1, <2>1, <2>2, <2>3, <2>4, <2>5, OpSteps
<1>2. QED BY <1>1, LedgerCorrect, PTL DEF Spec, StopReasonsKept

-----------------------------------------------------------------------------
(* run_until's predicate and limit. *)

NoPrivate(t) == \A i \in DOMAIN t : ~t[i].private

\* The private breakpoints of a later table were private in this one.
PrivateFrom(t) ==
  \A i \in DOMAIN t : t[i].private => i \in DOMAIN bps /\ bps[i].private

LEMMA ScanKeepsPrivate ==
  ASSUME TypeOK, NEW M \in SUBSET DOMAIN bps
  PROVE  /\ PrivateFrom(Scanned(bps, M))
         /\ TableOK(Scanned(bps, M)) /\ NoHit \notin DOMAIN Scanned(bps, M)
<1>1. TableOK(bps) /\ NoHit \notin DOMAIN bps
  BY TableTypeOK
<1>2. QED BY <1>1, ScanKeepsTable DEF PrivateFrom

LEMMA ClearedHasNoPrivate ==
  ASSUME RunUntilOwned, NEW t, TableOK(t), NoHit \notin DOMAIN t, PrivateFrom(t)
  PROVE  NoPrivate(ClearedTable(t)) /\ NoPrivate(OnlyPrivate(ClearedTable(t)))
<1>1. \A i \in DOMAIN t : t[i].private => i = runUntil
  BY DEF PrivateFrom, RunUntilOwned
<1>2. NoPrivate(ClearedTable(t))
  BY <1>1, ClearedKeepsTable DEF NoPrivate
<1>3. QED BY <1>2, ClearedKeepsTable, PrivateKeepsTable DEF NoPrivate

\* What ends a run ends it whole: predicate, limit, operation and step.
RunForgotten ==
  /\ runUntil' = None /\ deadline' = -1
  /\ active' = None /\ step' = FALSE
  /\ NoPrivate(bps')

LEMMA RunStops ==
  ASSUME TypeOK, RunUntilOwned,
         \/ Pause \/ StopAtBreakpoint \/ StopOnHit \/ StopOnDeadline
         \/ \E preserve \in BOOLEAN : ImportSnapshot(preserve)
  PROVE  RunForgotten
<1>1. TableOK(bps) /\ NoHit \notin DOMAIN bps /\ PrivateFrom(bps)
  BY TableTypeOK DEF PrivateFrom
<1>2. /\ runUntil' = None /\ deadline' = -1
      /\ active' = None /\ step' = FALSE
  BY DEF Pause, StopAtBreakpoint, StopOnHit, StopOnDeadline, ImportSnapshot,
         ClearRunUntil, LastStop
<1>3. \/ bps' \in {ClearedTable(bps), OnlyPrivate(ClearedTable(bps))}
      \/ bps' = ClearedTable(Scanned(bps, AtBreakpoint))
  BY DEF Pause, StopAtBreakpoint, StopOnHit, StopOnDeadline, ImportSnapshot
<1>4. NoPrivate(ClearedTable(bps)) /\ NoPrivate(OnlyPrivate(ClearedTable(bps)))
  BY <1>1, ClearedHasNoPrivate
<1>5. NoPrivate(ClearedTable(Scanned(bps, AtBreakpoint)))
  BY MatchesInTable, ScanKeepsPrivate, ClearedHasNoPrivate
<1>6. QED BY <1>2, <1>3, <1>4, <1>5 DEF RunForgotten

\* Everything that happens inside a run, and everything else clients ask for.
LEMMA RunGoesOn ==
  ASSUME TypeOK, RunUntilOwned,
         \/ ReadRegisters \/ MemoryRead \/ TraceStop \/ FastBatch \/ BeginTick \/ TickHalted
         \/ BeginInstruction \/ FinishInstruction \/ KeepRunning \/ LeaveLoop
         \/ \E p \in Params : CreateBreakpoint(p)
         \/ \E id \in DOMAIN bps : DeleteBreakpoint(id)
         \/ \E ip \in Code, ax \in {"zero", "one"} : SetRegisters(ip, ax)
         \/ \E anytime \in BOOLEAN : ChangeDevice(anytime)
         \/ \E count \in 1..MaxTrace : TraceStart(count)
         \/ \E n \in Vectors : SoftwareInterrupt(n)
         \/ \E kind \in {"memory_read", "memory_write"}, a \in Data :
              AccessMemory(kind, a)
         \/ UNCHANGED vars
  PROVE  /\ UNCHANGED <<runUntil, step, opVars>>
         /\ deadline = -1 => deadline' = -1
         /\ PrivateFrom(bps')
<1> USE DEF controlVars, bpVars
<1>1. UNCHANGED <<runUntil, step, opVars>>
  BY DEF ReadRegisters, MemoryRead, TraceStop, FastBatch, BeginTick, TickHalted,
         BeginInstruction, FinishInstruction, KeepRunning, LeaveLoop,
         CreateBreakpoint, DeleteBreakpoint, SetRegisters, ChangeDevice, TraceStart,
         SoftwareInterrupt, AccessMemory, vars, opVars, EndRound
<1>2. deadline = -1 => deadline' = -1
  BY DEF ReadRegisters, MemoryRead, TraceStop, FastBatch, BeginTick, TickHalted,
         BeginInstruction, FinishInstruction, KeepRunning, LeaveLoop,
         CreateBreakpoint, DeleteBreakpoint, SetRegisters, ChangeDevice, TraceStart,
         SoftwareInterrupt, AccessMemory, vars, StayPut, Elapse
<1>3. PrivateFrom(bps')
  <2>1. CASE bps' = bps
    BY <2>1 DEF PrivateFrom
  <2>2. CASE \E M \in SUBSET DOMAIN bps : bps' = Scanned(bps, M)
    BY <2>2, ScanKeepsPrivate
  <2>3. ASSUME NEW p \in Params, CreateBreakpoint(p)
        PROVE  PrivateFrom(bps')
    <3>1. bps' = With(bps, nextBp, NewBreakpoint(FALSE, p))
      BY <2>3 DEF CreateBreakpoint
    <3>2. \A i \in DOMAIN bps' :
            bps'[i] = IF i = nextBp THEN NewBreakpoint(FALSE, p) ELSE bps[i]
      BY <3>1 DEF With
    <3>3. ~NewBreakpoint(FALSE, p).private
      BY DEF NewBreakpoint
    <3>4. DOMAIN bps' = DOMAIN bps \cup {nextBp}
      BY <3>1 DEF With
    <3>5. QED BY <3>2, <3>3, <3>4 DEF PrivateFrom
  <2>4. ASSUME NEW id \in DOMAIN bps, DeleteBreakpoint(id)
        PROVE  PrivateFrom(bps')
    <3>1. bps' = Without(bps, id)
      BY <2>4 DEF DeleteBreakpoint
    <3>2. QED BY <3>1 DEF Without, PrivateFrom
  <2>5. CASE \/ BeginTick
             \/ \E n \in Vectors : SoftwareInterrupt(n)
             \/ \E kind \in {"memory_read", "memory_write"}, a \in Data :
                  AccessMemory(kind, a)
    <3>1. \E M \in SUBSET DOMAIN bps : bps' = Scanned(bps, M)
      BY <2>5, MatchesInTable DEF BeginTick, SoftwareInterrupt, AccessMemory
    <3>2. QED BY <2>2, <3>1
  <2>6. CASE \/ ReadRegisters \/ MemoryRead \/ TraceStop \/ FastBatch \/ TickHalted
             \/ BeginInstruction \/ FinishInstruction \/ KeepRunning \/ LeaveLoop
             \/ \E ip \in Code, ax \in {"zero", "one"} : SetRegisters(ip, ax)
             \/ \E anytime \in BOOLEAN : ChangeDevice(anytime)
             \/ \E count \in 1..MaxTrace : TraceStart(count)
             \/ UNCHANGED vars
    <3>1. bps' = bps
      BY <2>6 DEF ReadRegisters, MemoryRead, TraceStop, FastBatch, TickHalted, BeginInstruction,
         FinishInstruction, KeepRunning, LeaveLoop, SetRegisters, ChangeDevice,
         TraceStart, vars
    <3>2. QED BY <2>1, <3>1
  <2>7. QED BY <2>3, <2>4, <2>5, <2>6
<1>4. QED BY <1>1, <1>2, <1>3

LEMMA RunUntilKept ==
  ASSUME OperationLedger, RunUntilOwned, [Next]_vars
  PROVE  RunUntilOwned'
<1>1. TypeOK /\ OpsType /\ Ledger /\ TableOK(bps) /\ NoHit \notin DOMAIN bps
  BY LedgerIs, TableTypeOK
<1>2. CASE \/ Pause \/ StopAtBreakpoint \/ StopOnHit \/ StopOnDeadline
           \/ \E preserve \in BOOLEAN : ImportSnapshot(preserve)
  <2>1. RunForgotten
    BY <1>1, <1>2, RunStops
  <2>2. QED BY <2>1 DEF RunForgotten, NoPrivate, RunUntilOwned
<1>3. CASE Step
  <2>1. active' # None /\ ops'[active'].kind = "step"
    <3>1. StartOperation("step") /\ paused' = FALSE
      BY <1>3 DEF Step, Resume
    <3>2. QED BY <1>1, <3>1, LedgerStarts
  <2>2. runUntil' = None /\ deadline' = -1 /\ bps' = ClearedTable(bps)
    BY <1>3 DEF Step, ClearRunUntil
  <2>3. PrivateFrom(bps)
    BY DEF PrivateFrom
  <2>4. NoPrivate(ClearedTable(bps))
    BY <1>1, <2>3, ClearedHasNoPrivate
  <2>5. QED BY <2>1, <2>2, <2>4 DEF RunUntilOwned, NoPrivate
<1>4. CASE Continue
  <2>1. active' # None /\ ops'[active'].kind = "continue"
    <3>1. StartOperation("continue") /\ paused' = FALSE
      BY <1>4 DEF Continue, Resume
    <3>2. QED BY <1>1, <3>1, LedgerStarts
  <2>2. active = None /\ step' = FALSE /\ UNCHANGED <<runUntil, deadline, bps>>
    BY <1>4 DEF Continue, StartOperation, Resume, bpVars
  <2>3. runUntil = None /\ deadline = -1
    BY <2>2 DEF RunUntilOwned
  <2>4. QED BY <2>1, <2>2, <2>3 DEF RunUntilOwned
<1>5. ASSUME NEW p \in Predicates, RunUntil(p)
      PROVE  RunUntilOwned'
  <2>1. active' # None /\ ops'[active'].kind = "run_until"
    <3>1. StartOperation("run_until") /\ paused' = FALSE
      BY <1>5 DEF RunUntil, Resume
    <3>2. QED BY <1>1, <3>1, LedgerStarts
  <2>2. /\ active = None /\ step' = FALSE
        /\ runUntil' = nextBp
        /\ bps' = With(bps, nextBp, NewBreakpoint(TRUE, p))
    BY <1>5 DEF RunUntil, StartOperation, Resume
  <2>3. nextBp # None
    BY <1>1, ExecAssumption DEF TypeOK, None
  <2>4. runUntil = None
    BY <2>2 DEF RunUntilOwned
  <2>5. \A i \in DOMAIN bps : ~bps[i].private
    <3>1. \A i \in DOMAIN bps : i # None
      BY <1>1 DEF NoHit, None
    <3>2. QED BY <2>4, <3>1 DEF RunUntilOwned
  <2>6. \A i \in DOMAIN bps' : bps'[i].private => i = runUntil'
    BY <2>2, <2>5 DEF With
  <2>7. QED BY <2>1, <2>2, <2>3, <2>6 DEF RunUntilOwned
<1>6. CASE StopOnStep
  <2>1. /\ active' = None /\ step' = FALSE /\ step
        /\ UNCHANGED <<runUntil, deadline, bps>>
    BY <1>6 DEF StopOnStep, LastStop
  <2>2. runUntil = None /\ deadline = -1
    BY <2>1 DEF RunUntilOwned
  <2>3. QED BY <2>1, <2>2 DEF RunUntilOwned
<1>7. ASSUME UNCHANGED <<runUntil, step, opVars>>,
             deadline = -1 => deadline' = -1,
             PrivateFrom(bps')
      PROVE  RunUntilOwned'
  BY <1>7 DEF RunUntilOwned, PrivateFrom, opVars
<1>8. QED
  BY <1>1, <1>2, <1>3, <1>4, <1>5, <1>6, <1>7, RunGoesOn DEF Next, Request, Round

LEMMA InitRunUntil == Init => RunUntilOwned
BY DEF Init, RunUntilOwned, EmptyTable, None

\* run_until's private predicate and limit (main.py:287-295, :985-1027) live
\* exactly as long as their operation, and a step runs under none.
THEOREM RunUntilIsOwned == Spec => []RunUntilOwned
<1>1. Init => OperationLedger /\ RunUntilOwned
  BY InitLedger, InitRunUntil
<1>2. (OperationLedger /\ RunUntilOwned) /\ [Next]_vars
        => (OperationLedger /\ RunUntilOwned)'
  BY LedgerKept, RunUntilKept
<1>3. QED BY <1>1, <1>2, PTL DEF Spec

-----------------------------------------------------------------------------
(* The CPU hooks. *)

\* Every breakpoint in the table is announced by its hook; an execution
\* breakpoint that removed itself may leave its hook behind.
Covered(table) ==
  /\ HasExecution(table) => hooks.exec
  /\ hooks.memory = HasMemoryAccess(table)
  /\ hooks.interrupt = HasInterrupt(table)

\* ObserversArmed speaks of the moments between two rounds.  Within a round the
\* hooks cover the table until a watchpoint or INT breakpoint has been hit --
\* it may have removed itself -- and a hit lasts to the end of its round, where
\* the hooks are refreshed.
Armed ==
  /\ hooks.trace = (traceLeft > 0)
  /\ phase \in {"poll", "tick", "exited"} => memStop = NoHit /\ intStop = NoHit
  /\ memStop = NoHit /\ intStop = NoHit => Covered(bps)
  /\ memStop # NoHit => hooks.memory
  /\ intStop # NoHit => hooks.interrupt

LEMMA RefreshCovers ==
  ASSUME hooks' = Refreshed(bps', traceLeft')
  PROVE  Covered(bps)' /\ hooks'.trace = (traceLeft' > 0)
BY DEF Refreshed, Covered

\* A scan that selects nothing keeps every kind; one that selects an execution
\* breakpoint keeps every watchpoint and INT breakpoint.
LEMMA ScanKeepsKinds ==
  ASSUME TypeOK, NEW M \in SUBSET DOMAIN bps
  PROVE  /\ HasExecution(Scanned(bps, M)) => HasExecution(bps)
         /\ Selected(bps, M) = NoHit \/ (\A i \in M : bps[i].kind = ExecutionKind)
              => /\ HasMemoryAccess(Scanned(bps, M)) <=> HasMemoryAccess(bps)
                 /\ HasInterrupt(Scanned(bps, M)) <=> HasInterrupt(bps)
<1> DEFINE t == Scanned(bps, M)
           s == Selected(bps, M)
<1>1. TableOK(bps) /\ NoHit \notin DOMAIN bps
  BY TableTypeOK
<1>2. /\ DOMAIN bps \ {s} \subseteq DOMAIN t /\ DOMAIN t \subseteq DOMAIN bps
      /\ s = NoHit => DOMAIN t = DOMAIN bps
      /\ \A i \in DOMAIN t : t[i].kind = bps[i].kind
  BY <1>1, ScanKeepsTable
<1>3. s = NoHit \/ s \in M
  BY <1>1, SelectedIsDue
<1> HIDE DEF t, s
<1>4. HasExecution(t) => HasExecution(bps)
  BY <1>2 DEF HasExecution
<1>5. ASSUME s = NoHit \/ \A i \in M : bps[i].kind = ExecutionKind,
             NEW i \in DOMAIN bps, bps[i].kind # ExecutionKind
      PROVE  i \in DOMAIN t
  BY <1>2, <1>3, <1>5
<1>6. ASSUME s = NoHit \/ \A i \in M : bps[i].kind = ExecutionKind
      PROVE  /\ HasMemoryAccess(t) <=> HasMemoryAccess(bps)
             /\ HasInterrupt(t) <=> HasInterrupt(bps)
  <2>1. ExecutionKind \notin MemoryKinds /\ ExecutionKind # InterruptKind
    BY DEF ExecutionKind, MemoryKinds, InterruptKind
  <2>2. QED BY <1>2, <1>5, <1>6, <2>1 DEF HasMemoryAccess, HasInterrupt
<1>7. QED BY <1>4, <1>6 DEF t, s

LEMMA TraceArmed ==
  ASSUME TypeOK, Armed, [Next]_vars
  PROVE  hooks'.trace = (traceLeft' > 0)
<1>1. CASE hooks' = Refreshed(bps', traceLeft')
  BY <1>1, RefreshCovers
<1>2. CASE hooks' = hooks /\ traceLeft' = traceLeft
  BY <1>2 DEF Armed
<1>3. QED BY <1>1, <1>2, HookSteps

LEMMA RequestArms ==
  ASSUME TypeOK, Armed, Request \/ UNCHANGED vars
  PROVE  /\ UNCHANGED <<phase, memStop, intStop>>
         /\ Covered(bps) => Covered(bps)'
<1> USE DEF tickVars, bpVars
<1>1. UNCHANGED <<phase, memStop, intStop>>
  <2>1. CASE UNCHANGED vars
    BY <2>1 DEF vars
  <2>2. ASSUME Request
        PROVE  /\ phase = "poll" /\ phase' = phase
               /\ memStop' \in {memStop, NoHit} /\ intStop' \in {intStop, NoHit}
    BY <2>2
       DEF Request, Pause, Continue, Step, ReadRegisters, MemoryRead, TraceStop, RunUntil,
           CreateBreakpoint, DeleteBreakpoint, SetRegisters, ChangeDevice,
           TraceStart, ImportSnapshot, RefreshHooks
  <2>3. QED BY <2>1, <2>2 DEF Armed
<1>2. \/ hooks' = Refreshed(bps', traceLeft')
      \/ hooks' = hooks /\ bps' = bps
  BY DEF Request, Pause, Continue, Step, ReadRegisters, MemoryRead, TraceStop, RunUntil,
         CreateBreakpoint, DeleteBreakpoint, SetRegisters, ChangeDevice,
         TraceStart, ImportSnapshot, RefreshHooks, SetHooks, vars
<1>3. CASE hooks' = Refreshed(bps', traceLeft')
  BY <1>1, <1>3, RefreshCovers
<1>4. CASE hooks' = hooks /\ bps' = bps
  BY <1>1, <1>4 DEF Covered
<1>5. QED BY <1>2, <1>3, <1>4

\* A scan outside a refresh leaves the hooks alone and the table covered,
\* unless it selects a watchpoint or an INT breakpoint.
LEMMA ScanCovers ==
  ASSUME TypeOK, Covered(bps), hooks' = hooks, NEW M \in SUBSET DOMAIN bps,
         bps' = Scanned(bps, M),
         Selected(bps, M) = NoHit \/ (\A i \in M : bps[i].kind = ExecutionKind)
  PROVE  Covered(bps)'
<1>1. HasExecution(bps') => HasExecution(bps)
  BY ScanKeepsKinds
<1>2. /\ HasMemoryAccess(bps') <=> HasMemoryAccess(bps)
      /\ HasInterrupt(bps') <=> HasInterrupt(bps)
  BY ScanKeepsKinds
<1>3. HasMemoryAccess(bps') = HasMemoryAccess(bps)
  BY <1>2 DEF HasMemoryAccess
<1>4. HasInterrupt(bps') = HasInterrupt(bps)
  BY <1>2 DEF HasInterrupt
<1>5. QED BY <1>1, <1>3, <1>4 DEF Covered

\* While a stop is kept its hook is there: main.py finds every stop, and leaves
\* none (main.py:1121-1140).
LEMMA StopsConsumed ==
  ASSUME Armed
  PROVE  /\ MemoryHit = memStop /\ InterruptHit = intStop
         /\ ConsumeStops => memStop' = NoHit /\ intStop' = NoHit
BY DEF Armed, MemoryHit, InterruptHit, ConsumeStops

LEMMA ArmedKept ==
  ASSUME TypeOK, Armed, [Next]_vars
  PROVE  Armed'
<1> DEFINE Quiet == memStop = NoHit /\ intStop = NoHit
<1>1. hooks'.trace = (traceLeft' > 0)
  BY TraceArmed
<1> DEFINE Kept == /\ phase \in {"poll", "tick", "exited"} => Quiet
                   /\ Quiet => Covered(bps)
                   /\ memStop # NoHit => hooks.memory
                   /\ intStop # NoHit => hooks.interrupt
<1>2. SUFFICES Kept'
  BY <1>1 DEF Armed
<1>3. Kept
  BY DEF Armed
<1>4. CASE Request \/ UNCHANGED vars
  <2>1. UNCHANGED <<phase, memStop, intStop>> /\ (Covered(bps) => Covered(bps)')
    BY <1>4, RequestArms
  <2>2. phase = "poll" \/ UNCHANGED vars
    BY <1>4 DEF Request, Pause, Continue, Step, ReadRegisters, MemoryRead, TraceStop, RunUntil,
         CreateBreakpoint, DeleteBreakpoint, SetRegisters, ChangeDevice,
         TraceStart, ImportSnapshot
  <2>3. CASE phase = "poll"
    BY <1>3, <2>1, <2>3
  <2>4. CASE UNCHANGED vars
    BY <1>3, <2>1, <2>4 DEF vars, bpVars
  <2>5. QED BY <2>2, <2>3, <2>4
<1>5. CASE FastBatch \/ LeaveLoop \/ BeginInstruction
  BY <1>3, <1>5 DEF FastBatch, LeaveLoop, BeginInstruction, bpVars, tickVars, Covered
<1>6. CASE TickHalted \/ FinishInstruction
  BY <1>3, <1>6 DEF TickHalted, FinishInstruction, StayPut, bpVars, Covered
<1>7. CASE StopAtBreakpoint
  <2>1. /\ phase = "poll" /\ UNCHANGED <<phase, traceLeft>>
        /\ memStop' \in {memStop, NoHit} /\ intStop' \in {intStop, NoHit}
        /\ bps' = ClearedTable(Scanned(bps, AtBreakpoint))
        /\ IF runUntil = None THEN hooks' = hooks ELSE hooks' = Refreshed(bps', traceLeft)
    BY <1>7 DEF StopAtBreakpoint, RefreshHooks, SetHooks
  <2>2. CASE runUntil = None
    <3>1. bps' = Scanned(bps, AtBreakpoint) /\ hooks' = hooks
      BY <2>1, <2>2 DEF ClearedTable
    <3>2. \A i \in AtBreakpoint : bps[i].kind = ExecutionKind
      BY DEF AtBreakpoint, Candidates
    <3>3. Covered(bps)'
      BY <1>3, <2>1, <3>1, <3>2, MatchesInTable, ScanCovers
    <3>4. QED BY <1>3, <2>1, <3>3
  <2>3. CASE runUntil # None
    <3>1. Covered(bps)'
      BY <2>1, <2>3, RefreshCovers
    <3>2. QED BY <1>3, <2>1, <3>1
  <2>4. QED BY <2>2, <2>3
<1>8. CASE BeginTick
  <2>1. /\ phase = "poll" /\ phase' = "tick" /\ UNCHANGED <<hooks, memStop, intStop>>
        /\ bps' = Scanned(bps, AtBreakpoint) /\ Selected(bps, AtBreakpoint) = NoHit
    BY <1>8 DEF BeginTick
  <2>2. Covered(bps)'
    BY <1>3, <2>1, MatchesInTable, ScanCovers
  <2>3. QED BY <1>3, <2>1, <2>2
<1>9. ASSUME NEW n \in Vectors, SoftwareInterrupt(n)
      PROVE  Kept'
  <2>1. /\ phase = "tick" /\ phase' \in {"exec", "after"} /\ UNCHANGED <<hooks, memStop>>
        /\ bps' = Scanned(bps, InterruptMatches(n))
        /\ intStop' = Selected(bps, InterruptMatches(n))
    BY <1>9 DEF SoftwareInterrupt, StayPut
  <2>2. intStop' = NoHit => Covered(bps)'
    BY <1>3, <2>1, MatchesInTable, ScanCovers
  <2>3. intStop' # NoHit => hooks.interrupt
    <3>1. intStop' = NoHit \/ intStop' \in InterruptMatches(n)
      BY <2>1, MatchesInTable, TableTypeOK, SelectedIsDue
    <3>2. QED BY <3>1 DEF InterruptMatches
  <2>4. QED BY <1>3, <2>1, <2>2, <2>3
<1>10. ASSUME NEW kind \in {"memory_read", "memory_write"}, NEW a \in Data,
              AccessMemory(kind, a)
       PROVE  Kept'
  <2>1. /\ phase = "exec" /\ memStop = NoHit /\ UNCHANGED <<hooks, phase, intStop>>
        /\ bps' = Scanned(bps, AccessMatches(kind, a))
        /\ memStop' = Selected(bps, AccessMatches(kind, a))
        /\ hooks.memory
    BY <1>10 DEF AccessMemory, AccessMatches
  <2>2. Quiet' => Covered(bps)'
    BY <1>3, <2>1, MatchesInTable, ScanCovers
  <2>3. QED BY <1>3, <2>1, <2>2
<1>11. CASE StopOnHit \/ StopOnDeadline
  <2>1. memStop' = NoHit /\ intStop' = NoHit /\ hooks' = Refreshed(bps', traceLeft')
    BY <1>11, StopsConsumed DEF StopOnHit, StopOnDeadline, EndRound, SetHooks
  <2>2. QED BY <2>1, RefreshCovers
<1>12. CASE StopOnStep \/ KeepRunning
  <2>1. /\ memStop' = NoHit /\ intStop' = NoHit /\ bps' = bps /\ Watched = NoHit
        /\ HooksAfterTrace
    BY <1>12, StopsConsumed DEF StopOnStep, KeepRunning, EndRound
  <2>2. Quiet
    BY <2>1, StopsConsumed DEF Watched
  <2>3. hooks' = hooks \/ hooks' = Refreshed(bps', traceLeft')
    BY <2>1 DEF HooksAfterTrace, SetHooks
  <2>4. hooks' = hooks => Covered(bps)'
    BY <1>3, <2>1, <2>2 DEF Covered
  <2>5. QED BY <2>1, <2>3, <2>4, RefreshCovers
<1>13. QED
  BY <1>4, <1>5, <1>6, <1>7, <1>8, <1>9, <1>10, <1>11, <1>12 DEF Next, Round

LEMMA InitArmed == Init => Armed
<1> SUFFICES ASSUME Init PROVE Armed
  OBVIOUS
<1>1. bps = EmptyTable /\ traceLeft = 0 /\ hooks = Refreshed(EmptyTable, 0)
      /\ memStop = NoHit /\ intStop = NoHit
  BY DEF Init
<1>2. DOMAIN EmptyTable = {}
  BY DEF EmptyTable
<1>3. ~HasExecution(bps) /\ Covered(bps)
  BY <1>1, <1>2 DEF Covered, Refreshed, HasExecution, HasMemoryAccess, HasInterrupt
<1>4. hooks.trace = (traceLeft > 0)
  BY <1>1 DEF Refreshed
<1>5. QED BY <1>1, <1>3, <1>4 DEF Armed

\* No observer is left to the fast path (main.py:1064-1070), whatever has
\* removed itself, been deleted or run out in the rounds before.
THEOREM ObserversStayArmed == Spec => []ObserversArmed
<1>1. Init => TypeOK /\ Armed
  BY InitType, InitArmed
<1>2. (TypeOK /\ Armed) /\ [Next]_vars => (TypeOK /\ Armed)'
  BY TypeKept, ArmedKept
<1>3. Armed => ObserversArmed
  BY DEF Armed, Covered, ObserversArmed
<1>4. QED BY <1>1, <1>2, <1>3, PTL DEF Spec

-----------------------------------------------------------------------------
(* What clients know, and what a Tick found. *)

\* A client that holds the current state_revision knows the registers and
\* devices as they are (main.py:702-729, :634-637), but for the latches a
\* memory.read has reloaded since (main.py:731-743, vga.py:382).
THEOREM RevisionIsTruth == Spec => []CurrentRevisionIsTruth
<1>1. Init => CurrentRevisionIsTruth
  BY DEF Init, CurrentRevisionIsTruth
<1>2. ASSUME TypeOK, CurrentRevisionIsTruth, [Next]_vars
      PROVE  CurrentRevisionIsTruth'
  <2>1. CASE UNCHANGED <<machine, observed>> /\ (phase' = "poll" => phase = "poll")
    BY <1>2, <2>1 DEF CurrentRevisionIsTruth
  <2>2. CASE observed' \in {Nothing, machine'} \/ phase' # "poll"
    BY <2>2 DEF CurrentRevisionIsTruth
  <2>3. CASE MemoryRead
    <3>1. /\ phase = "poll"
          /\ \E latch \in {"zero", "one"} : machine' = [machine EXCEPT !.latch = latch]
      BY <2>3 DEF MemoryRead
    <3>2. CASE observed = Nothing
      BY <2>2, <2>3, <3>2 DEF MemoryRead
    <3>3. CASE observed # Nothing
      <4>1. observed' = [observed EXCEPT !.latch = Reloaded]
        BY <2>3, <3>3 DEF MemoryRead
      <4>2. observed' = [machine EXCEPT !.latch = Reloaded]
        BY <1>2, <3>1, <3>3, <4>1 DEF CurrentRevisionIsTruth, TypeOK, Machine
      <4>3. [machine' EXCEPT !.latch = Reloaded] = [machine EXCEPT !.latch = Reloaded]
        BY <1>2, <3>1 DEF TypeOK, Machine
      <4>4. QED BY <4>2, <4>3 DEF CurrentRevisionIsTruth
    <3>4. QED BY <3>2, <3>3
  <2>4. CASE (Request /\ ~MemoryRead) \/ UNCHANGED vars
    BY <2>1, <2>2, <2>4
       DEF Request, Pause, Continue, Step, ReadRegisters, TraceStop, RunUntil,
           CreateBreakpoint, DeleteBreakpoint, SetRegisters, ChangeDevice,
           TraceStart, ImportSnapshot, BumpRevision, vars, tickVars
  <2>5. CASE FastBatch \/ StopAtBreakpoint \/ BeginTick \/ BeginInstruction \/ LeaveLoop
    BY <2>1, <2>2, <2>5
       DEF FastBatch, StopAtBreakpoint, BeginTick, BeginInstruction, LeaveLoop,
           BumpRevision, tickVars
  <2>6. CASE \/ TickHalted \/ FinishInstruction
             \/ \E n \in Vectors : SoftwareInterrupt(n)
             \/ \E kind \in {"memory_read", "memory_write"}, a \in Data :
                  AccessMemory(kind, a)
    BY <2>1, <2>2, <2>6
       DEF TickHalted, FinishInstruction, SoftwareInterrupt, AccessMemory, StayPut
  <2>7. CASE StopOnHit \/ StopOnDeadline \/ StopOnStep \/ KeepRunning
    BY <2>2, <2>7
       DEF StopOnHit, StopOnDeadline, StopOnStep, KeepRunning, EndRound, BumpRevision
  <2>8. QED BY <1>2, <2>3, <2>4, <2>5, <2>6, <2>7 DEF Next, Round
<1>3. Spec => []TypeOK
  BY ExecTypeCorrect
<1>4. QED BY <1>1, <1>2, <1>3, PTL DEF Spec

\* A stop completes the operation it ends, with its reason (main.py:252-262).
LEMMA HitIsReported ==
  ASSUME OperationLedger, Armed, StopOnHit
  PROVE  ReportedHit(Watched, memStop # NoHit)
<1> DEFINE stop == [kind |-> StopKind(Watched), id |-> Watched, access |-> memStop # NoHit]
<1>1. paused' = TRUE /\ LastStop(stop)
  BY StopsConsumed DEF StopOnHit
<1> HIDE DEF stop
<1>2. ASSUME active # None
      PROVE  ops'[active].done = TRUE /\ ops'[active].stop = stop
  <2>1. active \in DOMAIN ops /\ ops[active] \in
          [kind : {"continue", "run_until", "step"}, done : BOOLEAN, stop : Stops \cup {NoStop}]
    BY <1>2 DEF OperationLedger, TypeOK
  <2>2. ops' = [ops EXCEPT ![active].done = TRUE, ![active].stop = stop]
    BY <1>1, <1>2 DEF LastStop
  <2>3. QED BY <2>1, <2>2
<1>3. lastStop' = stop
  BY <1>1 DEF LastStop
<1>4. QED BY <1>1, <1>2, <1>3 DEF ReportedHit, stop

\* The machine is not paused in the middle of a round.
Running == phase \in {"tick", "exec", "after"} => ~paused

LEMMA RunningKept ==
  ASSUME Running, [Next]_vars
  PROVE  Running'
<1>1. CASE Request
  <2>1. phase = "poll" /\ phase' = phase
    BY <1>1
       DEF Request, Pause, Continue, Step, ReadRegisters, MemoryRead, TraceStop, RunUntil,
           CreateBreakpoint, DeleteBreakpoint, SetRegisters, ChangeDevice,
           TraceStart, ImportSnapshot, tickVars
  <2>2. QED BY <2>1 DEF Running
<1>2. CASE \/ FastBatch \/ StopAtBreakpoint \/ BeginTick \/ TickHalted \/ BeginInstruction
           \/ FinishInstruction \/ LeaveLoop \/ UNCHANGED vars
  BY <1>2
     DEF FastBatch, StopAtBreakpoint, BeginTick, TickHalted, BeginInstruction,
         FinishInstruction, LeaveLoop, StayPut, Running, controlVars, tickVars, vars
<1>3. CASE \/ \E n \in Vectors : SoftwareInterrupt(n)
           \/ \E kind \in {"memory_read", "memory_write"}, a \in Data : AccessMemory(kind, a)
  BY <1>3 DEF SoftwareInterrupt, AccessMemory, StayPut, Running, controlVars
<1>4. CASE StopOnHit \/ StopOnDeadline \/ StopOnStep \/ KeepRunning
  BY <1>4 DEF StopOnHit, StopOnDeadline, StopOnStep, KeepRunning, EndRound, Running
<1>5. QED BY <1>1, <1>2, <1>3, <1>4 DEF Next, Round

\* What the hooks selected in a Tick is kept to its end and reported there, and
\* nothing of it is left for a later Tick (main.py:1121-1154, i8088.py:237-262,
\* :859-862, :894-905, :1888-1892).
THEOREM HitsAreReported == Spec => HitsStop
<1> DEFINE Clean == phase = "poll" => memStop = NoHit /\ intStop = NoHit
           Lasting == phase' # "poll" => /\ memStop # NoHit => memStop' = memStop
                                         /\ intStop # NoHit => intStop' = intStop
           Ending == phase = "after" /\ phase' = "poll" =>
             CASE memStop # NoHit -> ReportedHit(memStop, TRUE)
               [] memStop = NoHit /\ intStop # NoHit -> ReportedHit(intStop, FALSE)
               [] memStop = NoHit /\ intStop = NoHit ->
                    paused' => lastStop'.kind \in {"step", "emulated_time_limit"}
<1>1. ASSUME OperationLedger, Armed, Running, [Next]_vars PROVE Clean /\ Lasting /\ Ending
  <2>1. Clean
    BY <1>1 DEF Armed
  <2>2. Lasting
    <3>1. CASE phase = "poll"
      BY <2>1, <3>1
    <3>2. CASE \/ TickHalted \/ BeginInstruction \/ FinishInstruction \/ LeaveLoop
               \/ \E n \in Vectors : SoftwareInterrupt(n)
               \/ \E kind \in {"memory_read", "memory_write"}, a \in Data :
                    AccessMemory(kind, a)
               \/ UNCHANGED vars
      BY <3>2
         DEF TickHalted, BeginInstruction, FinishInstruction, LeaveLoop,
             SoftwareInterrupt, AccessMemory, vars, tickVars
    <3>3. CASE StopOnHit \/ StopOnDeadline \/ StopOnStep \/ KeepRunning
      BY <3>3 DEF StopOnHit, StopOnDeadline, StopOnStep, KeepRunning, EndRound
    <3>4. phase = "poll" \/ ~(Request \/ FastBatch \/ StopAtBreakpoint \/ BeginTick)
      BY DEF Request, Pause, Continue, Step, ReadRegisters, MemoryRead, TraceStop, RunUntil,
             CreateBreakpoint, DeleteBreakpoint, SetRegisters, ChangeDevice,
             TraceStart, ImportSnapshot, FastBatch, StopAtBreakpoint, BeginTick
    <3>5. QED BY <1>1, <3>1, <3>2, <3>3, <3>4 DEF Next, Round
  <2>3. Ending
    <3>1. SUFFICES ASSUME phase = "after", phase' = "poll" PROVE Ending
      OBVIOUS
    <3>2. StopOnHit \/ StopOnDeadline \/ StopOnStep \/ KeepRunning
      BY <1>1, <3>1
         DEF Next, Request, Round, Pause, Continue, Step, ReadRegisters, MemoryRead,
             TraceStop, RunUntil, CreateBreakpoint, DeleteBreakpoint, SetRegisters,
             ChangeDevice, TraceStart, ImportSnapshot, FastBatch, StopAtBreakpoint,
             BeginTick, TickHalted, BeginInstruction, FinishInstruction,
             SoftwareInterrupt, AccessMemory, LeaveLoop, vars, tickVars
    <3>3. Watched = IF memStop # NoHit THEN memStop ELSE intStop
      BY <1>1, StopsConsumed DEF Watched
    <3>4. CASE StopOnHit
      <4>1. ReportedHit(Watched, memStop # NoHit)
        BY <1>1, <3>4, HitIsReported
      <4>2. Watched # NoHit
        BY <3>4 DEF StopOnHit
      <4>3. CASE memStop # NoHit
        <5>1. Watched = memStop /\ (memStop # NoHit) = TRUE
          BY <3>3, <4>3
        <5>2. QED BY <4>1, <4>3, <5>1
      <4>4. CASE memStop = NoHit
        <5>1. Watched = intStop /\ (memStop # NoHit) = FALSE
          BY <3>3, <4>4
        <5>2. QED BY <4>1, <4>2, <4>4, <5>1
      <4>5. QED BY <4>3, <4>4
    <3>5. CASE StopOnDeadline \/ StopOnStep
      <4>1. memStop = NoHit /\ intStop = NoHit
        BY <3>3, <3>5 DEF StopOnDeadline, StopOnStep
      <4>2. lastStop'.kind \in {"step", "emulated_time_limit"}
        BY <3>5 DEF StopOnDeadline, StopOnStep, LastStop
      <4>3. QED BY <4>1, <4>2
    <3>6. CASE KeepRunning
      <4>1. memStop = NoHit /\ intStop = NoHit
        BY <3>3, <3>6 DEF KeepRunning
      <4>2. ~paused'
        BY <1>1, <3>1, <3>6 DEF KeepRunning, Running
      <4>3. QED BY <4>1, <4>2
    <3>7. QED BY <3>2, <3>4, <3>5, <3>6
  <2>4. QED BY <2>1, <2>2, <2>3
<1> HIDE DEF Clean, Lasting, Ending
<1>2. ASSUME OperationLedger, Armed, Running, [Next]_vars
      PROVE  [Clean /\ Lasting /\ Ending]_vars
  BY <1>1, <1>2
<1>3. Init => Armed /\ Running
  BY InitArmed DEF Init, Running
<1>4. OperationLedger /\ Armed /\ Running /\ [Next]_vars => (Armed /\ Running)'
  BY ArmedKept, RunningKept DEF OperationLedger
<1>5. Spec => []OperationLedger
  BY LedgerCorrect
<1>6. Spec => [][Clean /\ Lasting /\ Ending]_vars
  BY <1>2, <1>3, <1>4, <1>5, PTL DEF Spec
<1>7. QED BY <1>6, PTL DEF Clean, Lasting, Ending, HitsStop

-----------------------------------------------------------------------------
(* Machine snapshots. *)

Contents == Whole \cup {Absent, Damaged}
Modes == {"embed", "reference"}

\* The request, by how far it has come: waiting for locks or about to work,
\* the two halves of an export, and an import before and in its installation.
ExportAsked == [kind : {"export"}, at : {"locks", "work"}, held : 0..3, name : Names,
                mode : Modes]
ImportAsked == [kind : {"import"}, at : {"locks", "work", "release"}, held : 0..3,
                name : Names, expected : Contents, root : Roots,
                reference : {Boot, Absent}]
Exporting == [kind : {"export"},
              at : {"release", "create", "write", "failed", "publish", "published"},
              name : Names, bundle : Whole]
Importing == [kind : {"import"}, at : {"validate", "make root", "copy disk", "release"},
              bundle : Whole, root : Roots, reference : {Boot, Absent}]
Installations == [kind : {"import"}, at : {"install", "release"}, bundle : Whole,
                  root : Roots, next : 1..5]
Requests == {Idle} \cup ExportAsked \cup ImportAsked \cup Exporting \cup Importing
              \cup Installations

FilesType ==
  /\ archive \in [Names -> Contents]
  /\ image \in [Images -> (0..MaxFresh) \cup {Absent, Part}]
  /\ temporary \in Contents \cup {Part}
  /\ acked \in [Names -> Whole \cup {Absent}]
  /\ edits \in Nat

MachineType ==
  /\ parts \in [Components -> (0..fresh) \cup {Gone}]
  /\ liveDisk \in Images
  /\ fresh \in 0..MaxFresh
  /\ diskOf \in [0..MaxFresh -> 0..MaxFresh]
  /\ image[Boot] \in 0..MaxFresh

ThreadsType ==
  /\ lock \in [Locks -> Threads \cup {"emulator", Nobody}]
  /\ thread \in [Threads -> {"absent", "away", "begun", "version", "versioned",
                             "render", "rendered", "push"}]

-----------------------------------------------------------------------------
(* The invariants. *)

\* Whoever uses the display or the keyboard holds its lock, and a request holds
\* both from its first work to its release.
Working == {"work", "validate", "make root", "copy disk", "install", "release"}

LocksHeld ==
  /\ thread["vnc"] \in {"version", "render"} => lock["display"] = "vnc"
  /\ thread["telnet"] = "render" => lock["display"] = "telnet"
  /\ thread["keys"] = "push" => lock["state"] = "keys"
  /\ request.at \in Working => lock["display"] = "emulator" /\ lock["state"] = "emulator"
  /\ request.at = "locks" => /\ request.held < 3
                             /\ request.held >= 2 => lock["display"] = "emulator"

\* A whole archive pairs a state with the disk that goes with it, for good:
\* later states are given greater numbers.
Genuine(b) == b \in Whole => b.state <= fresh /\ b.disk = diskOf[b.state]

BundlesGenuine ==
  /\ \A x \in Names : Genuine(archive[x])
  /\ request \in Exporting \cup Importing \cup Installations => Genuine(request.bundle)

\* An export writes what it captured, to a name that was free.
Publishing ==
  /\ request.at = "publish" => temporary = request.bundle
  /\ request.at = "published" =>
       archive[request.name] \in {request.bundle, Absent, Damaged}
  /\ \A x \in Names : acked[x] # Absent => archive[x] \in {acked[x], Damaged}

\* An import works in a directory of its own, and half an installation has the
\* first components and the disk of the archive.
MachineOrInstallation ==
  /\ request.at = "copy disk" => image[request.root] = Part
  /\ request.at # "install" => AllOfOneState
  /\ request.at = "install" =>
       /\ image[request.root] = request.bundle.disk
       /\ request.next \in 1..4
       /\ request.next > 1 => parts["keyboard"] = request.bundle.state
       /\ request.next > 2 => parts["video"] = request.bundle.state
       /\ request.next > 3 =>
            parts["xtide"] = request.bundle.state /\ liveDisk = request.root

CheckpointInv ==
  /\ FilesType /\ MachineType /\ ThreadsType /\ request \in Requests
  /\ LocksHeld /\ BundlesGenuine /\ Publishing /\ MachineOrInstallation

-----------------------------------------------------------------------------
(* Where a request is. *)

LEMMA StagesApart ==
  ASSUME request \in Requests
  PROVE  /\ request.at = "locks" => request \in ExportAsked \cup ImportAsked
         /\ At("export", "work") => request \in ExportAsked
         /\ At("import", "work") => request \in ImportAsked
         /\ \A place \in {"release", "create", "write", "failed", "publish", "published"} :
              At("export", place) => request \in Exporting
         /\ \A place \in {"validate", "make root", "copy disk"} :
              At("import", place) => request \in Importing
         /\ At("import", "install") => request \in Installations
         /\ request.at = "install" => At("import", "install")
         /\ request.at = "copy disk" => At("import", "copy disk")
         /\ request.at \in {"publish", "published"} => request.kind = "export"
         /\ request.at = "release" => request.kind \in {"export", "import"}
         /\ request # Idle /\ request.at = "release" /\ request.kind # "export"
              => request.kind = "import"
<1>1. CASE request = Idle
  BY <1>1 DEF At, Idle
<1>2. CASE request \in ExportAsked
  BY <1>2 DEF At, ExportAsked, Idle
<1>3. CASE request \in ImportAsked
  BY <1>3 DEF At, ImportAsked, Idle
<1>4. CASE request \in Exporting
  BY <1>4 DEF At, Exporting, Idle
<1>5. CASE request \in Importing
  BY <1>5 DEF At, Importing, Idle
<1>6. CASE request \in Installations
  BY <1>6 DEF At, Installations, Idle
<1>7. QED BY <1>1, <1>2, <1>3, <1>4, <1>5, <1>6 DEF Requests

LEMMA ComponentNames == Components = {"keyboard", "video", "xtide", "cpu"}
<1>1. DOMAIN InstallOrder = {1, 2, 3, 4}
  BY DEF InstallOrder
<1>2. /\ InstallOrder[1] = "keyboard" /\ InstallOrder[2] = "video"
      /\ InstallOrder[3] = "xtide" /\ InstallOrder[4] = "cpu"
  BY DEF InstallOrder
<1>3. QED BY <1>1, <1>2 DEF Components

LEMMA Orders ==
  /\ Len(InstallOrder) = 4
  /\ InstallOrder[1] = "keyboard" /\ InstallOrder[2] = "video"
  /\ InstallOrder[3] = "xtide" /\ InstallOrder[4] = "cpu"
  /\ Len(LockOrder) = 3
  /\ LockOrder[1] = "frame" /\ LockOrder[2] = "display" /\ LockOrder[3] = "state"
BY DEF InstallOrder, LockOrder

-----------------------------------------------------------------------------
(* What each step may do, for the proofs that follow. *)

\* The steps of the threads beside the emulator's.
ThreadStep ==
  \/ VncBegin \/ VncStep \/ TelnetBegin \/ TelnetEnd \/ PushBegin \/ PushEnd

\* Steps that leave the request where it is.
Elsewhere ==
  \/ Run \/ EditImage \/ ThreadStep \/ UNCHANGED checkpointVars
  \/ \E x \in Names : \E c \in {Absent, Damaged} : EditArchive(x, c)

LEMMA ElsewhereKeepsRequest == Elsewhere => request' = request
BY DEF Elsewhere, Run, EditImage, ThreadStep, EditArchive, VncBegin, VncStep,
       VncVersion, VncRender, VncLeaveDisplay, VncEnd, TelnetBegin, TelnetEnd,
       PushBegin, PushEnd, Others, checkpointVars

LEMMA MoveRequest ==
  ASSUME request \in Requests, NEW place
  PROVE  /\ request \in ImportAsked /\ place \in {"locks", "work", "release"}
              => [request EXCEPT !.at = place] \in ImportAsked
         /\ request \in Exporting /\ place \in {"release", "create", "write", "failed",
                                                "publish", "published"}
              => [request EXCEPT !.at = place] \in Exporting
         /\ request \in Importing /\ place \in {"validate", "make root", "copy disk",
                                                "release"}
              => [request EXCEPT !.at = place] \in Importing
BY DEF ImportAsked, Exporting, Importing

\* The state an export captures is whole and goes with its disk, because the
\* machine is of one state whenever no import installs one.
LEMMA CapturedIsWhole ==
  ASSUME CheckpointInv, At("export", "work")
  PROVE  LET b == [state |-> parts["cpu"], disk |-> image[liveDisk], mode |-> request.mode]
         IN  b \in Whole /\ Genuine(b)
<1>1. request \in ExportAsked /\ request.at = "work"
  BY StagesApart DEF CheckpointInv, At
<1>2. AllOfOneState
  BY <1>1 DEF CheckpointInv, MachineOrInstallation
<1>3. parts["cpu"] \in 0..MaxFresh /\ parts["cpu"] <= fresh
  <2>1. "cpu" \in Components
    BY ComponentNames
  <2>2. parts["cpu"] \in 0..fresh /\ fresh \in 0..MaxFresh
    BY <1>2, <2>1 DEF CheckpointInv, MachineType, AllOfOneState
  <2>3. QED BY <2>2, CheckpointAssumption
<1>4. image[liveDisk] \in 0..MaxFresh
  BY <1>2, <1>3 DEF CheckpointInv, MachineType, AllOfOneState
<1>5. request.mode \in Modes
  BY <1>1 DEF ExportAsked
<1>6. image[liveDisk] = diskOf[parts["cpu"]]
  BY <1>2 DEF AllOfOneState
<1>7. QED BY <1>3, <1>4, <1>5, <1>6 DEF Whole, Modes, Genuine

LEMMA RequestKept ==
  ASSUME CheckpointInv, CheckpointNext \/ UNCHANGED checkpointVars
  PROVE  request' \in Requests
<1>1. request \in Requests
  BY DEF CheckpointInv
<1>2. CASE Elsewhere
  BY <1>1, <1>2, ElsewhereKeepsRequest
<1>3. CASE Restart
  BY <1>3 DEF Restart, Requests
<1>4. ASSUME NEW x \in Names, NEW mode \in Modes, Export(x, mode)
      PROVE  request' \in Requests
  <2>1. request' \in ExportAsked
    BY <1>4 DEF Export, ExportAsked
  <2>2. QED BY <2>1 DEF Requests
<1>5. ASSUME NEW x \in Names, NEW c \in Known \cup {archive[x]}, NEW r \in Roots,
             NEW reference \in {Boot, Absent}, Import(x, c, r, reference)
      PROVE  request' \in Requests
  <2>1. c \in Contents
    BY <1>5 DEF CheckpointInv, FilesType, Known, Contents
  <2>2. request' \in ImportAsked
    BY <1>5, <2>1 DEF Import, ImportAsked
  <2>3. QED BY <2>2 DEF Requests
<1>6. CASE TakeLock
  <2>1. request.at = "locks" /\ request.held < 3
    BY <1>6, Orders DEF TakeLock
  <2>2. request' = [request EXCEPT !.held = request.held + 1,
                      !.at = IF request.held + 1 = 3 THEN "work" ELSE "locks"]
    BY <1>6, Orders DEF TakeLock
  <2> DEFINE place == IF request.held + 1 = 3 THEN "work" ELSE "locks"
  <2>3. place \in {"locks", "work"}
    OBVIOUS
  <2>4. request' = [request EXCEPT !.held = request.held + 1, !.at = place]
    BY <2>2
  <2> HIDE DEF place
  <2>5. CASE request \in ExportAsked
    <3>1. request.held + 1 \in 0..3
      BY <2>1, <2>5 DEF ExportAsked
    <3>2. request' \in ExportAsked
      BY <2>3, <2>4, <2>5, <3>1 DEF ExportAsked
    <3>3. QED BY <3>2 DEF Requests
  <2>6. CASE request \in ImportAsked
    <3>1. request.held + 1 \in 0..3
      BY <2>1, <2>6 DEF ImportAsked
    <3>2. request' \in ImportAsked
      BY <2>3, <2>4, <2>6, <3>1 DEF ImportAsked
    <3>3. QED BY <3>2 DEF Requests
  <2>7. QED BY <1>1, <2>1, <2>5, <2>6, StagesApart
<1>7. CASE Release
  <2>1. CASE request.kind = "export"
    <3>1. request \in Exporting /\ request' = [request EXCEPT !.at = "create"]
      BY <1>1, <1>7, <2>1, StagesApart DEF Release, At
    <3>2. QED BY <1>1, <3>1, MoveRequest DEF Requests
  <2>2. CASE request.kind # "export"
    BY <1>7, <2>2 DEF Release, Requests
  <2>3. QED BY <2>1, <2>2
<1>8. CASE Capture
  <2>1. request.name \in Names /\ At("export", "work")
    BY <1>1, <1>8, StagesApart DEF Capture, ExportAsked
  <2>2. request' \in Exporting
    BY <1>8, <2>1, CapturedIsWhole DEF Capture, Exporting
  <2>3. QED BY <2>2 DEF Requests
<1>9. CASE Create \/ Write \/ Publish \/ Unlink
  <2>1. /\ request \in Exporting
        /\ \/ request' = Idle
           \/ \E place \in {"write", "failed", "publish", "published"} :
                request' = [request EXCEPT !.at = place]
    BY <1>1, <1>9, StagesApart DEF Create, Write, Publish, Unlink, Goto
  <2>2. QED BY <1>1, <2>1, MoveRequest DEF Requests
<1>10. CASE ReadBundle
  <2>1. request \in ImportAsked
    BY <1>1, <1>10, StagesApart DEF ReadBundle
  <2>2. CASE request' = [request EXCEPT !.at = "release"]
    BY <1>1, <2>1, <2>2, MoveRequest DEF Requests
  <2>3. CASE /\ request.expected \in Whole
             /\ request' = [kind |-> "import", at |-> "validate",
                            bundle |-> request.expected,
                            root |-> request.root, reference |-> request.reference]
    <3>1. request' \in Importing
      BY <2>1, <2>3 DEF ImportAsked, Importing
    <3>2. QED BY <3>1 DEF Requests
  <2>4. QED BY <1>10, <2>2, <2>3 DEF ReadBundle, Goto
<1>11. CASE Validate \/ MakeRoot \/ CopyDisk
  <2>1. request \in Importing
    BY <1>1, <1>11, StagesApart DEF Validate, MakeRoot, CopyDisk
  <2>2. \/ \E place \in {"make root", "copy disk", "release"} :
             request' = [request EXCEPT !.at = place]
        \/ request' = Installing(request.bundle, request.root)
    BY <1>11 DEF Validate, MakeRoot, CopyDisk, Goto
  <2>3. Installing(request.bundle, request.root) \in Installations
    <3>1. request.bundle \in Whole /\ request.root \in Roots
      BY <2>1 DEF Importing
    <3>2. 1 \in 1..5
      OBVIOUS
    <3> HIDE DEF Whole
    <3>3. QED BY <3>1, <3>2 DEF Installing, Installations
  <2>4. QED BY <1>1, <2>1, <2>2, <2>3, MoveRequest DEF Requests
<1>12. CASE ClearPart
  BY <1>1, <1>12 DEF ClearPart
<1>13. CASE FillPart
  <2>1. request \in Installations /\ request.next <= 4
    BY <1>1, <1>13, StagesApart, Orders DEF FillPart
  <2>2. request' = [request EXCEPT !.next = request.next + 1,
                      !.at = IF request.next = 4 THEN "release" ELSE request.at]
    BY <1>13, Orders DEF FillPart
  <2>3. request' \in Installations
    <3> DEFINE place == IF request.next = 4 THEN "release" ELSE request.at
    <3>1. place \in {"install", "release"} /\ request.next + 1 \in 1..5
      BY <2>1 DEF Installations
    <3>2. request' = [request EXCEPT !.next = request.next + 1, !.at = place]
      BY <2>2
    <3> HIDE DEF place
    <3>3. QED BY <2>1, <3>1, <3>2 DEF Installations
  <2>4. QED BY <2>3 DEF Requests
<1>14. QED
  BY <1>2, <1>3, <1>4, <1>5, <1>6, <1>7, <1>8, <1>9, <1>10, <1>11, <1>12, <1>13
     DEF CheckpointNext, EmulatorStep, Elsewhere, ThreadStep, Modes

LEMMA ThreadsKept ==
  ASSUME CheckpointInv, CheckpointNext \/ UNCHANGED checkpointVars
  PROVE  ThreadsType'
<1>1. ThreadsType
  BY DEF CheckpointInv
<1>2. ASSUME NEW l \in Locks, NEW t \in Threads \cup {"emulator"}, Take(l, t)
      PROVE  lock' \in [Locks -> Threads \cup {"emulator", Nobody}]
  BY <1>1, <1>2 DEF Take, ThreadsType
<1>3. ASSUME NEW l \in Locks, lock' = [lock EXCEPT ![l] = Nobody]
      PROVE  lock' \in [Locks -> Threads \cup {"emulator", Nobody}]
  BY <1>1, <1>3 DEF ThreadsType
<1>4. ASSUME NEW t \in Threads, NEW from,
             NEW to \in {"away", "begun", "version", "versioned", "render",
                         "rendered", "push"},
             Move(t, from, to)
      PROVE  thread' \in [Threads -> {"absent", "away", "begun", "version",
                                      "versioned", "render", "rendered", "push"}]
  BY <1>1, <1>4 DEF Move, ThreadsType
<1>5. "vnc" \in Threads /\ "telnet" \in Threads /\ "keys" \in Threads
      /\ "frame" \in Locks /\ "display" \in Locks /\ "state" \in Locks
  BY DEF Threads, Locks
<1>6. CASE VncBegin \/ VncVersion \/ VncRender
  BY <1>2, <1>4, <1>5, <1>6 DEF VncBegin, VncVersion, VncRender, ThreadsType
<1>7. CASE VncLeaveDisplay \/ VncEnd
  BY <1>3, <1>4, <1>5, <1>7 DEF VncLeaveDisplay, VncEnd, ThreadsType
<1>8. CASE TelnetBegin \/ PushBegin
  BY <1>2, <1>4, <1>5, <1>8 DEF TelnetBegin, PushBegin, ThreadsType
<1>9. CASE TelnetEnd \/ PushEnd
  BY <1>3, <1>4, <1>5, <1>9 DEF TelnetEnd, PushEnd, ThreadsType
<1>10. CASE Restart
  BY <1>1, <1>10 DEF Restart, Started, ThreadsType
<1>11. CASE TakeLock
  <2>1. request \in ExportAsked \cup ImportAsked /\ request.held < 3
    BY <1>11, StagesApart, Orders DEF TakeLock, CheckpointInv
  <2>2. request.held \in 0..3
    BY <2>1 DEF ExportAsked, ImportAsked
  <2>3. request.held + 1 \in {1, 2, 3}
    BY <2>1, <2>2
  <2>4. LockOrder[request.held + 1] \in Locks
    BY <2>3, <1>5, Orders
  <2>5. Take(LockOrder[request.held + 1], "emulator") /\ thread' = thread
    BY <1>11 DEF TakeLock
  <2>6. QED BY <1>1, <1>2, <2>4, <2>5 DEF ThreadsType
<1>12. CASE Release
  BY <1>1, <1>12 DEF Release, ThreadsType
<1>13. CASE UNCHANGED <<lock, thread>>
  BY <1>1, <1>13 DEF ThreadsType
<1>14. CASE \/ Run \/ EditImage \/ UNCHANGED checkpointVars
            \/ \E x \in Names : \E c \in {Absent, Damaged} : EditArchive(x, c)
            \/ \E x \in Names : \E mode \in {"embed", "reference"} : Export(x, mode)
            \/ \E x \in Names : \E c \in Known \cup {archive[x]} : \E r \in Roots :
                 \E reference \in {Boot, Absent} : Import(x, c, r, reference)
            \/ Capture \/ Create \/ Write \/ Publish \/ Unlink
            \/ ReadBundle \/ Validate \/ MakeRoot \/ CopyDisk \/ ClearPart \/ FillPart
  BY <1>13, <1>14
     DEF Run, EditImage, EditArchive, Export, Import, Capture, Create, Write, Publish,
         Unlink, ReadBundle, Validate, MakeRoot, CopyDisk, ClearPart, FillPart,
         checkpointVars
<1>15. QED
  BY <1>6, <1>7, <1>8, <1>9, <1>10, <1>11, <1>12, <1>14
     DEF CheckpointNext, EmulatorStep, VncStep

\* Only its own thread takes and leaves a lock, whatever the order.
LEMMA LocksKept ==
  ASSUME CheckpointInv, CheckpointNext \/ UNCHANGED checkpointVars
  PROVE  LocksHeld'
<1>1. ThreadsType /\ LocksHeld /\ request \in Requests
  BY DEF CheckpointInv
<1>2. /\ lock \in [Locks -> Threads \cup {"emulator", Nobody}]
      /\ DOMAIN thread = Threads
      /\ "vnc" \in Threads /\ "telnet" \in Threads /\ "keys" \in Threads
      /\ "frame" \in Locks /\ "display" \in Locks /\ "state" \in Locks
      /\ Nobody \notin {"vnc", "telnet", "keys", "emulator"}
  BY <1>1, CheckpointAssumption DEF ThreadsType, Threads, Locks
<1>3. CASE VncBegin \/ VncVersion \/ VncRender \/ VncLeaveDisplay \/ VncEnd
  BY <1>1, <1>2, <1>3
     DEF VncBegin, VncVersion, VncRender, VncLeaveDisplay, VncEnd, Take, Move, Others,
         LocksHeld, Working
<1>4. CASE TelnetBegin \/ TelnetEnd \/ PushBegin \/ PushEnd
  BY <1>1, <1>2, <1>4
     DEF TelnetBegin, TelnetEnd, PushBegin, PushEnd, Take, Move, Others, LocksHeld,
         Working
<1>5. CASE Restart
  <2>1. /\ request'.at = "none"
        /\ \A t \in Threads : thread'[t] \in {"absent", "away"}
    BY <1>5 DEF Restart, Started, Idle
  <2>2. QED BY <1>2, <2>1 DEF LocksHeld, Working
<1>6. CASE TakeLock
  <2>1. request \in ExportAsked \cup ImportAsked /\ request.at = "locks" /\ request.held < 3
    BY <1>1, <1>6, StagesApart, Orders DEF TakeLock
  <2>2. request.held \in {0, 1, 2}
    BY <2>1 DEF ExportAsked, ImportAsked
  <2>3. /\ lock[LockOrder[request.held + 1]] = Nobody
        /\ lock' = [lock EXCEPT ![LockOrder[request.held + 1]] = "emulator"]
        /\ thread' = thread
    BY <1>6 DEF TakeLock, Take
  <2>4. /\ request'.held = request.held + 1
        /\ request'.at = IF request.held + 1 = 3 THEN "work" ELSE "locks"
    <3> DEFINE place == IF request.held + 1 = 3 THEN "work" ELSE "locks"
               held == request.held + 1
    <3>1. request' = [request EXCEPT !.held = held, !.at = place]
      BY <1>6, Orders DEF TakeLock
    <3> HIDE DEF place, held
    <3>2. request'.held = held /\ request'.at = place
      BY <2>1, <3>1 DEF ExportAsked, ImportAsked
    <3>3. QED BY <3>2 DEF place, held
  <2> DEFINE l == LockOrder[request.held + 1]
  <2>5. \A k \in Locks : lock'[k] = IF k = l THEN "emulator" ELSE lock[k]
    BY <1>2, <2>3
  <2>6. lock[l] = Nobody
    BY <2>3
  <2>7. CASE request.held = 0
    <3>1. request'.held = 1 /\ request'.at = "locks"
      BY <2>4, <2>7
    <3>2. l = "frame"
      BY <2>7, Orders
    <3>3. /\ lock'["display"] = lock["display"] /\ lock'["state"] = lock["state"]
      BY <1>2, <2>5, <3>2
    <3>4. request'.held < 3 /\ ~(request'.held >= 2) /\ request'.at \notin Working
      BY <3>1 DEF Working
    <3> HIDE DEF l
    <3>5. QED BY <1>1, <2>3, <3>3, <3>4 DEF LocksHeld
  <2>8. CASE request.held = 1
    <3>1. request'.held = 2 /\ request'.at = "locks"
      BY <2>4, <2>8
    <3>2. l = "display"
      BY <2>8, Orders
    <3>3. /\ lock'["display"] = "emulator" /\ lock'["state"] = lock["state"]
          /\ lock["display"] = Nobody
      BY <1>2, <2>5, <2>6, <3>2
    <3>4. request'.held < 3 /\ request'.at \notin Working
      BY <3>1 DEF Working
    <3> HIDE DEF l
    <3>5. QED BY <1>1, <1>2, <2>3, <3>3, <3>4 DEF LocksHeld
  <2>9. CASE request.held = 2
    <3>1. request'.at = "work" /\ lock["display"] = "emulator"
      BY <1>1, <2>1, <2>4, <2>9 DEF LocksHeld
    <3>2. l = "state"
      BY <2>9, Orders
    <3>3. /\ lock'["display"] = lock["display"] /\ lock'["state"] = "emulator"
          /\ lock["state"] = Nobody
      BY <1>2, <2>5, <2>6, <3>2
    <3>4. QED BY <1>1, <1>2, <2>3, <3>1, <3>3 DEF LocksHeld, Working
  <2>10. QED BY <2>2, <2>7, <2>8, <2>9
<1>7. CASE Release
  <2>1. request'.at \in {"create", "none"} /\ thread' = thread
    BY <1>1, <1>7, StagesApart DEF Release, Idle, At, Exporting
  <2>2. \A l \in Locks : lock[l] # "emulator" => lock'[l] = lock[l]
    BY <1>7 DEF Release
  <2>3. QED BY <1>1, <1>2, <2>1, <2>2 DEF LocksHeld, Working
<1>8. ASSUME UNCHANGED <<lock, thread>>,
             request'.at \in Working => request.at \in Working,
             request'.at = "locks" => request' = request \/ request'.held = 0
      PROVE  LocksHeld'
  BY <1>1, <1>8 DEF LocksHeld
<1>9. CASE \/ Run \/ EditImage \/ UNCHANGED checkpointVars
           \/ \E x \in Names : \E c \in {Absent, Damaged} : EditArchive(x, c)
           \/ ClearPart
  <2>1. UNCHANGED <<lock, thread, request>>
    BY <1>9 DEF Run, EditImage, EditArchive, ClearPart, checkpointVars
  <2>2. QED BY <1>1, <2>1 DEF LocksHeld
<1>10. CASE \/ \E x \in Names : \E mode \in {"embed", "reference"} : Export(x, mode)
            \/ \E x \in Names : \E c \in Known \cup {archive[x]} : \E r \in Roots :
                 \E reference \in {Boot, Absent} : Import(x, c, r, reference)
  <2>1. UNCHANGED <<lock, thread>> /\ request'.at = "locks" /\ request'.held = 0
    BY <1>10 DEF Export, Import
  <2>2. QED BY <1>8, <2>1 DEF Working
<1>11. CASE Capture
  <2>1. UNCHANGED <<lock, thread>> /\ request.at = "work" /\ request'.at = "release"
    BY <1>11 DEF Capture, At
  <2>2. QED BY <1>8, <2>1 DEF Working
<1>12. CASE Create \/ Write \/ Publish \/ Unlink
  <2>1. request \in Exporting
    BY <1>1, <1>12, StagesApart DEF Create, Write, Publish, Unlink
  <2>2. /\ UNCHANGED <<lock, thread>>
        /\ request'.at \in {"none", "write", "failed", "publish", "published"}
    BY <1>12, <2>1 DEF Create, Write, Publish, Unlink, Goto, Idle, Exporting
  <2>3. QED BY <1>8, <2>2 DEF Working
<1>13. CASE ReadBundle \/ Validate \/ MakeRoot \/ CopyDisk
  <2>1. request \in ImportAsked \cup Importing
    BY <1>1, <1>13, StagesApart DEF ReadBundle, Validate, MakeRoot, CopyDisk
  <2>2. request.at \in Working
    BY <1>13 DEF ReadBundle, Validate, MakeRoot, CopyDisk, At, Working
  <2>3. \/ \E place \in {"make root", "copy disk", "release"} :
             request' = [request EXCEPT !.at = place]
        \/ request'.at \in {"validate", "install"}
    <3>1. CASE ReadBundle
      <4>1. CASE request' = [request EXCEPT !.at = "release"]
        BY <4>1
      <4>2. CASE request' = [kind |-> "import", at |-> "validate",
                             bundle |-> request.expected, root |-> request.root,
                             reference |-> request.reference]
        BY <4>2
      <4>3. QED BY <3>1, <4>1, <4>2 DEF ReadBundle, Goto
    <3>2. CASE Validate BY <3>2 DEF Validate, Goto
    <3>3. CASE MakeRoot BY <3>3 DEF MakeRoot, Goto
    <3>4. Installing(request.bundle, request.root).at = "install"
      BY DEF Installing
    <3>5. CASE CopyDisk BY <3>4, <3>5 DEF CopyDisk, Goto
    <3>6. QED BY <1>13, <3>1, <3>2, <3>3, <3>5
  <2>4. request'.at # "locks"
    BY <2>1, <2>3 DEF ImportAsked, Importing
  <2>5. UNCHANGED <<lock, thread>>
    BY <1>13 DEF ReadBundle, Validate, MakeRoot, CopyDisk
  <2>6. QED BY <1>8, <2>2, <2>4, <2>5
<1>14. CASE FillPart
  <2>1. request \in Installations /\ request.at = "install"
    BY <1>1, <1>14, StagesApart DEF FillPart, At
  <2>2. UNCHANGED <<lock, thread>> /\ request'.at \in {"install", "release"}
    BY <1>14, <2>1 DEF FillPart, Installations
  <2>3. QED BY <1>8, <2>1, <2>2 DEF Working
<1>15. QED
  BY <1>3, <1>4, <1>5, <1>6, <1>7, <1>9, <1>10, <1>11, <1>12, <1>13, <1>14
     DEF CheckpointNext, EmulatorStep, VncStep

-----------------------------------------------------------------------------
(* Which steps write the machine, the images and the archives. *)

LEMMA MachineWriters ==
  ASSUME CheckpointNext \/ UNCHANGED checkpointVars
  PROVE  Run \/ Restart \/ ClearPart \/ FillPart \/ EditImage
         \/ UNCHANGED <<parts, liveDisk, fresh, diskOf>>
BY DEF CheckpointNext, EmulatorStep, VncStep, EditArchive, Export, Import, TakeLock,
       Release, Capture, Create, Write, Publish, Unlink, ReadBundle, Validate, MakeRoot,
       CopyDisk, VncBegin, VncVersion, VncRender, VncLeaveDisplay, VncEnd, TelnetBegin,
       TelnetEnd, PushBegin, PushEnd, Others, machineVars, checkpointVars

LEMMA ImageWriters ==
  ASSUME CheckpointNext \/ UNCHANGED checkpointVars
  PROVE  Run \/ EditImage \/ MakeRoot \/ CopyDisk \/ image' = image
BY DEF CheckpointNext, EmulatorStep, VncStep, Restart, EditArchive, Export, Import,
       TakeLock, Release, Capture, Create, Write, Publish, Unlink, ReadBundle, Validate,
       ClearPart, FillPart, VncBegin, VncVersion, VncRender, VncLeaveDisplay, VncEnd,
       TelnetBegin, TelnetEnd, PushBegin, PushEnd, Others, files, checkpointVars

LEMMA ArchiveWriters ==
  ASSUME CheckpointNext \/ UNCHANGED checkpointVars
  PROVE  \/ \E x \in Names : \E c \in {Absent, Damaged} : EditArchive(x, c)
         \/ Publish
         \/ Unlink /\ archive' = archive
         \/ UNCHANGED <<archive, acked>>
BY DEF CheckpointNext, EmulatorStep, VncStep, Run, EditImage, Restart, Export, Import,
       TakeLock, Release, Capture, Create, Write, Unlink, ReadBundle, Validate, MakeRoot,
       CopyDisk, ClearPart, FillPart, VncBegin, VncVersion, VncRender, VncLeaveDisplay,
       VncEnd, TelnetBegin, TelnetEnd, PushBegin, PushEnd, Others, files, checkpointVars

LEMMA TemporaryWriters ==
  ASSUME CheckpointNext \/ UNCHANGED checkpointVars
  PROVE  Create \/ Write \/ Unlink \/ Restart \/ temporary' = temporary
BY DEF CheckpointNext, EmulatorStep, VncStep, Run, EditImage, EditArchive, Export,
       Import, TakeLock, Release, Capture, Publish, ReadBundle, Validate, MakeRoot,
       CopyDisk, ClearPart, FillPart, VncBegin, VncVersion, VncRender, VncLeaveDisplay,
       VncEnd, TelnetBegin, TelnetEnd, PushBegin, PushEnd, Others, files, checkpointVars

LEMMA EditWriters ==
  ASSUME CheckpointNext \/ UNCHANGED checkpointVars
  PROVE  \/ edits < MaxEdits /\ edits' = edits + 1
            /\ (EditImage \/ \E x \in Names : \E c \in {Absent, Damaged} : EditArchive(x, c))
         \/ edits' = edits /\ ~EditImage
            /\ ~(\E x \in Names : \E c \in {Absent, Damaged} : EditArchive(x, c))
         \/ edits \notin Nat
<1>1. CASE EditImage \/ \E x \in Names : \E c \in {Absent, Damaged} : EditArchive(x, c)
  BY <1>1 DEF EditImage, EditArchive
<1>2. CASE ~(EditImage \/ \E x \in Names : \E c \in {Absent, Damaged} : EditArchive(x, c))
  BY <1>2
     DEF CheckpointNext, EmulatorStep, VncStep, Run, Restart, Export, Import, TakeLock,
       Release, Capture, Create, Write, Publish, Unlink, ReadBundle, Validate, MakeRoot,
       CopyDisk, ClearPart, FillPart, VncBegin, VncVersion, VncRender, VncLeaveDisplay,
       VncEnd, TelnetBegin, TelnetEnd, PushBegin, PushEnd, Others, files, checkpointVars
<1>3. QED BY <1>1, <1>2

-----------------------------------------------------------------------------
(* Types. *)

LEMMA ArchiveKept ==
  ASSUME CheckpointInv, CheckpointNext \/ UNCHANGED checkpointVars
  PROVE  /\ archive' \in [Names -> Contents]
         /\ acked' \in [Names -> Whole \cup {Absent}]
         /\ temporary' \in Contents \cup {Part}
<1>1. /\ archive \in [Names -> Contents]
      /\ acked \in [Names -> Whole \cup {Absent}]
      /\ temporary \in Contents \cup {Part}
      /\ request \in Requests
  BY DEF CheckpointInv, FilesType
<1>2. ASSUME NEW x \in Names, NEW c \in {Absent, Damaged}, EditArchive(x, c)
      PROVE  archive' \in [Names -> Contents] /\ acked' \in [Names -> Whole \cup {Absent}]
  BY <1>1, <1>2 DEF EditArchive, Contents
<1>3. CASE Publish
  <2>1. request.at = "publish" /\ request \in Exporting
    BY <1>1, <1>3, StagesApart DEF Publish, At
  <2>2. temporary = request.bundle
    BY <2>1 DEF CheckpointInv, Publishing
  <2>3. temporary \in Contents /\ acked' = acked
    BY <1>3, <2>1, <2>2 DEF Publish, Exporting, Contents
  <2>4. archive' \in [Names -> Contents]
    BY <1>1, <1>3, <2>3 DEF Publish
  <2>5. QED BY <1>1, <1>3, <2>3, <2>4 DEF Publish
<1>4. ASSUME Unlink
      PROVE  acked' \in [Names -> Whole \cup {Absent}]
  <2>1. request \in Exporting
    BY <1>1, <1>4, StagesApart DEF Unlink
  <2>2. request.bundle \in Whole
    BY <2>1 DEF Exporting
  <2>3. QED BY <1>1, <1>4, <2>2 DEF Unlink
<1>5. archive' \in [Names -> Contents] /\ acked' \in [Names -> Whole \cup {Absent}]
  BY <1>1, <1>2, <1>3, <1>4, ArchiveWriters
<1>6. temporary' \in Contents \cup {Part}
  <2>1. CASE Create \/ Unlink \/ Restart
    BY <1>1, <2>1 DEF Create, Unlink, Restart, Contents
  <2>2. CASE Write
    <3>1. request.bundle \in Whole
      BY <1>1, <2>2, StagesApart DEF Write, Exporting
    <3>2. QED BY <1>1, <2>2, <3>1 DEF Write, Contents
  <2>3. QED BY <1>1, <2>1, <2>2, TemporaryWriters
<1>7. QED BY <1>5, <1>6

LEMMA ImageKept ==
  ASSUME CheckpointInv, CheckpointNext \/ UNCHANGED checkpointVars
  PROVE  /\ image' \in [Images -> (0..MaxFresh) \cup {Absent, Part}]
         /\ image'[Boot] \in 0..MaxFresh
<1>1. /\ image \in [Images -> (0..MaxFresh) \cup {Absent, Part}]
      /\ image[Boot] \in 0..MaxFresh /\ fresh \in 0..MaxFresh /\ liveDisk \in Images
      /\ Boot \in Images /\ Roots \subseteq Images /\ Boot \notin Roots
      /\ request \in Requests
  BY CheckpointAssumption DEF CheckpointInv, FilesType, MachineType, Images
<1>2. CASE Run \/ EditImage
  <2>1. fresh' \in 0..MaxFresh
    BY <1>1, <1>2, CheckpointAssumption DEF Run, EditImage
  <2>2. \E p \in Images : image' = [image EXCEPT ![p] = fresh']
    BY <1>1, <1>2 DEF Run, EditImage
  <2>3. QED BY <1>1, <2>1, <2>2
<1>3. CASE MakeRoot \/ CopyDisk
  <2>1. request.root \in Roots /\ request.bundle.disk \in 0..MaxFresh
    BY <1>1, <1>3, StagesApart DEF MakeRoot, CopyDisk, Importing, Whole
  <2>2. \/ image' = image
        \/ \E v \in (0..MaxFresh) \cup {Part} : image' = [image EXCEPT ![request.root] = v]
    BY <1>3, <2>1 DEF MakeRoot, CopyDisk
  <2>3. QED BY <1>1, <2>1, <2>2
<1>4. QED BY <1>1, <1>2, <1>3, ImageWriters

LEMMA MachineKept ==
  ASSUME CheckpointInv, CheckpointNext \/ UNCHANGED checkpointVars
  PROVE  MachineType'
<1>1. MachineType /\ request \in Requests /\ Boot \in Images /\ Roots \subseteq Images
  BY DEF CheckpointInv, Images
<1>2. fresh \in Nat /\ (fresh < MaxFresh => fresh + 1 \in 0..MaxFresh)
  BY <1>1, CheckpointAssumption DEF MachineType
<1>3. image'[Boot] \in 0..MaxFresh
  BY ImageKept
<1>4. CASE Run \/ Restart
  <2>1. fresh' \in 0..MaxFresh /\ fresh' \in 0..fresh'
    BY <1>1, <1>2, <1>4 DEF Run, Restart
  <2>2. parts' \in [Components -> (0..fresh') \cup {Gone}]
    BY <1>4, <2>1 DEF Run, Restart
  <2>3. diskOf' \in [0..MaxFresh -> 0..MaxFresh]
    BY <1>1, <1>4, <2>1 DEF Run, Restart, MachineType
  <2>4. liveDisk' \in Images
    BY <1>1, <1>4 DEF Run, Restart, MachineType
  <2>5. QED BY <1>3, <2>1, <2>2, <2>3, <2>4 DEF MachineType
<1>5. CASE EditImage
  <2>1. fresh' \in 0..MaxFresh /\ 0..fresh \subseteq 0..fresh'
    BY <1>1, <1>2, <1>5 DEF EditImage, MachineType
  <2>2. UNCHANGED <<parts, liveDisk, diskOf>>
    BY <1>5 DEF EditImage
  <2>3. parts' \in [Components -> (0..fresh') \cup {Gone}]
    BY <1>1, <2>1, <2>2 DEF MachineType
  <2>4. QED BY <1>1, <1>3, <2>1, <2>2, <2>3 DEF MachineType
<1>6. CASE ClearPart
  <2>1. parts' = [parts EXCEPT ![InstallOrder[request.next]] = Gone]
        /\ UNCHANGED <<liveDisk, fresh, diskOf>>
    BY <1>6 DEF ClearPart
  <2>2. parts' \in [Components -> (0..fresh) \cup {Gone}]
    BY <1>1, <2>1 DEF MachineType
  <2>3. QED BY <1>1, <1>3, <2>1, <2>2 DEF MachineType
<1>7. CASE FillPart
  <2>1. request \in Installations
    BY <1>1, <1>7, StagesApart DEF FillPart
  <2>2. request.bundle.state \in 0..MaxFresh /\ request.root \in Roots
        /\ request.bundle \in Whole
    BY <2>1 DEF Installations, Whole
  <2>3. request.bundle.state \in 0..fresh
    BY <1>2, <2>1, <2>2 DEF CheckpointInv, BundlesGenuine, Genuine
  <2>4. /\ parts' = [parts EXCEPT ![InstallOrder[request.next]] = request.bundle.state]
        /\ liveDisk' \in {request.root, liveDisk}
        /\ UNCHANGED <<fresh, diskOf>>
    BY <1>7 DEF FillPart
  <2>5. parts' \in [Components -> (0..fresh) \cup {Gone}]
    BY <1>1, <2>3, <2>4 DEF MachineType
  <2>6. QED BY <1>1, <1>3, <2>2, <2>4, <2>5 DEF MachineType
<1>8. CASE UNCHANGED <<parts, liveDisk, fresh, diskOf>>
  BY <1>1, <1>3, <1>8 DEF MachineType
<1>9. QED
  BY <1>4, <1>5, <1>6, <1>7, <1>8, MachineWriters

LEMMA FilesKept ==
  ASSUME CheckpointInv, CheckpointNext \/ UNCHANGED checkpointVars
  PROVE  FilesType'
<1>1. edits \in Nat
  BY DEF CheckpointInv, FilesType
<1>2. edits' \in Nat
  BY <1>1, EditWriters
<1>3. QED BY <1>2, ArchiveKept, ImageKept DEF FilesType

-----------------------------------------------------------------------------
(* What the archives hold. *)

\* Only a request that has captured or read an archive has one.
LEMMA WithBundle ==
  ASSUME NEW r
  PROVE  /\ r \in Exporting => "bundle" \in DOMAIN r
         /\ r \in Importing => "bundle" \in DOMAIN r
         /\ r \in Installations => "bundle" \in DOMAIN r
         /\ r \in ExportAsked => "bundle" \notin DOMAIN r
         /\ r \in ImportAsked => "bundle" \notin DOMAIN r
         /\ r = Idle => "bundle" \notin DOMAIN r
<1>1. r \in Exporting => DOMAIN r = {"kind", "at", "name", "bundle"}
  BY DEF Exporting
<1>2. r \in Importing => DOMAIN r = {"kind", "at", "bundle", "root", "reference"}
  BY DEF Importing
<1>3. r \in Installations => DOMAIN r = {"kind", "at", "bundle", "root", "next"}
  BY DEF Installations
<1>4. r \in ExportAsked => DOMAIN r = {"kind", "at", "held", "name", "mode"}
  BY DEF ExportAsked
<1>5. r \in ImportAsked =>
        DOMAIN r = {"kind", "at", "held", "name", "expected", "root", "reference"}
  BY DEF ImportAsked
<1>6. r = Idle => DOMAIN r = {"kind", "at"}
  BY DEF Idle
<1>7. QED BY <1>1, <1>2, <1>3, <1>4, <1>5, <1>6

\* A request is given an archive by the step that captures or reads it, and
\* keeps it until it ends.
LEMMA BundleKept ==
  ASSUME CheckpointInv, CheckpointNext \/ UNCHANGED checkpointVars,
         request' \in Exporting \cup Importing \cup Installations
  PROVE  \/ Capture
         \/ ReadBundle /\ request.name \in Names
              /\ request'.bundle = archive[request.name]
         \/ /\ request \in Exporting \cup Importing \cup Installations
            /\ request'.bundle = request.bundle
<1>1. request \in Requests
  BY DEF CheckpointInv
<1>2. /\ "bundle" \in DOMAIN request'
      /\ request' # Idle /\ request' \notin ExportAsked \cup ImportAsked
  BY WithBundle
<1>3. CASE Elsewhere \/ ClearPart
  BY <1>3, ElsewhereKeepsRequest DEF ClearPart
<1>4. ~Restart
  BY <1>2 DEF Restart
<1>5. ASSUME NEW x \in Names, NEW mode \in Modes, Export(x, mode)
      PROVE  FALSE
  BY <1>2, <1>5 DEF Export
<1>6. ASSUME NEW x \in Names, NEW c, NEW r, NEW reference, Import(x, c, r, reference)
      PROVE  FALSE
  BY <1>2, <1>6 DEF Import
<1>7. ~TakeLock
  <2> SUFFICES ASSUME TakeLock PROVE FALSE
    OBVIOUS
  <2>1. request \in ExportAsked \cup ImportAsked
    BY <1>1, StagesApart DEF TakeLock
  <2>2. DOMAIN request' = DOMAIN request
    BY DEF TakeLock
  <2>3. QED BY <1>2, <2>1, <2>2, WithBundle
<1>8. CASE Release
  <2>1. request.kind = "export" /\ request' = [request EXCEPT !.at = "create"]
    BY <1>2, <1>8 DEF Release
  <2>2. request \in Exporting
    BY <1>1, <1>8, <2>1, StagesApart DEF Release, At
  <2>3. QED BY <2>1, <2>2 DEF Exporting
<1>9. CASE Create \/ Write \/ Publish \/ Unlink
  <2>1. request \in Exporting
    BY <1>1, <1>9, StagesApart DEF Create, Write, Publish, Unlink
  <2>2. \E place : request' = [request EXCEPT !.at = place]
    BY <1>2, <1>9 DEF Create, Write, Publish, Unlink, Goto
  <2>3. QED BY <2>1, <2>2 DEF Exporting
<1>10. CASE ReadBundle
  <2>1. request \in ImportAsked
    BY <1>1, <1>10, StagesApart DEF ReadBundle
  <2>2. ~Goto("release")
    BY <1>1, <1>2, <2>1, MoveRequest DEF Goto
  <2>3. archive[request.name] = request.expected /\ request'.bundle = request.expected
    BY <1>10, <2>2 DEF ReadBundle
  <2>4. QED BY <1>10, <2>1, <2>3 DEF ImportAsked
<1>11. CASE Validate \/ MakeRoot \/ CopyDisk
  <2>1. request \in Importing
    BY <1>1, <1>11, StagesApart DEF Validate, MakeRoot, CopyDisk
  <2>2. \/ \E place : request' = [request EXCEPT !.at = place]
        \/ request' = Installing(request.bundle, request.root)
    BY <1>11 DEF Validate, MakeRoot, CopyDisk, Goto
  <2>3. Installing(request.bundle, request.root).bundle = request.bundle
    BY DEF Installing
  <2>4. request'.bundle = request.bundle
    BY <2>1, <2>2, <2>3 DEF Importing
  <2>5. QED BY <2>1, <2>4
<1>12. CASE FillPart
  <2>1. request \in Installations
    BY <1>1, <1>12, StagesApart DEF FillPart
  <2>2. request'.bundle = request.bundle
    BY <1>12, <2>1 DEF FillPart, Installations
  <2>3. QED BY <2>1, <2>2
<1>13. QED
  BY <1>3, <1>4, <1>5, <1>6, <1>7, <1>8, <1>9, <1>10, <1>11, <1>12
     DEF CheckpointNext, EmulatorStep, Elsewhere, ThreadStep, Modes

\* What goes with its disk goes with it for good: numbers are never given twice.
LEMMA GenuineStays ==
  ASSUME CheckpointInv, CheckpointNext \/ UNCHANGED checkpointVars, NEW b, Genuine(b)
  PROVE  Genuine(b)'
<1>1. fresh \in Nat /\ diskOf \in [0..MaxFresh -> 0..MaxFresh]
  BY CheckpointAssumption DEF CheckpointInv, MachineType
<1>2. CASE Run \/ Restart
  <2>1. fresh' = fresh + 1 /\ \E v : diskOf' = [diskOf EXCEPT ![fresh'] = v]
    BY <1>2 DEF Run, Restart
  <2>2. SUFFICES ASSUME b \in Whole
                 PROVE  b.state <= fresh' /\ b.disk = diskOf'[b.state]
    BY DEF Genuine
  <2>3. b.state \in 0..MaxFresh /\ b.state <= fresh /\ b.disk = diskOf[b.state]
    BY <2>2 DEF Genuine, Whole
  <2>4. b.state # fresh' /\ b.state <= fresh'
    BY <1>1, <2>1, <2>3, CheckpointAssumption
  <2>5. diskOf'[b.state] = diskOf[b.state]
    BY <1>1, <2>1, <2>3, <2>4
  <2>6. QED BY <2>3, <2>4, <2>5
<1>3. CASE EditImage
  <2>1. fresh' = fresh + 1 /\ diskOf' = diskOf
    BY <1>3 DEF EditImage
  <2>2. SUFFICES ASSUME b \in Whole
                 PROVE  b.state <= fresh' /\ b.disk = diskOf'[b.state]
    BY DEF Genuine
  <2>3. b.state \in 0..MaxFresh /\ b.state <= fresh /\ b.disk = diskOf[b.state]
    BY <2>2 DEF Genuine, Whole
  <2>4. QED BY <1>1, <2>1, <2>3, CheckpointAssumption
<1>4. CASE UNCHANGED <<fresh, diskOf>>
  BY <1>4 DEF Genuine
<1>5. CASE ClearPart \/ FillPart
  BY <1>4, <1>5 DEF ClearPart, FillPart
<1>6. QED BY <1>2, <1>3, <1>4, <1>5, MachineWriters

LEMMA BundlesStayGenuine ==
  ASSUME CheckpointInv, CheckpointNext \/ UNCHANGED checkpointVars
  PROVE  BundlesGenuine'
<1>1. /\ \A x \in Names : Genuine(archive[x])
      /\ request \in Exporting \cup Importing \cup Installations => Genuine(request.bundle)
      /\ archive \in [Names -> Contents] /\ request \in Requests
  BY DEF CheckpointInv, BundlesGenuine, FilesType
<1>2. ASSUME request' \in Exporting \cup Importing \cup Installations
      PROVE  Genuine(request.bundle)'
  <2>1. CASE Capture
    <3> DEFINE b == [state |-> parts["cpu"], disk |-> image[liveDisk],
                     mode |-> request.mode]
    <3>1. Genuine(b) /\ request'.bundle = b
      BY <2>1, CapturedIsWhole DEF Capture
    <3>2. UNCHANGED <<fresh, diskOf>>
      BY <2>1 DEF Capture, machineVars
    <3>3. QED BY <3>1, <3>2 DEF Genuine
  <2>2. ASSUME NEW b, Genuine(b), request'.bundle = b
        PROVE  Genuine(request.bundle)'
    <3>1. Genuine(b)'
      BY <2>2, GenuineStays
    <3>2. QED BY <2>2, <3>1 DEF Genuine
  <2>3. QED BY <1>1, <1>2, <2>1, <2>2, BundleKept
<1>3. ASSUME NEW x \in Names
      PROVE  Genuine(archive[x])'
  <2>1. ASSUME NEW b, Genuine(b), archive'[x] = b
        PROVE  Genuine(archive[x])'
    <3>1. Genuine(b)'
      BY <2>1, GenuineStays
    <3>2. QED BY <2>1, <3>1 DEF Genuine
  <2>2. CASE Publish
    <3>1. request \in Exporting /\ temporary = request.bundle
      BY <1>1, <2>2, StagesApart DEF CheckpointInv, Publishing, Publish, At
    <3>2. archive'[x] \in {archive[x], request.bundle}
      BY <1>1, <2>2, <3>1 DEF Publish
    <3>3. QED BY <1>1, <2>1, <3>1, <3>2
  <2>3. ASSUME NEW y \in Names, NEW c \in {Absent, Damaged}, EditArchive(y, c)
        PROVE  Genuine(archive[x])'
    <3>1. archive'[x] \in {archive[x], c}
      BY <1>1, <2>3 DEF EditArchive
    <3>2. Genuine(c)
      BY CheckpointAssumption DEF Genuine
    <3>3. QED BY <1>1, <2>1, <3>1, <3>2
  <2>4. QED BY <1>1, <2>1, <2>2, <2>3, ArchiveWriters
<1>4. QED BY <1>2, <1>3 DEF BundlesGenuine

-----------------------------------------------------------------------------
(* Which step brings a request to each of the places the invariants name. *)

LEMMA Entered ==
  ASSUME request \in Requests, CheckpointNext \/ UNCHANGED checkpointVars,
         request' # request
  PROVE  /\ request'.at = "publish" => Write
         /\ request'.at = "published" => Publish
         /\ request'.at = "copy disk" => MakeRoot
         /\ request'.at = "install" => CopyDisk \/ FillPart
<1> DEFINE Named == {"publish", "published", "copy disk", "install"}
<1>1. ASSUME NEW place, request' = [request EXCEPT !.at = place]
      PROVE  request'.at = place
  <2>1. CASE request = Idle
    BY <1>1, <2>1 DEF Idle
  <2>2. CASE request \in ExportAsked \cup ImportAsked
    BY <1>1, <2>2 DEF ExportAsked, ImportAsked
  <2>3. CASE request \in Exporting \cup Importing \cup Installations
    BY <1>1, <2>3 DEF Exporting, Importing, Installations
  <2>4. QED BY <2>1, <2>2, <2>3 DEF Requests
<1>2. CASE Elsewhere \/ ClearPart
  BY <1>2, ElsewhereKeepsRequest DEF ClearPart
<1>3. CASE Restart
  BY <1>3 DEF Restart, Idle
<1>4. CASE \/ \E x \in Names : \E mode \in Modes : Export(x, mode)
           \/ \E x \in Names : \E c \in Known \cup {archive[x]} : \E r \in Roots :
                \E reference \in {Boot, Absent} : Import(x, c, r, reference)
  <2>1. request'.at = "locks"
    BY <1>4 DEF Export, Import
  <2>2. QED BY <2>1
<1>5. CASE TakeLock
  <2> DEFINE place == IF request.held + 1 = 3 THEN "work" ELSE "locks"
             held == request.held + 1
  <2>1. request' = [request EXCEPT !.held = held, !.at = place]
    BY <1>5, Orders DEF TakeLock
  <2>2. request \in ExportAsked \cup ImportAsked
    BY <1>5, StagesApart DEF TakeLock
  <2>3. place \notin Named
    OBVIOUS
  <2> HIDE DEF place, held
  <2>4. request'.at = place
    BY <2>1, <2>2 DEF ExportAsked, ImportAsked
  <2>5. QED BY <2>3, <2>4
<1>6. CASE Release
  <2>1. request' = Idle \/ request' = [request EXCEPT !.at = "create"]
    BY <1>6 DEF Release
  <2>2. Idle.at = "none"
    BY DEF Idle
  <2>3. request'.at \in {"none", "create"}
    BY <1>1, <2>1, <2>2
  <2>4. QED BY <2>3
<1>7. CASE Capture
  BY <1>7 DEF Capture
<1>8. Idle.at = "none"
  BY DEF Idle
<1>9. CASE Create \/ Unlink
  BY <1>1, <1>8, <1>9 DEF Create, Unlink, Goto
<1>10. CASE Write
  <2>1. \E place \in {"failed", "publish"} : request' = [request EXCEPT !.at = place]
    BY <1>10 DEF Write, Goto
  <2>2. QED BY <1>1, <1>10, <2>1
<1>11. CASE Publish
  BY <1>1, <1>11 DEF Publish, Goto
<1>12. CASE ReadBundle
  <2>1. CASE Goto("release")
    BY <1>1, <2>1 DEF Goto
  <2>2. CASE ~Goto("release")
    <3>1. request' = [kind |-> "import", at |-> "validate", bundle |-> request.expected,
                      root |-> request.root, reference |-> request.reference]
      BY <1>12, <2>2 DEF ReadBundle
    <3>2. request'.at = "validate"
      BY <3>1
    <3>3. QED BY <3>2
  <2>3. QED BY <2>1, <2>2
<1>13. CASE Validate
  BY <1>1, <1>13 DEF Validate, Goto
<1>14. CASE MakeRoot
  BY <1>1, <1>14 DEF MakeRoot, Goto
<1>15. Installing(request.bundle, request.root).at = "install"
  BY DEF Installing
<1>16. CASE CopyDisk
  BY <1>1, <1>15, <1>16 DEF CopyDisk, Goto
<1>17. CASE FillPart
  <2>1. request \in Installations
    BY <1>17, StagesApart DEF FillPart
  <2>2. request'.at \in {"install", "release"}
    BY <1>17, <2>1 DEF FillPart, Installations
  <2>3. QED BY <1>17, <2>2
<1>18. QED
  BY <1>2, <1>3, <1>4, <1>5, <1>6, <1>7, <1>9, <1>10, <1>11, <1>12, <1>13, <1>14, <1>16,
     <1>17 DEF CheckpointNext, EmulatorStep, Elsewhere, ThreadStep, Modes

LEMMA PublishingKept ==
  ASSUME CheckpointInv, CheckpointNext \/ UNCHANGED checkpointVars
  PROVE  Publishing'
<1>1. Publishing /\ request \in Requests /\ archive \in [Names -> Contents]
      /\ acked \in [Names -> Whole \cup {Absent}]
  BY DEF CheckpointInv, FilesType
<1>2. ASSUME request'.at = "publish"
      PROVE  temporary' = request'.bundle
  <2>1. CASE Write
    <3>1. request \in Exporting
      BY <1>1, <2>1, StagesApart DEF Write
    <3>2. request'.bundle = request.bundle
      BY <2>1, <3>1 DEF Write, Goto, Exporting
    <3>3. request'.at = "publish" /\ request' = [request EXCEPT !.at = "failed"] => FALSE
      BY <3>1 DEF Exporting
    <3>4. QED BY <1>2, <2>1, <3>2, <3>3 DEF Write, Goto
  <2>2. CASE request' = request
    <3>1. ~(Create \/ Write \/ Unlink \/ Restart)
      BY <1>2, <2>2 DEF Create, Write, Unlink, Restart, At, Idle
    <3>2. QED BY <1>1, <1>2, <2>2, <3>1, TemporaryWriters DEF Publishing
  <2>3. QED BY <1>1, <1>2, <2>1, <2>2, Entered
<1>3. ASSUME request'.at = "published"
      PROVE  archive'[request'.name] \in {request'.bundle, Absent, Damaged}
  <2>1. CASE Publish
    <3>1. request \in Exporting /\ request.at = "publish"
      BY <1>1, <2>1, StagesApart DEF Publish, At
    <3>2. request'.bundle = request.bundle /\ request'.name = request.name
      BY <2>1, <3>1 DEF Publish, Goto, Exporting
    <3>3. request' = [request EXCEPT !.at = "failed"] => FALSE
      BY <1>3, <3>1 DEF Exporting
    <3>4. archive' = [archive EXCEPT ![request.name] = temporary]
      BY <2>1, <3>3 DEF Publish, Goto
    <3>5. request.name \in Names /\ temporary = request.bundle
      BY <1>1, <3>1 DEF Exporting, Publishing
    <3>6. archive'[request.name] = request.bundle
      BY <1>1, <3>4, <3>5
    <3>7. QED BY <3>2, <3>6
  <2>2. CASE request' = request
    <3>1. request.kind = "export" /\ request.at = "published"
      BY <1>1, <1>3, <2>2, StagesApart
    <3>2. request.name \in Names
      BY <1>1, <3>1, StagesApart DEF At, Exporting
    <3>3. archive[request.name] \in {request.bundle, Absent, Damaged}
      BY <1>1, <3>1 DEF Publishing
    <3>4. ~Publish
      BY <3>1 DEF Publish, At
    <3>5. archive'[request.name] \in {archive[request.name], Absent, Damaged}
      BY <1>1, <3>2, <3>4, ArchiveWriters DEF EditArchive
    <3>6. QED BY <2>2, <3>3, <3>5
  <2>3. QED BY <1>1, <1>3, <2>1, <2>2, Entered
<1>4. ASSUME NEW x \in Names, acked'[x] # Absent
      PROVE  archive'[x] \in {acked'[x], Damaged}
  <2>1. ASSUME NEW y \in Names, NEW c \in {Absent, Damaged}, EditArchive(y, c)
        PROVE  archive'[x] \in {acked'[x], Damaged}
    <3>1. CASE x = y
      <4>1. archive'[x] = c /\ acked'[x] = IF c = Absent THEN Absent ELSE acked[x]
        BY <1>1, <2>1, <3>1 DEF EditArchive
      <4>2. c = Damaged
        BY <1>4, <4>1
      <4>3. QED BY <4>1, <4>2
    <3>2. CASE x # y
      BY <1>1, <1>4, <2>1, <3>2 DEF EditArchive, Publishing
    <3>3. QED BY <3>1, <3>2
  <2>2. CASE Publish
    <3>1. request \in Exporting
      BY <1>1, <2>2, StagesApart DEF Publish
    <3>2. acked' = acked /\ archive[x] \in {acked[x], Damaged}
      BY <1>1, <1>4, <2>2 DEF Publish, Publishing
    <3>3. archive[x] # Absent
      BY <1>4, <3>2, CheckpointAssumption
    <3>4. archive'[x] = archive[x]
      BY <1>1, <2>2, <3>1, <3>3 DEF Publish
    <3>5. QED BY <3>2, <3>4
  <2>3. CASE Unlink /\ archive' = archive
    <3>1. CASE acked'[x] = acked[x]
      BY <1>1, <1>4, <2>3, <3>1 DEF Publishing
    <3>2. CASE acked'[x] # acked[x]
      <4>1. /\ request.at = "published" /\ archive[request.name] # Absent
            /\ acked' = [acked EXCEPT ![request.name] = request.bundle]
        BY <2>3, <3>2 DEF Unlink
      <4>2. x = request.name /\ acked'[x] = request.bundle
        BY <1>1, <3>2, <4>1
      <4>3. archive[x] \in {request.bundle, Absent, Damaged}
        BY <1>1, <4>1, <4>2 DEF Publishing
      <4>4. QED BY <2>3, <4>1, <4>2, <4>3
    <3>3. QED BY <3>1, <3>2
  <2>4. CASE UNCHANGED <<archive, acked>>
    BY <1>1, <1>4, <2>4 DEF Publishing
  <2>5. QED BY <2>1, <2>2, <2>3, <2>4, ArchiveWriters
<1>5. QED BY <1>2, <1>3, <1>4 DEF Publishing

-----------------------------------------------------------------------------
(* The machine is of one state, or half-way through an installation. *)

\* An installation is left by its last component, or because the process dies.
LEMMA Left ==
  ASSUME CheckpointNext \/ UNCHANGED checkpointVars, request.at = "install"
  PROVE  FillPart \/ Restart \/ request' = request
<1>1. request # Idle
  BY DEF Idle
<1>2. ~Run /\ ~TakeLock /\ ~Release /\ ~Capture /\ ~Create /\ ~Write /\ ~Publish /\ ~Unlink
  BY <1>1 DEF Run, TakeLock, Release, Capture, Create, Write, Publish, Unlink, At
<1>3. ~ReadBundle /\ ~Validate /\ ~MakeRoot /\ ~CopyDisk
  BY DEF ReadBundle, Validate, MakeRoot, CopyDisk, At
<1>4. /\ ~(\E x \in Names : \E mode \in Modes : Export(x, mode))
      /\ ~(\E x \in Names : \E c \in Known \cup {archive[x]} : \E r \in Roots :
             \E reference \in {Boot, Absent} : Import(x, c, r, reference))
  BY <1>1 DEF Export, Import
<1>5. CASE Elsewhere \/ ClearPart
  BY <1>5, ElsewhereKeepsRequest DEF ClearPart
<1>6. QED
  BY <1>2, <1>3, <1>4, <1>5
     DEF CheckpointNext, EmulatorStep, Elsewhere, ThreadStep, Modes

LEMMA OneStateMoves ==
  ASSUME CheckpointInv, Run \/ Restart
  PROVE  AllOfOneState'
<1>1. /\ fresh \in 0..MaxFresh /\ fresh < MaxFresh /\ fresh' = fresh + 1
      /\ parts' = [p \in Components |-> fresh']
      /\ diskOf \in [0..MaxFresh -> 0..MaxFresh]
      /\ image \in [Images -> (0..MaxFresh) \cup {Absent, Part}]
      /\ liveDisk \in Images
  BY DEF CheckpointInv, MachineType, FilesType, Run, Restart
<1>2. fresh' \in 0..MaxFresh /\ fresh' # Gone
  BY <1>1, CheckpointAssumption
<1>3. \A p \in Components : parts'[p] = fresh'
  BY <1>1
<1>4. "cpu" \in Components
  BY ComponentNames
<1>5. image'[liveDisk'] = diskOf'[fresh']
  <2>1. CASE Run
    <3>1. /\ image' = [image EXCEPT ![liveDisk] = fresh'] /\ liveDisk' = liveDisk
          /\ diskOf' = [diskOf EXCEPT ![fresh'] = fresh']
      BY <2>1 DEF Run
    <3>2. image'[liveDisk] = fresh' /\ diskOf'[fresh'] = fresh'
      BY <1>1, <1>2, <3>1
    <3>3. QED BY <3>1, <3>2
  <2>2. CASE Restart
    <3>1. /\ image' = image /\ liveDisk' = Boot
          /\ diskOf' = [diskOf EXCEPT ![fresh'] = image[Boot]]
      BY <2>2 DEF Restart
    <3>2. QED BY <1>1, <1>2, <3>1
  <2>3. QED BY <2>1, <2>2
<1>6. QED BY <1>2, <1>3, <1>4, <1>5 DEF AllOfOneState

LEMMA MachineOrInstallationKept ==
  ASSUME CheckpointInv, CheckpointNext \/ UNCHANGED checkpointVars
  PROVE  MachineOrInstallation'
<1>1. /\ MachineOrInstallation /\ MachineType /\ request \in Requests
      /\ image \in [Images -> (0..MaxFresh) \cup {Absent, Part}]
      /\ Boot \in Images /\ Roots \subseteq Images /\ Boot \notin Roots
  BY CheckpointAssumption DEF CheckpointInv, FilesType, Images
<1>2. CASE Run \/ Restart
  <2>1. request'.at = "none"
    BY <1>2 DEF Run, Restart, Idle
  <2>2. QED BY <1>2, <2>1, OneStateMoves DEF MachineOrInstallation
<1>3. CASE EditImage
  <2>1. UNCHANGED <<request, parts, liveDisk, diskOf>> /\ liveDisk # Boot
        /\ image' = [image EXCEPT ![Boot] = fresh']
    BY <1>3 DEF EditImage
  <2>2. \A p \in Images \ {Boot} : image'[p] = image[p]
    BY <1>1, <2>1
  <2>3. image'[liveDisk] = image[liveDisk]
    BY <1>1, <2>1, <2>2 DEF MachineType
  <2>4. request.at \in {"copy disk", "install"} => image'[request.root] = image[request.root]
    BY <1>1, <2>2, StagesApart DEF Importing, Installations
  <2>5. QED BY <1>1, <2>1, <2>3, <2>4 DEF MachineOrInstallation, AllOfOneState
<1>4. CASE MakeRoot
  <2>1. request \in Importing /\ request.at = "make root"
    BY <1>1, <1>4, StagesApart DEF MakeRoot, At
  <2>2. AllOfOneState /\ UNCHANGED <<parts, liveDisk, diskOf>>
    BY <1>1, <1>4, <2>1 DEF MachineOrInstallation, MakeRoot, machineVars
  <2>3. parts["cpu"] \in 0..MaxFresh
    BY <1>1, <2>2, ComponentNames, CheckpointAssumption DEF MachineType, AllOfOneState
  <2>4. image[liveDisk] \in Nat
    BY <1>1, <2>2, <2>3 DEF MachineType, AllOfOneState
  <2>5. request.root \in Roots
    BY <2>1 DEF Importing
  <2>6. CASE image[request.root] = Absent /\ Goto("copy disk")
             /\ image' = [image EXCEPT ![request.root] = Part]
    <3>1. liveDisk # request.root
      BY <2>4, <2>6, CheckpointAssumption
    <3>2. image'[liveDisk] = image[liveDisk] /\ image'[request.root] = Part
      BY <1>1, <2>5, <2>6, <3>1 DEF MachineType
    <3>3. request'.at = "copy disk" /\ request'.root = request.root
      BY <2>1, <2>6 DEF Goto, Importing
    <3>4. QED BY <2>2, <3>2, <3>3 DEF MachineOrInstallation, AllOfOneState
  <2>7. CASE Goto("release") /\ UNCHANGED image
    <3>1. request'.at = "release"
      BY <2>1, <2>7 DEF Goto, Importing
    <3>2. QED BY <2>2, <2>7, <3>1 DEF MachineOrInstallation, AllOfOneState
  <2>8. QED BY <1>4, <2>6, <2>7 DEF MakeRoot
<1>5. CASE CopyDisk
  <2>1. request \in Importing /\ request.at = "copy disk"
    BY <1>1, <1>5, StagesApart DEF CopyDisk, At
  <2>2. AllOfOneState /\ image[request.root] = Part /\ UNCHANGED <<parts, liveDisk, diskOf>>
    BY <1>1, <1>5, <2>1 DEF MachineOrInstallation, CopyDisk, machineVars
  <2>3. CASE Goto("release") /\ UNCHANGED image
    <3>1. request'.at = "release"
      BY <2>1, <2>3 DEF Goto, Importing
    <3>2. QED BY <2>2, <2>3, <3>1 DEF MachineOrInstallation, AllOfOneState
  <2>4. CASE /\ request' = Installing(request.bundle, request.root)
             /\ image' = [image EXCEPT ![request.root] = request.bundle.disk]
    <3>1. /\ request'.at = "install" /\ request'.next = 1
          /\ request'.root = request.root /\ request'.bundle = request.bundle
      BY <2>4 DEF Installing
    <3>2. request.root \in Images
      BY <1>1, <2>1 DEF Importing
    <3>3. image'[request.root] = request.bundle.disk
      BY <1>1, <2>4, <3>2
    <3>4. request'.next \in 1..4 /\ ~(request'.next > 1) /\ ~(request'.next > 2)
          /\ ~(request'.next > 3)
      BY <3>1
    <3>5. QED BY <3>1, <3>3, <3>4 DEF MachineOrInstallation
  <2>5. QED BY <1>5, <2>3, <2>4 DEF CopyDisk
<1>6. CASE ClearPart
  <2>1. request \in Installations /\ request.at = "install"
    BY <1>1, <1>6, StagesApart DEF ClearPart, At
  <2>2. /\ UNCHANGED <<request, image, liveDisk>>
        /\ parts' = [parts EXCEPT ![InstallOrder[request.next]] = Gone]
    BY <1>6 DEF ClearPart, files
  <2>3. request.next \in 1..4
    BY <1>1, <2>1 DEF MachineOrInstallation
  <2>4. \A p \in Components : p # InstallOrder[request.next] => parts'[p] = parts[p]
    BY <1>1, <2>2 DEF MachineType
  <2>5. /\ request.next > 1 => parts'["keyboard"] = parts["keyboard"]
        /\ request.next > 2 => parts'["video"] = parts["video"]
        /\ request.next > 3 => parts'["xtide"] = parts["xtide"]
    <3>1. CASE request.next = 1 BY <3>1
    <3>2. CASE request.next = 2 BY <2>4, <3>2, Orders, ComponentNames
    <3>3. CASE request.next = 3 BY <2>4, <3>3, Orders, ComponentNames
    <3>4. CASE request.next = 4 BY <2>4, <3>4, Orders, ComponentNames
    <3>5. QED BY <2>3, <3>1, <3>2, <3>3, <3>4
  <2>6. QED BY <1>1, <2>1, <2>2, <2>5 DEF MachineOrInstallation
<1>7. CASE FillPart
  <2> DEFINE p == InstallOrder[request.next]
             s == request.bundle.state
  <2>1. request \in Installations /\ request.at = "install"
    BY <1>1, <1>7, StagesApart DEF FillPart, At
  <2>2. /\ UNCHANGED <<image, diskOf>>
        /\ parts' = [parts EXCEPT ![p] = s]
        /\ liveDisk' = IF p = "xtide" THEN request.root ELSE liveDisk
        /\ request' = [request EXCEPT !.next = request.next + 1,
                         !.at = IF request.next = 4 THEN "release" ELSE request.at]
    BY <1>7, Orders DEF FillPart, files
  <2>3. request.next \in 1..4 /\ image[request.root] = request.bundle.disk
    BY <1>1, <2>1 DEF MachineOrInstallation
  <2>4. /\ request'.next = request.next + 1
        /\ request'.at = (IF request.next = 4 THEN "release" ELSE "install")
        /\ request'.root = request.root /\ request'.bundle = request.bundle
    <3> DEFINE place == IF request.next = 4 THEN "release" ELSE request.at
               next == request.next + 1
    <3>1. request' = [request EXCEPT !.next = next, !.at = place]
      BY <2>2
    <3> HIDE DEF place, next
    <3>2. /\ request'.next = next /\ request'.at = place
          /\ request'.root = request.root /\ request'.bundle = request.bundle
      BY <2>1, <3>1 DEF Installations
    <3>3. QED BY <2>1, <3>2 DEF place, next
  <2>5. \A q \in Components : parts'[q] = IF q = p THEN s ELSE parts[q]
    BY <1>1, <2>2 DEF MachineType
  <2>6. CASE request.next = 1
    <3>1. p = "keyboard" /\ request'.next = 2 /\ request'.at = "install"
      BY <2>4, <2>6, Orders
    <3>2. parts'["keyboard"] = s
      BY <2>5, <3>1, ComponentNames
    <3>3. request'.next \in 1..4 /\ ~(request'.next > 2) /\ ~(request'.next > 3)
      BY <3>1
    <3>4. QED BY <2>2, <2>3, <2>4, <3>1, <3>2, <3>3 DEF MachineOrInstallation
  <2>7. CASE request.next = 2
    <3>1. p = "video" /\ request'.next = 3 /\ request'.at = "install"
      BY <2>4, <2>7, Orders
    <3>2. parts["keyboard"] = s
      BY <1>1, <2>1, <2>7 DEF MachineOrInstallation
    <3>3. parts'["video"] = s /\ parts'["keyboard"] = s
      BY <2>5, <3>1, <3>2, ComponentNames
    <3>4. request'.next \in 1..4 /\ ~(request'.next > 3)
      BY <3>1
    <3>5. QED BY <2>2, <2>3, <2>4, <3>1, <3>3, <3>4 DEF MachineOrInstallation
  <2>8. CASE request.next = 3
    <3>1. p = "xtide" /\ request'.next = 4 /\ request'.at = "install"
      BY <2>4, <2>8, Orders
    <3>2. parts["keyboard"] = s /\ parts["video"] = s
      BY <1>1, <2>1, <2>8 DEF MachineOrInstallation
    <3>3. parts'["xtide"] = s /\ parts'["video"] = s /\ parts'["keyboard"] = s
          /\ liveDisk' = request.root
      BY <2>2, <2>5, <3>1, <3>2, ComponentNames
    <3>4. request'.next \in 1..4
      BY <3>1
    <3>5. QED BY <2>2, <2>3, <2>4, <3>1, <3>3, <3>4 DEF MachineOrInstallation
  <2>9. CASE request.next = 4
    <3>1. p = "cpu" /\ request'.at = "release"
      BY <2>4, <2>9, Orders
    <3>2. parts["keyboard"] = s /\ parts["video"] = s /\ parts["xtide"] = s
          /\ liveDisk = request.root
      BY <1>1, <2>1, <2>9 DEF MachineOrInstallation
    <3>3. \A q \in Components : parts'[q] = s
      BY <2>5, <3>1, <3>2, ComponentNames
    <3>4. request.bundle \in Whole /\ Genuine(request.bundle)
      BY <2>1 DEF CheckpointInv, BundlesGenuine, Installations
    <3>5. s # Gone /\ request.bundle.disk = diskOf[s]
      BY <3>4, CheckpointAssumption DEF Genuine, Whole
    <3>6. liveDisk' = request.root
      BY <2>2, <3>1, <3>2
    <3>7. image'[liveDisk'] = diskOf'[parts'["cpu"]]
      BY <2>2, <2>3, <3>3, <3>5, <3>6, ComponentNames
    <3>8. AllOfOneState'
      BY <3>3, <3>5, <3>7, ComponentNames DEF AllOfOneState
    <3>9. QED BY <3>1, <3>8 DEF MachineOrInstallation
  <2>10. QED BY <2>3, <2>6, <2>7, <2>8, <2>9
<1>8. CASE UNCHANGED <<image, parts, liveDisk, diskOf>>
  <2>1. CASE request' = request
    BY <1>1, <1>8, <2>1 DEF MachineOrInstallation, AllOfOneState
  <2>2. CASE request' # request /\ ~MakeRoot /\ ~CopyDisk /\ ~FillPart /\ ~Restart
    <3>1. request'.at \notin {"copy disk", "install"} /\ request.at # "install"
      BY <1>1, <2>2, Entered, Left
    <3>2. AllOfOneState'
      BY <1>1, <1>8, <3>1 DEF MachineOrInstallation, AllOfOneState
    <3>3. QED BY <3>1, <3>2 DEF MachineOrInstallation
  <2>3. QED BY <1>2, <1>4, <1>5, <1>7, <2>1, <2>2
<1>9. QED
  BY <1>2, <1>3, <1>4, <1>5, <1>6, <1>7, <1>8, MachineWriters, ImageWriters

-----------------------------------------------------------------------------
(* The invariant, and what it is for. *)

LEMMA InvAtStart == CheckpointInit => CheckpointInv
<1> SUFFICES ASSUME CheckpointInit PROVE CheckpointInv
  OBVIOUS
<1> USE CheckpointAssumption
<1>1. request = Idle /\ request.at = "none"
  BY DEF CheckpointInit, Idle
<1>2. request \in Requests
  BY <1>1 DEF Requests
<1>3. FilesType
  BY DEF CheckpointInit, FilesType, Contents, Images
<1>4. 0 \in 0..MaxFresh /\ Boot \in Images
  BY DEF Images
<1>5. /\ fresh = 0 /\ image[Boot] = 0 /\ liveDisk = Boot
      /\ \A p \in Components : parts[p] = 0
      /\ \A n \in 0..MaxFresh : diskOf[n] = 0
  BY <1>4 DEF CheckpointInit
<1>6. MachineType
  BY <1>4, <1>5 DEF CheckpointInit, MachineType
<1>7. ThreadsType
  BY DEF CheckpointInit, ThreadsType
<1>8. \A t \in Threads : thread[t] \in {"absent", "away"}
  BY DEF CheckpointInit
<1>9. LocksHeld
  BY <1>1, <1>8 DEF LocksHeld, Working, Threads
<1>10. request \notin Exporting \cup Importing \cup Installations
  BY <1>1, WithBundle
<1>11. BundlesGenuine
  BY <1>10 DEF CheckpointInit, BundlesGenuine, Genuine
<1>12. Publishing
  BY <1>1 DEF CheckpointInit, Publishing
<1>13. AllOfOneState
  BY <1>4, <1>5, ComponentNames DEF AllOfOneState
<1>14. MachineOrInstallation
  BY <1>1, <1>13 DEF MachineOrInstallation
<1>15. QED
  BY <1>2, <1>3, <1>6, <1>7, <1>9, <1>11, <1>12, <1>14 DEF CheckpointInv

LEMMA CheckpointInvariant == CheckpointSpec => []CheckpointInv
<1>1. CheckpointInv /\ [CheckpointNext]_checkpointVars => CheckpointInv'
  BY FilesKept, MachineKept, ThreadsKept, RequestKept, LocksKept, BundlesStayGenuine,
     PublishingKept, MachineOrInstallationKept DEF CheckpointInv
<1>2. QED BY <1>1, InvAtStart, PTL DEF CheckpointSpec

\* Files, components, locks and the request have the types the other theorems
\* rest on: in particular the live image is never one that is missing or half
\* written, and the locks are only held by threads there are.
THEOREM CheckpointTypeCorrect ==
  CheckpointSpec => [](FilesType /\ MachineType /\ ThreadsType /\ request \in Requests)
<1>1. CheckpointInv => FilesType /\ MachineType /\ ThreadsType /\ request \in Requests
  BY DEF CheckpointInv
<1>2. QED BY <1>1, CheckpointInvariant, PTL

\* The machine and its disk are of one state at every step but those of an
\* installation, and during one no other thread uses a cleared component
\* (machinecodec.py:9-11, machineinstall.py:36-38, machinesnapshots.py:52).
THEOREM MachineIsOne == CheckpointSpec => []OneMachine
<1>1. ASSUME CheckpointInv PROVE OneMachine
  <2>1. /\ LocksHeld /\ request \in Requests
        /\ request.at = "install" \/ AllOfOneState
    BY <1>1 DEF CheckpointInv, MachineOrInstallation
  <2>2. ASSUME NEW p \in Components, parts[p] = Gone
        PROVE  request.at = "install"
    BY <2>1, <2>2 DEF AllOfOneState
  <2>3. request.at = "install" => lock["display"] = "emulator" /\ lock["state"] = "emulator"
    BY <2>1 DEF LocksHeld, Working
  <2>4. NeverTorn
    BY <2>1, <2>2, <2>3, ComponentNames DEF NeverTorn, LocksHeld
  <2>5. QED BY <2>1, <2>4 DEF OneMachine
<1>2. QED BY <1>1, CheckpointInvariant, PTL

\* A name never holds a part of an archive, and one that was acknowledged stays
\* there unless a host program touches it (checkpointbundle.py:45-73).
THEOREM ArchivesAreWhole == CheckpointSpec => []PublishedIsWhole
<1>1. ASSUME CheckpointInv PROVE PublishedIsWhole
  <2>1. Part \notin Contents
    BY CheckpointAssumption DEF Contents
  <2>2. QED BY <1>1, <2>1 DEF CheckpointInv, FilesType, Publishing, PublishedIsWhole
<1>2. QED BY <1>1, CheckpointInvariant, PTL

\* No step of the emulator changes an archive that is there, or an image other
\* than the one its guest runs on (checkpointbundle.py:56, diskcodec.py:251-257).
THEOREM NothingIsOverwritten == CheckpointSpec => FilesAreKept
<1> DEFINE Kept ==
      edits' = edits =>
        /\ \A x \in Names : archive[x] # Absent => archive'[x] = archive[x]
        /\ \A p \in Images : image[p] \notin {Absent, Part} =>
             image'[p] = image[p] \/ (p = liveDisk /\ request = Idle)
<1>1. ASSUME CheckpointInv, CheckpointNext \/ UNCHANGED checkpointVars PROVE Kept
  <2> SUFFICES ASSUME edits' = edits
               PROVE  /\ \A x \in Names : archive[x] # Absent => archive'[x] = archive[x]
                      /\ \A p \in Images : image[p] \notin {Absent, Part} =>
                           image'[p] = image[p] \/ (p = liveDisk /\ request = Idle)
    OBVIOUS
  <2>1. /\ edits \in Nat /\ request \in Requests /\ archive \in [Names -> Contents]
        /\ image \in [Images -> (0..MaxFresh) \cup {Absent, Part}]
        /\ MachineOrInstallation
    BY <1>1 DEF CheckpointInv, FilesType
  <2>2. ~EditImage /\ ~(\E x \in Names : \E c \in {Absent, Damaged} : EditArchive(x, c))
    BY <2>1 DEF EditImage, EditArchive
  <2>3. ASSUME NEW x \in Names, archive[x] # Absent PROVE archive'[x] = archive[x]
    <3>1. CASE Publish
      <4>1. request.name \in Names
        BY <2>1, <3>1, StagesApart DEF Publish, Exporting
      <4>2. QED BY <2>1, <2>3, <3>1, <4>1 DEF Publish
    <3>2. QED BY <1>1, <2>2, <3>1, ArchiveWriters
  <2>4. ASSUME NEW p \in Images, image[p] \notin {Absent, Part}
        PROVE  image'[p] = image[p] \/ (p = liveDisk /\ request = Idle)
    <3>1. CASE Run
      BY <2>1, <3>1 DEF Run
    <3>2. CASE MakeRoot
      <4>1. image' = image \/ (image[request.root] = Absent
                               /\ image' = [image EXCEPT ![request.root] = Part])
        BY <3>2 DEF MakeRoot
      <4>2. QED BY <2>1, <2>4, <4>1
    <3>3. CASE CopyDisk
      <4>1. image[request.root] = Part
        BY <2>1, <3>3 DEF MachineOrInstallation, CopyDisk, At
      <4>2. image' = image
            \/ image' = [image EXCEPT ![request.root] = request.bundle.disk]
        BY <3>3 DEF CopyDisk
      <4>3. QED BY <2>1, <2>4, <4>1, <4>2
    <3>4. QED BY <1>1, <2>2, <3>1, <3>2, <3>3, ImageWriters
  <2>5. QED BY <2>3, <2>4
<1>2. CheckpointInv /\ [CheckpointNext]_checkpointVars => Kept
  BY <1>1
<1>3. QED BY <1>2, CheckpointInvariant, PTL DEF CheckpointSpec, FilesAreKept
=============================================================================
