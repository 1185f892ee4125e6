------------------------------- MODULE Timing -------------------------------
(***************************************************************************)
(* i8253.py in front of i8237.py: the interval timer counts the cycles of  *)
(* the processor in whatever portions instructions take, asks for IRQ 0 by *)
(* counter 0, and lets the DMA controller refresh memory by counter 1.     *)
(*                                                                         *)
(* The guest programs both chips through byte-wide ports in any order.     *)
(* Left out: counter_prv, which only adds noise to reads that were not     *)
(* latched, and is_pending, which only a write returns.                    *)
(***************************************************************************)
EXTENDS Dma

CONSTANTS
  Counters,     \* 0..2 in the code
  Prescale,     \* processor cycles per cycle of the timer, 4 in the code
  None,         \* no count is latched
  Widths,       \* the access widths the guest chooses from
  Modes,        \* the modes it chooses from
  Portions,     \* the processor cycles one Tick may be told of
  MaxPit,       \* bound: accesses to the timer's ports other than latch commands
  MaxDma,       \* bound: accesses to the DMA controller's ports
  MaxAccesses   \* bound: accesses to both

Periodic == "periodic"   \* modes 2, 3, 6 and 7, binary
OneShot == "one shot"    \* mode 1
Other == "other"         \* the rest, and periodic modes in BCD

ASSUME TimingAssumption ==
  /\ Prescale \in Nat \ {0}
  /\ {0, 1} \subseteq Counters
  /\ Portions \subseteq Nat /\ MaxPit \in Nat /\ MaxDma \in Nat /\ MaxAccesses \in Nat
  /\ None \notin Nat
  /\ Widths \subseteq {"low", "high", "both"} /\ Modes \subseteq {Periodic, OneShot, Other}

VARIABLES
  timer,      \* _timers
  clock,      \* _clock: cycles left over
  accesses,   \* accesses to either chip so far
  taken,      \* history: the low byte read of the count that is latched
  irq         \* history: did the last step request IRQ 0?

pitVars == <<timer, clock, taken, irq>>
vars == <<dmaVars, pitVars, accesses>>

Init ==
  /\ DmaInit
  /\ timer = [i \in Counters |->
       [cur |-> 0, ini |-> 0, latched |-> None, mode |-> Other, access |-> "none",
        phase |-> 0, running |-> FALSE]]
  /\ clock = 0 /\ accesses = [pit |-> 0, dma |-> 0]
  /\ taken = [i \in Counters |-> None]
  /\ irq = FALSE

-----------------------------------------------------------------------------
(* Tick. *)

Divider(t) == IF t.ini = 0 THEN Word ELSE t.ini
Left(t) == IF t.cur = 0 THEN Divider(t) ELSE t.cur

\* Mutant: one event per Tick, however long it was.
EventsOnce(t, n) ==
  IF n = 0 \/ ~t.running THEN 0
  ELSE IF t.mode = Periodic THEN IF n < Left(t) THEN 0 ELSE 1
  ELSE IF n - t.cur < 0 THEN 0 ELSE (n - t.cur) \div Divider(t)

\* How often a counter expires in n cycles.  Modes that are not periodic keep
\* an approximation: they expire one divider after they have reached zero.
Events(t, n) ==
  IF n = 0 \/ ~t.running THEN 0
  ELSE IF t.mode = Periodic THEN IF n < Left(t) THEN 0 ELSE 1 + ((n - Left(t)) \div Divider(t))
  ELSE IF n - t.cur < 0 THEN 0 ELSE (n - t.cur) \div Divider(t)

\* Mutant: the cycles beyond the event are dropped.
CountLate(t, n) ==
  IF t.mode = Periodic
  THEN IF n < Left(t) THEN Left(t) - n ELSE t.ini
  ELSE IF Events(t, n) = 0 THEN t.cur - n
  ELSE IF t.mode = OneShot THEN (t.cur - n) % Word
  ELSE t.ini - ((n - t.cur) % Divider(t))

\* The count n cycles later.
Count(t, n) ==
  IF t.mode = Periodic
  THEN IF n < Left(t) THEN Left(t) - n
       ELSE (Divider(t) - ((n - Left(t)) % Divider(t))) % Word
  ELSE IF Events(t, n) = 0 THEN t.cur - n
  ELSE IF t.mode = OneShot THEN (t.cur - n) % Word
  ELSE t.ini - ((n - t.cur) % Divider(t))

Counted(t, n) == IF t.running /\ n > 0 THEN [t EXCEPT !.cur = Count(t, n)] ELSE t

Spent(cycles) == (clock + cycles) \div Prescale

Tick(cycles) ==
  LET n == Spent(cycles)
  IN  /\ clock' = (clock + cycles) % Prescale
      /\ timer' = [i \in Counters |-> Counted(timer[i], n)]
      /\ channel' = [channel EXCEPT ![0] = Requested(@, Events(timer[1], n))]
      /\ irq' = (Events(timer[0], n) > 0)
      /\ UNCHANGED <<high, enabled, taken, accesses>>

-----------------------------------------------------------------------------
(* IO_Write and IO_Read. *)

Width(access) == CASE access = "none" -> 0 [] access = "both" -> 2 [] OTHER -> 1

IsLow(t) == t.access = "low" \/ (t.access = "both" /\ t.phase = 2)
IsHigh(t) == t.access = "high" \/ (t.access = "both" /\ t.phase # 2)

\* LatchCounter: the last byte starts the counter.
WriteCounter(i, v) ==
  LET t == timer[i]
      ini == IF IsLow(t) THEN Put(t.ini, v, FALSE)
             ELSE IF IsHigh(t) THEN Put(t.ini, v, TRUE) ELSE t.ini
  IN  /\ timer' = [timer EXCEPT ![i] =
            IF t.phase = 0 THEN t
            ELSE IF t.phase = 1
            THEN [t EXCEPT !.ini = ini, !.phase = Width(t.access), !.cur = ini,
                           !.running = TRUE]
            ELSE [t EXCEPT !.ini = ini, !.phase = @ - 1]]
      /\ UNCHANGED taken

\* GetCounter: reads and writes share the byte phase; the last byte releases
\* the latched count.
ReadCounter(i) ==
  LET t == timer[i]
      phase == (t.phase - 1) % Word
  IN  /\ timer' = [timer EXCEPT ![i] =
            IF phase = 0 THEN [t EXCEPT !.phase = Width(t.access), !.latched = None]
            ELSE [t EXCEPT !.phase = phase]]
      /\ taken' = [taken EXCEPT ![i] =
            IF phase = 0 THEN None
            ELSE IF t.latched # None /\ IsLow(t) THEN t.latched % Byte
            ELSE @]

\* Mutant: a second latch command replaces the count that is held.
LatchAgain(i) ==
  /\ timer' = [timer EXCEPT ![i].latched =
        IF timer[i].access # "none" THEN timer[i].cur % Word ELSE @]
  /\ UNCHANGED taken

\* Command, RL = 00
Latch(i) ==
  /\ timer' = [timer EXCEPT ![i].latched =
        IF @ = None /\ timer[i].access # "none" THEN timer[i].cur % Word ELSE @]
  /\ UNCHANGED taken

\* Command: the mode and the width of a counter, which stops until it is loaded.
Command(i, access, mode) ==
  /\ timer' = [timer EXCEPT ![i] =
        [@ EXCEPT !.latched = None, !.mode = mode, !.access = access, !.running = FALSE,
                  !.ini = 0, !.phase = Width(access)]]
  /\ taken' = [taken EXCEPT ![i] = None]

PitProgram ==
  /\ \E i \in Counters :
       \/ \E v \in Bytes : WriteCounter(i, v)
       \/ ReadCounter(i)
       \/ \E access \in Widths, mode \in Modes :
            Command(i, access, mode)
  /\ UNCHANGED <<dmaVars, clock>>

Program ==
  /\ accesses.pit < MaxPit /\ accesses.pit + accesses.dma < MaxAccesses
  /\ accesses' = [accesses EXCEPT !.pit = @ + 1]
  /\ PitProgram
  /\ irq' = FALSE

\* Latch commands need no bound.
Hold(i) ==
  /\ Latch(i)
  /\ irq' = FALSE
  /\ UNCHANGED <<dmaVars, clock, accesses>>

Configure ==
  /\ accesses.dma < MaxDma /\ accesses.pit + accesses.dma < MaxAccesses
  /\ accesses' = [accesses EXCEPT !.dma = @ + 1]
  /\ DmaProgram
  /\ irq' = FALSE
  /\ UNCHANGED <<timer, clock, taken>>

Device(c) == Transfer(c) /\ irq' = FALSE /\ UNCHANGED <<timer, clock, taken, accesses>>

Next ==
  \/ Program
  \/ Configure
  \/ \E i \in Counters : Hold(i)
  \/ \E cycles \in Portions : Tick(cycles)
  \/ \E c \in Channels : Device(c)

Spec == Init /\ [][Next]_vars

-----------------------------------------------------------------------------
(* One cycle of a periodic counter and one DMA request at a time. *)

OneCycle(t) == [t EXCEPT !.cur = IF Left(t) = 1 THEN t.ini ELSE Left(t) - 1]

OneRequest(r) ==
  IF r.mask THEN r
  ELSE IF r.count > 0 THEN [r EXCEPT !.address = Moved(r, @, 1), !.count = @ - 1]
  ELSE IF r.auto
  THEN [r EXCEPT !.address = r.baseAddress, !.count = r.baseCount, !.tc = TRUE]
  ELSE [r EXCEPT !.address = Moved(r, @, 1), !.count = Word - 1, !.tc = TRUE, !.mask = TRUE]

CycleByCycle(t, n) ==
  LET after[k \in 0..n] ==
        IF k = 0 THEN [timer |-> t, events |-> 0]
        ELSE [timer |-> OneCycle(after[k - 1].timer),
              events |-> after[k - 1].events + IF Left(after[k - 1].timer) = 1 THEN 1 ELSE 0]
  IN  after

OneByOne(r, n) ==
  LET after[k \in 0..n] == IF k = 0 THEN r ELSE OneRequest(after[k - 1])
  IN  after

Cycles(t, n) == CycleByCycle(t, n)[n]
Requests(r, n) == OneByOne(r, n)[n]

-----------------------------------------------------------------------------
(* Properties *)

Timers ==
  [cur : (1 - Word)..(Word - 1), ini : Words, latched : Words \cup {None},
   mode : {Periodic, OneShot, Other}, access : {"none", "low", "high", "both"},
   phase : Words, running : BOOLEAN]

\* The byte phase of a programmed counter, and the range of a periodic one.
InPhase(t) ==
  /\ t.access # "none" => t.phase \in 1..Width(t.access)
  /\ t.running /\ t.mode = Periodic => t.cur \in Words

TypeOK ==
  /\ DmaTypeOK
  /\ timer \in [Counters -> Timers]
  /\ \A i \in Counters : InPhase(timer[i])
  /\ clock \in 0..Prescale - 1
  /\ taken \in [Counters -> Bytes \cup {None}]
  /\ irq \in BOOLEAN

\* However the processor's cycles are cut into Ticks (i8253.py:222-236), a
\* periodic counter stands where counting single cycles would have brought it,
\* and has expired as often: no period is lost or counted twice, the other
\* divider of a counter that is being reloaded included.
PeriodsExact ==
  [][\A cycles \in Portions : Tick(cycles) /\ Spent(cycles) > 0 =>
       /\ \A i \in Counters :
            timer[i].running /\ timer[i].mode = Periodic =>
              timer'[i] = Cycles(timer[i], Spent(cycles)).timer
       /\ timer[0].running /\ timer[0].mode = Periodic =>
              irq' = (Cycles(timer[0], Spent(cycles)).events > 0)]_vars

\* "The batched refresh path must match individual transfers, including
\* multiple auto-initialize periods" (i8237.py:88-89), terminal count and the
\* mask it sets in the middle of a batch included.
RefreshExact ==
  [][\A cycles \in Portions :
       (Tick(cycles) /\ Spent(cycles) > 0 /\ timer[1].running /\ timer[1].mode = Periodic) =>
         channel'[0] = IF enabled
                       THEN Requests(channel[0], Cycles(timer[1], Spent(cycles)).events)
                       ELSE channel[0]]_vars

\* "A pending snapshot is held until its entire programmed read"
\* (i8253.py:176-177): while the guest has read the low byte of a latched
\* count, the count it will take the high byte from is the same, although the
\* counter goes on, is latched again, or is written to in between.
LatchHeld ==
  \A i \in Counters :
    taken[i] # None => timer[i].latched # None /\ taken[i] = timer[i].latched % Byte
=============================================================================
