---------------------------- MODULE KeyboardProofs ----------------------------
(* Proofs about Pic.tla, for any number of request lines, and about           *)
(* Keyboard.tla, which composes it, for any host threads, delay and bounds.   *)
EXTENDS Keyboard, TLAPS, SequenceTheorems, WellFoundedInduction

-----------------------------------------------------------------------------
(* The controller. *)

\* Every nonempty set of levels has a highest priority, so the scan of
\* _highest_in_service (i8259.py:55-60) finds what Highest chooses.
LEMMA HighestIsLeast ==
  ASSUME NEW S \in SUBSET Levels, S # {}
  PROVE  Highest(S) \in S /\ \A k \in S : Highest(S) <= k
<1>1. S \subseteq Nat
  BY PicAssumption DEF Levels
<1>2. PICK x \in S : \A y \in S : <<y, x>> \notin OpToRel(<, Nat)
  BY <1>1, NatLessThanWellFounded, WFMin
<1>3. \A y \in S : x <= y
  <2> SUFFICES ASSUME NEW y \in S PROVE x <= y
    OBVIOUS
  <2>1. ~(y < x)
    BY <1>1, <1>2 DEF OpToRel
  <2>2. x \in Nat /\ y \in Nat
    BY <1>1
  <2>3. QED BY <2>1, <2>2
<1>4. QED BY <1>3 DEF Highest

LEMMA HighestType ==
  ASSUME NEW S \in SUBSET Levels
  PROVE  Highest(S) \in Levels \cup {-1}
<1>1. CASE S = {} BY <1>1 DEF Highest
<1>2. CASE S # {} BY <1>2, HighestIsLeast
<1>3. QED BY <1>1, <1>2

-----------------------------------------------------------------------------
LEMMA PicTypeKept ==
  ASSUME PicTypeOK, [PicNext]_picVars
  PROVE  PicTypeOK'
<1> USE DEF PicTypeOK, icwVars
<1>1. ASSUME NEW l \in Levels, Request(l) PROVE PicTypeOK'
  BY <1>1 DEF Request
<1>2. ASSUME NEW l \in Levels, Acknowledge(l) PROVE PicTypeOK'
  <2>1. isr' \in SUBSET Levels
    BY <1>2 DEF Acknowledge
  <2>2. inService' \in Levels \cup {-1}
    BY <1>2, <2>1, HighestType DEF Acknowledge
  <2>3. QED BY <1>2, <2>1, <2>2 DEF Acknowledge
<1>3. ASSUME NEW slave \in BOOLEAN, NEW icw4 \in BOOLEAN, WriteIcw1(slave, icw4)
      PROVE PicTypeOK'
  BY <1>3 DEF WriteIcw1
<1>4. ASSUME NEW specific \in BOOLEAN, NEW l \in Levels, WriteEoi(specific, l)
      PROVE PicTypeOK'
  <2>1. isr' \in SUBSET Levels
    BY <1>4 DEF WriteEoi
  <2>2. inService' \in Levels \cup {-1}
    BY <1>4, <2>1, HighestType DEF WriteEoi
  <2>3. QED BY <1>4, <2>1, <2>2 DEF WriteEoi
<1>5. ASSUME NEW rr \in BOOLEAN, NEW ris \in BOOLEAN, WriteOcw3(rr, ris)
      PROVE PicTypeOK'
  BY <1>5 DEF WriteOcw3
<1>6. CASE WriteIcw2 BY <1>6 DEF WriteIcw2
<1>7. CASE WriteIcw3 BY <1>7 DEF WriteIcw3
<1>8. ASSUME NEW aeoi \in BOOLEAN, WriteIcw4(aeoi) PROVE PicTypeOK'
  BY <1>8 DEF WriteIcw4
<1>9. ASSUME NEW mask \in SUBSET Levels, WriteMask(mask) PROVE PicTypeOK'
  BY <1>9 DEF WriteMask
<1>10. CASE UNCHANGED picVars BY <1>10 DEF picVars
<1>11. QED
  BY <1>1, <1>2, <1>3, <1>4, <1>5, <1>6, <1>7, <1>8, <1>9, <1>10
     DEF PicNext, PicProgram

\* Type correctness of the interrupt controller, under every order of commands.
THEOREM PicTypeCorrect == PicSpec => []PicTypeOK
<1>1. PicInit => PicTypeOK
  BY DEF PicInit, PicTypeOK
<1>2. PicTypeOK /\ [PicNext]_picVars => PicTypeOK'
  BY PicTypeKept
<1>3. QED BY <1>1, <1>2, PTL DEF PicSpec

-----------------------------------------------------------------------------
(* Who interrupted whom decides which level is innermost, and a strictly     *)
(* nested order makes that the highest level in service.                     *)

Nested ==
  /\ \A k, l \in isr : <<k, l>> \in interrupted => l < k
  /\ \A k, l \in isr : k # l => <<k, l>> \in interrupted \/ <<l, k>> \in interrupted
  /\ interrupted \subseteq isr \X isr

NestInv == Nested /\ inService = Highest(isr)

LEMMA InnermostIsHighest ==
  ASSUME PicTypeOK, Nested
  PROVE  Highest(isr) = Innermost
<1>1. CASE isr = {} BY <1>1 DEF Highest, Innermost
<1>2. CASE isr # {}
  <2> DEFINE h == Highest(isr)
             IsInner(l) == \A k \in isr \ {l} : <<k, l>> \in interrupted
  <2>1. h \in isr /\ \A k \in isr : h <= k
    BY <1>2, HighestIsLeast DEF PicTypeOK
  <2>2. isr \subseteq Int
    BY PicAssumption DEF PicTypeOK, Levels
  <2> HIDE DEF h
  <2>3. IsInner(h)
    <3> SUFFICES ASSUME NEW k \in isr \ {h} PROVE <<k, h>> \in interrupted
      OBVIOUS
    <3>1. ~(k < h)
      BY <2>1, <2>2
    <3>2. <<h, k>> \notin interrupted
      BY <2>1, <3>1 DEF Nested
    <3>3. QED BY <2>1, <3>2 DEF Nested
  <2>4. ASSUME NEW l \in isr, IsInner(l) PROVE l = h
    <3> SUFFICES ASSUME l # h PROVE FALSE
      OBVIOUS
    <3>1. <<h, l>> \in interrupted
      BY <2>1, <2>4
    <3>2. l < h
      BY <2>1, <3>1 DEF Nested
    <3>3. QED BY <2>1, <2>2, <3>2
  <2>5. Innermost = CHOOSE l \in isr : IsInner(l)
    BY <1>2 DEF Innermost
  <2>6. QED BY <2>1, <2>3, <2>4, <2>5 DEF h
<1>3. QED BY <1>1, <1>2

\* The controller stays fully nested for any number of lines and any program:
\* a handler is interrupted only by a strictly higher level, and inService, the
\* level a non-specific EOI ends, is the one acknowledged last.
THEOREM PicFullyNested == PicSpec => []FullyNested
<1>1. PicInit => NestInv
  BY DEF PicInit, NestInv, Nested, Highest
<1>2. PicTypeOK /\ NestInv /\ [PicNext]_picVars => NestInv'
  <2> SUFFICES ASSUME PicTypeOK, NestInv, [PicNext]_picVars PROVE NestInv'
    OBVIOUS
  <2> USE DEF NestInv, Nested
  <2>1. ASSUME NEW l \in Levels, Acknowledge(l) PROVE NestInv'
    <3>1. \A k \in isr : l < k
      <4> SUFFICES ASSUME NEW k \in isr PROVE l < k
        OBVIOUS
      <4>1. l \in Nat /\ k \in Nat
        BY PicAssumption DEF PicTypeOK, Levels
      <4>2. k \notin 0..l
        BY <2>1 DEF Acknowledge, Pending
      <4>3. QED BY <4>1, <4>2
    <3>2. l \notin isr
      BY <3>1 DEF PicTypeOK, Levels
    <3>3. CASE autoEoi
      BY <2>1, <3>3 DEF Acknowledge
    <3>4. CASE ~autoEoi
      <4>1. isr' = isr \cup {l} /\ interrupted' = interrupted \cup (isr \X {l})
        BY <2>1, <3>4 DEF Acknowledge
      <4>2. \A j, k \in isr' : <<j, k>> \in interrupted' => k < j
        BY <3>1, <3>2, <4>1
      <4>3. \A j, k \in isr' : j # k => <<j, k>> \in interrupted' \/ <<k, j>> \in interrupted'
        BY <4>1
      <4>4. interrupted' \subseteq isr' \X isr'
        BY <4>1
      <4>5. QED BY <2>1, <4>2, <4>3, <4>4 DEF Acknowledge
    <3>5. QED BY <3>3, <3>4
  <2>2. ASSUME NEW slave \in BOOLEAN, NEW icw4 \in BOOLEAN, WriteIcw1(slave, icw4)
        PROVE NestInv'
    BY <2>2 DEF WriteIcw1, Highest
  <2>3. ASSUME NEW specific \in BOOLEAN, NEW l \in Levels, WriteEoi(specific, l)
        PROVE NestInv'
    BY <2>3 DEF WriteEoi
  <2>4. CASE UNCHANGED <<isr, interrupted, inService>>
    BY <2>4 DEF Highest
  <2>5. QED
    BY <2>1, <2>2, <2>3, <2>4
       DEF PicNext, PicProgram, picVars, icwVars, Request, WriteOcw3, WriteIcw2,
           WriteIcw3, WriteIcw4, WriteMask
<1>3. PicTypeOK /\ NestInv => FullyNested
  BY InnermostIsHighest DEF NestInv, Nested, FullyNested
<1>4. QED BY <1>1, <1>2, <1>3, PicTypeCorrect, PTL DEF PicSpec

-----------------------------------------------------------------------------
\* Automatic EOI and the words the data port waits for are the announced ones.
THEOREM PicAutoEoiAnnounced == PicSpec => []AutoEoiIsAnnounced
<1> USE DEF AutoEoiIsAnnounced
<1>1. PicInit => AutoEoiIsAnnounced
  BY DEF PicInit
<1>2. AutoEoiIsAnnounced /\ [PicNext]_picVars => AutoEoiIsAnnounced'
  BY DEF PicNext, PicProgram, picVars, icwVars, Request, Acknowledge, WriteIcw1,
         WriteEoi, WriteOcw3, WriteIcw2, WriteIcw3, WriteIcw4, WriteMask
<1>3. QED BY <1>1, <1>2, PTL DEF PicSpec

\* No EOI, mask or repeated request consumes a pending request.
THEOREM PicRequestsKept == PicSpec => RequestsKept
<1>1. [PicNext]_picVars
        => [\A l \in irr \ irr' : l \in Pending \/ init' = "icw2"]_picVars
  BY DEF PicNext, PicProgram, picVars, icwVars, Request, Acknowledge, WriteIcw1,
         WriteEoi, WriteOcw3, WriteIcw2, WriteIcw3, WriteIcw4, WriteMask
<1>2. QED BY <1>1, PTL DEF PicSpec, RequestsKept

-----------------------------------------------------------------------------
(* The keyboard, the timer and the guest's handlers. *)

Places == {"entered", "read", "held", "released", "ended"}
HandlerFrames == [level : {0, 1}, at : Places]

\* TypeOK without the controller, and with what a frame is; only the timer and
\* the keyboard request anything here.
KeyboardType ==
  /\ irr \subseteq {0, 1} /\ autoEoi = FALSE
  /\ buffer \in Seq(1..MaxCodes) /\ schedule \in Seq(1..Delay)
  /\ pending \in BOOLEAN /\ clear \in BOOLEAN /\ clockLow \in BOOLEAN
  /\ lock \in Hosts \cup {NoOne}
  /\ made \in 0..MaxCodes /\ dropped \in Nat
  /\ cpu \in {"instruction", "tick", "locked"}
  /\ frames \in Seq(HandlerFrames)
  /\ enabled \in BOOLEAN /\ timer \in 0..MaxTimer

\* Codes that wait and codes that were dropped are different ones.
CodesCounted == Len(buffer) + dropped <= made

Announced == lock = NoOne /\ schedule # <<>> => pending

\* The handlers that have not ended yet are those of the levels in service, and
\* an inner one has a strictly higher priority.
Active == {i \in DOMAIN frames : frames[i].at # "ended"}

HandlersNest ==
  /\ isr = {frames[i].level : i \in Active}
  /\ \A i, j \in Active : i < j => frames[j].level < frames[i].level

KeyboardInv ==
  /\ PicTypeOK /\ KeyboardType
  /\ CodesCounted /\ Announced /\ HandlersNest
  /\ EveryIrqHasItsCode

-----------------------------------------------------------------------------
(* What a step does to the controller, and to the guest's handlers. *)

LEMMA LinesThere == 0 \in Levels /\ 1 \in Levels /\ 0 \in Wired /\ 1 \in Wired
BY KeyboardAssumption, PicAssumption

LEMMA PicSteps ==
  ASSUME Next
  PROVE  \/ UNCHANGED picVars
         \/ \E mask \in SUBSET Levels : SetMask(mask)
         \/ \E l \in Levels : Interrupt(l)
         \/ EndOfInterrupt \/ TickTimer \/ TickCounts
BY DEF Next, Emulator, Guest, PushCode, PushFinish, Idle, AllowNesting, ReadCode,
       HoldKeyboard, ReleaseKeyboard, ResetKeyboard, Return, TickLooks

\* Every step of the machine is one the interrupt controller allows.
LEMMA PicAllows == [Next]_vars => [PicNext]_picVars
<1> SUFFICES ASSUME [Next]_vars PROVE [PicNext]_picVars
  OBVIOUS
<1>1. CASE UNCHANGED picVars
  BY <1>1
<1>2. ASSUME NEW mask \in SUBSET Levels, SetMask(mask) PROVE PicNext
  BY <1>2 DEF SetMask, PicNext, PicProgram
<1>3. ASSUME NEW l \in Levels, Interrupt(l) PROVE PicNext
  BY <1>3 DEF Interrupt, PicNext
<1>4. CASE EndOfInterrupt
  <2>1. WriteEoi(FALSE, 0) /\ FALSE \in BOOLEAN /\ 0 \in Levels
    BY <1>4, LinesThere DEF EndOfInterrupt
  <2>2. QED BY <2>1 DEF PicNext, PicProgram
<1>5. CASE TickTimer
  BY <1>5, LinesThere DEF TickTimer, PicNext
<1>6. CASE TickCounts
  <2>1. Request(1) \/ UNCHANGED picVars
    BY <1>6 DEF TickCounts
  <2>2. QED BY <2>1, LinesThere DEF PicNext
<1>7. CASE UNCHANGED vars
  BY <1>7 DEF vars
<1>8. QED BY <1>1, <1>2, <1>3, <1>4, <1>5, <1>6, <1>7, PicSteps

LEMMA FrameSteps ==
  ASSUME Next
  PROVE  \/ UNCHANGED frames
         \/ \E l \in Levels : Interrupt(l)
         \/ ReadCode \/ HoldKeyboard \/ ReleaseKeyboard \/ EndOfInterrupt \/ Return
BY DEF Next, Emulator, Guest, PushCode, PushFinish, Idle, SetMask, AllowNesting,
       ResetKeyboard, TickTimer, TickLooks, TickCounts, kbVars, guestVars

\* The innermost handler goes on; the others stay where they are.
LEMMA WentOn ==
  ASSUME frames \in Seq(HandlerFrames), frames # <<>>, NEW at \in Places, GoOn(at)
  PROVE  /\ frames' \in Seq(HandlerFrames)
         /\ Len(frames') = Len(frames) /\ DOMAIN frames' = DOMAIN frames
         /\ Len(frames) \in DOMAIN frames
         /\ Top \in HandlerFrames /\ Top = frames[Len(frames)]
         /\ frames'[Len(frames)] = [level |-> Top.level, at |-> at]
         /\ \A i \in DOMAIN frames : i # Len(frames) => frames'[i] = frames[i]
         /\ \A i \in DOMAIN frames : frames'[i].level = frames[i].level
<1> DEFINE n == Len(frames)
<1>1. n \in Nat \ {0} /\ DOMAIN frames = 1..n /\ frames \in [1..n -> HandlerFrames]
  BY EmptySeq, LenProperties
<1>2. n \in 1..n /\ frames[n] \in HandlerFrames
  BY <1>1
<1>3. frames' = [frames EXCEPT ![n] = [frames[n] EXCEPT !.at = at]]
  BY DEF GoOn
<1>4. [frames[n] EXCEPT !.at = at] = [level |-> frames[n].level, at |-> at]
  BY <1>2 DEF HandlerFrames
<1>5. [level |-> frames[n].level, at |-> at] \in HandlerFrames
  BY <1>2 DEF HandlerFrames
<1>6. frames' \in Seq(HandlerFrames) /\ Len(frames') = n
      /\ \A i \in 1..n : frames'[i] = IF i = n THEN [level |-> frames[n].level, at |-> at]
                                               ELSE frames[i]
  BY <1>2, <1>3, <1>4, <1>5, ExceptSeq
<1>7. \A i \in 1..n : frames'[i].level = frames[i].level
  BY <1>6
<1>8. Top = frames[n]
  BY DEF Top
<1>9. frames'[n] = [level |-> Top.level, at |-> at]
  BY <1>2, <1>6, <1>8
<1>10. DOMAIN frames' = 1..n
  BY <1>6, LenProperties
<1>11. QED BY <1>1, <1>2, <1>6, <1>7, <1>8, <1>9, <1>10

LEMMA Entered ==
  ASSUME frames \in Seq(HandlerFrames), NEW f \in HandlerFrames,
         frames' = Append(frames, f)
  PROVE  /\ frames' \in Seq(HandlerFrames)
         /\ Len(frames) \in Nat /\ DOMAIN frames = 1..Len(frames)
         /\ DOMAIN frames' = DOMAIN frames \cup {Len(frames) + 1}
         /\ Len(frames) + 1 \notin DOMAIN frames
         /\ frames'[Len(frames) + 1] = f
         /\ \A i \in DOMAIN frames : frames'[i] = frames[i]
<1>1. Len(frames) \in Nat /\ DOMAIN frames = 1..Len(frames)
  BY LenProperties
<1>2. /\ frames' \in Seq(HandlerFrames) /\ Len(frames') = Len(frames) + 1
      /\ \A i \in 1..Len(frames) : frames'[i] = frames[i]
      /\ frames'[Len(frames) + 1] = f
  BY AppendProperties
<1>3. DOMAIN frames' = 1..Len(frames) + 1
  BY <1>2, LenProperties
<1>4. QED BY <1>1, <1>2, <1>3

LEMMA Returned ==
  ASSUME frames \in Seq(HandlerFrames), frames # <<>>,
         frames' = SubSeq(frames, 1, Len(frames) - 1)
  PROVE  /\ frames' \in Seq(HandlerFrames)
         /\ Len(frames) \in DOMAIN frames
         /\ DOMAIN frames' = DOMAIN frames \ {Len(frames)}
         /\ \A i \in DOMAIN frames' : frames'[i] = frames[i]
<1> DEFINE n == Len(frames)
<1>1. n \in Nat \ {0} /\ DOMAIN frames = 1..n /\ frames \in [1..n -> HandlerFrames]
  BY EmptySeq, LenProperties
<1>2. \A i \in 1..n - 1 : frames[i] \in HandlerFrames
  BY <1>1
<1>3. /\ frames' \in Seq(HandlerFrames)
      /\ Len(frames') = IF 1 <= n - 1 THEN n - 1 - 1 + 1 ELSE 0
      /\ \A i \in 1..n - 1 - 1 + 1 : frames'[i] = frames[1 + i - 1]
  BY <1>1, <1>2, SubSeqProperties
<1>4. Len(frames') = n - 1 /\ \A i \in 1..n - 1 : frames'[i] = frames[i]
  BY <1>1, <1>3
<1>5. DOMAIN frames' = 1..n - 1
  BY <1>3, <1>4, LenProperties
<1>6. QED BY <1>1, <1>3, <1>4, <1>5

-----------------------------------------------------------------------------
(* Handlers nest, as the levels in service do. *)

LEMMA LinesKept ==
  ASSUME KeyboardInv, [Next]_vars
  PROVE  irr' \subseteq {0, 1} /\ autoEoi' = FALSE
<1>1. irr \subseteq {0, 1} /\ autoEoi = FALSE
  BY DEF KeyboardInv, KeyboardType
<1>2. CASE UNCHANGED picVars
  BY <1>1, <1>2 DEF picVars
<1>3. ASSUME NEW mask \in SUBSET Levels, SetMask(mask) PROVE irr' = irr /\ autoEoi' = autoEoi
  BY <1>3 DEF SetMask, WriteMask
<1>4. ASSUME NEW l \in Levels, Interrupt(l) PROVE irr' \subseteq irr /\ autoEoi' = autoEoi
  BY <1>4 DEF Interrupt, Acknowledge
<1>5. CASE EndOfInterrupt
  BY <1>1, <1>5 DEF EndOfInterrupt, WriteEoi
<1>6. CASE TickTimer \/ TickCounts
  BY <1>1, <1>6 DEF TickTimer, TickCounts, Request, picVars
<1>7. CASE UNCHANGED vars
  BY <1>1, <1>7 DEF vars, picVars
<1>8. QED BY <1>1, <1>2, <1>3, <1>4, <1>5, <1>6, <1>7, PicSteps

LEMMA FramesKept ==
  ASSUME KeyboardInv, [Next]_vars
  PROVE  frames' \in Seq(HandlerFrames)
<1>1. frames \in Seq(HandlerFrames) /\ irr \subseteq {0, 1}
  BY DEF KeyboardInv, KeyboardType
<1>2. ASSUME NEW l \in Levels, Interrupt(l) PROVE frames' \in Seq(HandlerFrames)
  <2>1. l \in {0, 1} /\ frames' = Append(frames, [level |-> l, at |-> "entered"])
    BY <1>1, <1>2 DEF Interrupt, Acknowledge, Pending
  <2>2. [level |-> l, at |-> "entered"] \in HandlerFrames
    BY <2>1 DEF HandlerFrames, Places
  <2>3. QED BY <1>1, <2>1, <2>2, Entered
<1>3. CASE ReadCode \/ HoldKeyboard \/ ReleaseKeyboard \/ EndOfInterrupt
  <2>1. frames # <<>> /\ \E at \in Places : GoOn(at)
    BY <1>3 DEF ReadCode, HoldKeyboard, ReleaseKeyboard, EndOfInterrupt, Handler, Places
  <2>2. QED BY <1>1, <2>1, WentOn
<1>4. CASE Return
  BY <1>1, <1>4, Returned DEF Return
<1>5. CASE UNCHANGED frames
  BY <1>1, <1>5
<1>6. QED BY <1>2, <1>3, <1>4, <1>5, FrameSteps DEF vars, guestVars

\* The innermost handler, if it has not ended, is that of the highest level in
\* service, and no other one is of its level.
LEMMA InnermostHandler ==
  ASSUME KeyboardInv, frames # <<>>, Top.at # "ended"
  PROVE  /\ Len(frames) \in Active /\ Top.level \in isr
         /\ \A i \in Active : i # Len(frames) => Top.level < frames[i].level
         /\ Highest(isr) = Top.level
<1> DEFINE n == Len(frames)
<1>1. frames \in Seq(HandlerFrames) /\ HandlersNest /\ isr \subseteq Levels
  BY DEF KeyboardInv, KeyboardType, PicTypeOK
<1>2. n \in Nat \ {0} /\ DOMAIN frames = 1..n /\ Top = frames[n]
      /\ frames \in [1..n -> HandlerFrames]
  BY <1>1, EmptySeq, LenProperties DEF Top
<1>3. n \in Active /\ frames[n].level \in isr
  BY <1>1, <1>2 DEF Active, HandlersNest
<1>4. \A i \in Active : i # n => i < n
  BY <1>2 DEF Active
<1>5. \A i \in Active : i # n => frames[n].level < frames[i].level
  BY <1>1, <1>3, <1>4 DEF HandlersNest
<1>6. \A k \in isr : \E i \in Active : k = frames[i].level
  BY <1>1 DEF HandlersNest
<1>7. \A k \in isr : k \in Int
  BY <1>1, PicAssumption DEF Levels
<1>8. \A k \in isr : k = frames[n].level \/ frames[n].level < k
  BY <1>5, <1>6
<1>9. Highest(isr) \in isr /\ \A k \in isr : Highest(isr) <= k
  BY <1>1, <1>3, HighestIsLeast
<1>10. Highest(isr) = frames[n].level
  BY <1>3, <1>7, <1>8, <1>9
<1>11. QED BY <1>2, <1>3, <1>5, <1>10

LEMMA HandlersStayNested ==
  ASSUME KeyboardInv, [Next]_vars
  PROVE  HandlersNest'
<1>1. /\ frames \in Seq(HandlerFrames) /\ HandlersNest /\ isr \subseteq Levels
      /\ irr \subseteq {0, 1} /\ autoEoi = FALSE
  BY DEF KeyboardInv, KeyboardType, PicTypeOK
<1>2. ASSUME NEW l \in Levels, Interrupt(l) PROVE HandlersNest'
  <2> DEFINE f == [level |-> l, at |-> "entered"]
             n == Len(frames)
  <2>1. /\ l \in Pending /\ l \in {0, 1} /\ isr' = isr \cup {l}
        /\ frames' = Append(frames, f)
    BY <1>1, <1>2 DEF Interrupt, Acknowledge, Pending
  <2>2. f \in HandlerFrames
    BY <2>1 DEF HandlerFrames, Places
  <2>3. /\ n \in Nat /\ DOMAIN frames = 1..n /\ DOMAIN frames' = DOMAIN frames \cup {n + 1}
        /\ n + 1 \notin DOMAIN frames /\ frames'[n + 1] = f
        /\ \A i \in DOMAIN frames : frames'[i] = frames[i]
    BY <1>1, <2>1, <2>2, Entered
  <2>4. f.level = l /\ f.at # "ended"
    OBVIOUS
  <2>5. Active' = Active \cup {n + 1}
    BY <2>3, <2>4 DEF Active
  <2>6. \A i \in Active : i < n + 1 /\ frames'[i] = frames[i] /\ frames[i].level \in isr
    BY <1>1, <2>3 DEF Active, HandlersNest
  <2>7. \A k \in isr : l < k
    <3> SUFFICES ASSUME NEW k \in isr PROVE l < k
      OBVIOUS
    <3>1. k \in Nat
      BY <1>1, PicAssumption DEF Levels
    <3>2. k \notin 0..l
      BY <2>1 DEF Pending
    <3>3. QED BY <2>1, <3>1, <3>2
  <2>8. {frames'[i].level : i \in Active'} = isr \cup {l}
    <3>1. {frames'[i].level : i \in Active} = isr
      BY <1>1, <2>6 DEF HandlersNest
    <3>2. QED BY <2>3, <2>4, <2>5, <3>1
  <2>9. ASSUME NEW i \in Active', NEW j \in Active', i < j
        PROVE  frames'[j].level < frames'[i].level
    <3>1. i \in Active
      BY <2>3, <2>5, <2>6, <2>9 DEF Active
    <3>2. CASE j \in Active
      BY <1>1, <2>6, <2>9, <3>1, <3>2 DEF HandlersNest
    <3>3. CASE j = n + 1
      BY <2>3, <2>4, <2>6, <2>7, <3>1, <3>3
    <3>4. QED BY <2>5, <3>2, <3>3
  <2>10. QED BY <2>1, <2>8, <2>9 DEF HandlersNest
<1>3. CASE ReadCode \/ HoldKeyboard \/ ReleaseKeyboard
  <2>1. /\ isr' = isr /\ frames # <<>> /\ Top.at # "ended"
        /\ \E at \in Places \ {"ended"} : GoOn(at)
    <3>1. /\ isr' = isr /\ frames # <<>>
          /\ \E at \in Places \ {"ended"} : GoOn(at)
      BY <1>3 DEF ReadCode, HoldKeyboard, ReleaseKeyboard, Handler, Places, picVars
    <3>2. \E at \in {"entered", "read", "held"} : Top = [level |-> 1, at |-> at]
      BY <1>3 DEF ReadCode, HoldKeyboard, ReleaseKeyboard, Handler
    <3>3. Top.at # "ended"
      BY <3>2
    <3>4. QED BY <3>1, <3>3
  <2>2. PICK at \in Places \ {"ended"} : GoOn(at)
    BY <2>1
  <2>3. /\ DOMAIN frames' = DOMAIN frames
        /\ frames'[Len(frames)] = [level |-> Top.level, at |-> at]
        /\ \A i \in DOMAIN frames : i # Len(frames) => frames'[i] = frames[i]
        /\ \A i \in DOMAIN frames : frames'[i].level = frames[i].level
    BY <1>1, <2>1, <2>2, WentOn
  <2>4. frames'[Len(frames)].at = at /\ at # "ended"
    BY <2>2, <2>3
  <2>5. frames[Len(frames)].at # "ended"
    BY <2>1 DEF Top
  <2>6. Active' = Active
    BY <2>3, <2>4, <2>5 DEF Active
  <2>7. Active \subseteq DOMAIN frames
    BY DEF Active
  <2>8. {frames'[i].level : i \in Active'} = {frames[i].level : i \in Active}
    <3>1. \A i \in Active : frames'[i].level = frames[i].level
      BY <2>3, <2>7
    <3>2. QED BY <2>6, <3>1
  <2>9. \A i, j \in Active' : i < j => frames'[j].level < frames'[i].level
    BY <1>1, <2>3, <2>6, <2>7 DEF HandlersNest
  <2>10. QED BY <1>1, <2>1, <2>8, <2>9 DEF HandlersNest
<1>4. CASE EndOfInterrupt
  <2> DEFINE n == Len(frames)
  <2>1. /\ frames # <<>> /\ Top.at # "ended" /\ GoOn("ended") /\ "ended" \in Places
        /\ isr' = isr \ {Highest(isr)}
    BY <1>4 DEF EndOfInterrupt, Handler, WriteEoi, Places
  <2>2. /\ DOMAIN frames' = DOMAIN frames /\ n \in DOMAIN frames
        /\ frames'[n] = [level |-> Top.level, at |-> "ended"]
        /\ \A i \in DOMAIN frames : i # n => frames'[i] = frames[i]
    BY <1>1, <2>1, WentOn
  <2>3. frames'[n].at = "ended"
    BY <2>2
  <2>4. Active' = Active \ {n}
    BY <2>2, <2>3 DEF Active
  <2>5. Active \subseteq DOMAIN frames
    BY DEF Active
  <2>6. \A i \in Active' : frames'[i] = frames[i]
    BY <2>2, <2>4, <2>5
  <2>7. /\ n \in Active /\ Highest(isr) = Top.level /\ Top = frames[n]
        /\ \A i \in Active : i # n => Top.level < frames[i].level
    BY <2>1, InnermostHandler DEF Top
  <2>8. \A i \in Active : i # n => frames[i].level # Top.level
    <3> SUFFICES ASSUME NEW i \in Active, i # n PROVE frames[i].level # Top.level
      OBVIOUS
    <3>1. frames[i] \in HandlerFrames /\ Top \in HandlerFrames
      BY <1>1, <2>2, <2>5, <2>7, ElementOfSeq, LenProperties
    <3>2. frames[i].level \in {0, 1} /\ Top.level \in {0, 1}
      BY <3>1 DEF HandlerFrames
    <3>3. QED BY <2>7, <3>2
  <2>9. {frames'[i].level : i \in Active'} = isr \ {Top.level}
    <3>1. {frames'[i].level : i \in Active'} = {frames[i].level : i \in Active \ {n}}
      BY <2>4, <2>6
    <3>2. isr = {frames[i].level : i \in Active}
      BY <1>1 DEF HandlersNest
    <3>3. QED BY <2>7, <2>8, <3>1, <3>2
  <2>10. \A i, j \in Active' : i < j => frames'[j].level < frames'[i].level
    BY <1>1, <2>4, <2>6 DEF HandlersNest
  <2>11. QED BY <2>1, <2>7, <2>9, <2>10 DEF HandlersNest
<1>5. CASE Return
  <2> DEFINE n == Len(frames)
  <2>1. /\ isr' = isr /\ frames # <<>> /\ frames' = SubSeq(frames, 1, n - 1)
        /\ frames[n].at = "ended"
    BY <1>5 DEF Return, picVars, Top
  <2>2. DOMAIN frames' = DOMAIN frames \ {n} /\ \A i \in DOMAIN frames' : frames'[i] = frames[i]
    BY <1>1, <2>1, Returned
  <2>3. Active' = Active
    BY <2>1, <2>2 DEF Active
  <2>4. \A i \in Active : frames'[i] = frames[i]
    BY <2>2, <2>3 DEF Active
  <2>5. {frames'[i].level : i \in Active'} = {frames[i].level : i \in Active}
    BY <2>3, <2>4
  <2>6. QED BY <1>1, <2>1, <2>3, <2>4, <2>5 DEF HandlersNest
<1>6. CASE UNCHANGED <<frames, isr>>
  <2>1. Active' = Active
    BY <1>6 DEF Active
  <2>2. QED BY <1>1, <1>6, <2>1 DEF HandlersNest
<1>7. ASSUME UNCHANGED frames
      PROVE  isr' = isr
  <2>1. ASSUME NEW mask \in SUBSET Levels, SetMask(mask) PROVE isr' = isr
    BY <2>1 DEF SetMask, WriteMask
  <2>2. ASSUME NEW l \in Levels, Interrupt(l) PROVE FALSE
    <3> DEFINE f == [level |-> l, at |-> "entered"]
    <3>1. l \in {0, 1} /\ frames' = Append(frames, f)
      BY <1>1, <2>2 DEF Interrupt, Acknowledge, Pending
    <3>2. f \in HandlerFrames
      BY <3>1 DEF HandlerFrames, Places
    <3>3. DOMAIN frames' # DOMAIN frames
      BY <1>1, <3>1, <3>2, Entered
    <3>4. QED BY <1>7, <3>3
  <2>3. CASE EndOfInterrupt
    <3>1. frames # <<>> /\ Top.at # "ended" /\ GoOn("ended") /\ "ended" \in Places
      BY <2>3 DEF EndOfInterrupt, Handler, Places
    <3>2. frames'[Len(frames)] = [level |-> Top.level, at |-> "ended"]
          /\ Top = frames[Len(frames)]
      BY <1>1, <3>1, WentOn
    <3>3. frames'[Len(frames)].at = "ended"
      BY <3>2
    <3>4. QED BY <1>7, <3>1, <3>2, <3>3
  <2>4. CASE TickTimer \/ TickCounts
    BY <2>4 DEF TickTimer, TickCounts, Request, picVars
  <2>5. CASE UNCHANGED picVars
    BY <2>5 DEF picVars
  <2>6. CASE UNCHANGED vars
    BY <2>6 DEF vars, picVars
  <2>7. QED BY <2>1, <2>2, <2>3, <2>4, <2>5, <2>6, PicSteps
<1>8. QED BY <1>2, <1>3, <1>4, <1>5, <1>6, <1>7, FrameSteps DEF vars, guestVars

-----------------------------------------------------------------------------
(* Codes and scheduled interrupts. *)

\* A code and its interrupt are made together, by a push or by a reset that
\* drops what is buffered.
Pushed ==
  /\ made < MaxCodes /\ made' = made + 1
  /\ buffer' = Append(buffer, made') /\ dropped' = dropped
  /\ schedule' = Append(schedule, Delay)

Reset ==
  /\ made < MaxCodes /\ made' = made + 1
  /\ buffer' = <<made'>> /\ dropped' = dropped + Len(buffer)
  /\ schedule' = Append(schedule, Delay)

LEMMA CodeSteps ==
  ASSUME [Next]_vars, clockLow \in BOOLEAN
  PROVE  \/ UNCHANGED <<irr, frames>> /\ (Pushed \/ Reset)
         \/ ReadCode \/ TickCounts
         \/ UNCHANGED <<buffer, schedule, made, dropped>>
<1>1. ASSUME NEW h \in Hosts, PushCode(h) PROVE UNCHANGED <<irr, frames>> /\ Pushed
  BY <1>1 DEF PushCode, Pushed, picVars, guestVars
<1>2. CASE HoldKeyboard \/ ReleaseKeyboard
  <2>1. WriteControl(TRUE, ~clockLow) \/ WriteControl(FALSE, ~clockLow)
    BY <1>2 DEF HoldKeyboard, ReleaseKeyboard
  <2>2. ~(~clockLow /\ clockLow)
    OBVIOUS
  <2>3. QED BY <2>1, <2>2 DEF WriteControl
<1>3. ASSUME NEW bit6 \in BOOLEAN, ResetKeyboard(bit6)
      PROVE  \/ UNCHANGED <<irr, frames>> /\ Reset
             \/ UNCHANGED <<buffer, schedule, made, dropped>>
  <2>1. UNCHANGED <<irr, frames>> /\ WriteControl(FALSE, bit6)
    BY <1>3 DEF ResetKeyboard, picVars
  <2>2. CASE bit6 /\ clockLow
    BY <2>1, <2>2 DEF WriteControl, Reset
  <2>3. CASE ~(bit6 /\ clockLow)
    BY <2>1, <2>3 DEF WriteControl
  <2>4. QED BY <2>1, <2>2, <2>3
<1>4. CASE UNCHANGED kbVars
  BY <1>4 DEF kbVars
<1>5. CASE UNCHANGED vars
  BY <1>5 DEF vars, kbVars
<1>6. ASSUME NEW h \in Hosts, PushFinish(h)
      PROVE UNCHANGED <<buffer, schedule, made, dropped>>
  BY <1>6 DEF PushFinish
<1>7. QED
  BY <1>1, <1>2, <1>3, <1>4, <1>5, <1>6
     DEF Next, Emulator, Guest, Idle, SetMask, Interrupt, AllowNesting, EndOfInterrupt,
         Return, TickTimer, TickLooks

\* Tick counts the head of the schedule down, or takes it off.
LEMMA Counted ==
  ASSUME schedule \in Seq(1..Delay), TickCounts
  PROVE  /\ schedule' \in Seq(1..Delay)
         /\ Expired => schedule # <<>> /\ Len(schedule') = Len(schedule) - 1
         /\ ~Expired => Len(schedule') = Len(schedule)
         /\ UNCHANGED <<buffer, made, dropped, frames, lock>>
<1>1. UNCHANGED <<buffer, made, dropped, frames, lock>>
  BY DEF TickCounts
<1>2. CASE Expired
  <2>1. schedule # <<>> /\ schedule' = Tail(schedule)
    BY <1>2 DEF TickCounts, Expired, Counting
  <2>2. QED BY <1>1, <1>2, <2>1, HeadTailProperties
<1>3. CASE ~Expired /\ Counting
  <2>1. schedule # <<>> /\ ~(Head(schedule) <= 1)
        /\ schedule' = [schedule EXCEPT ![1] = schedule[1] - 1]
    BY <1>3 DEF TickCounts, Expired, Counting
  <2>2. 1 \in 1..Len(schedule) /\ schedule[1] \in 1..Delay /\ Head(schedule) = schedule[1]
    <3>1. Len(schedule) \in Nat \ {0}
      BY <2>1, EmptySeq
    <3>2. 1 \in 1..Len(schedule)
      BY <3>1
    <3>3. schedule \in [1..Len(schedule) -> 1..Delay]
      BY LenProperties
    <3>4. schedule[1] \in 1..Delay /\ Head(schedule) = schedule[1]
      BY <3>2, <3>3
    <3>5. QED BY <3>2, <3>4
  <2>3. schedule[1] - 1 \in 1..Delay
    BY <2>1, <2>2, KeyboardAssumption
  <2>4. QED BY <1>1, <1>3, <2>1, <2>2, <2>3, ExceptSeq
<1>4. CASE ~Expired /\ ~Counting
  <2>1. schedule' = schedule
    BY <1>4 DEF TickCounts
  <2>2. QED BY <1>1, <1>4, <2>1
<1>5. QED BY <1>2, <1>3, <1>4

LEMMA CodesKept ==
  ASSUME KeyboardInv, [Next]_vars
  PROVE  /\ buffer' \in Seq(1..MaxCodes) /\ schedule' \in Seq(1..Delay)
         /\ made' \in 0..MaxCodes /\ dropped' \in Nat
         /\ CodesCounted'
<1>1. /\ buffer \in Seq(1..MaxCodes) /\ schedule \in Seq(1..Delay)
      /\ made \in 0..MaxCodes /\ dropped \in Nat /\ Len(buffer) \in Nat
      /\ Len(buffer) + dropped <= made /\ clockLow \in BOOLEAN
      /\ MaxCodes \in Nat /\ Delay \in 1..Delay
  BY LenProperties, KeyboardAssumption DEF KeyboardInv, KeyboardType, CodesCounted
<1>2. ASSUME made < MaxCodes, made' = made + 1
      PROVE  made' \in 1..MaxCodes /\ made' \in 0..MaxCodes
  BY <1>1, <1>2
<1>3. CASE Pushed
  <2>1. buffer' \in Seq(1..MaxCodes) /\ Len(buffer') = Len(buffer) + 1
    BY <1>1, <1>2, <1>3, AppendProperties DEF Pushed
  <2>2. schedule' \in Seq(1..Delay)
    BY <1>1, <1>3, AppendProperties DEF Pushed
  <2>3. made' = made + 1 /\ dropped' = dropped /\ made' \in 0..MaxCodes
    BY <1>2, <1>3 DEF Pushed
  <2>4. QED BY <1>1, <2>1, <2>2, <2>3 DEF CodesCounted
<1>4. CASE Reset
  <2>1. made' \in 1..MaxCodes /\ made' = made + 1 /\ made' \in 0..MaxCodes
    BY <1>2, <1>4 DEF Reset
  <2>2. buffer' \in Seq(1..MaxCodes) /\ Len(buffer') = 1
    BY <1>4, <2>1 DEF Reset
  <2>3. schedule' \in Seq(1..Delay)
    BY <1>1, <1>4, AppendProperties DEF Reset
  <2>4. dropped' = dropped + Len(buffer)
    BY <1>4 DEF Reset
  <2>5. QED BY <1>1, <2>1, <2>2, <2>3, <2>4 DEF CodesCounted
<1>5. CASE ReadCode
  <2>1. /\ buffer' = IF buffer = <<>> THEN buffer ELSE Tail(buffer)
        /\ UNCHANGED <<schedule, made, dropped>>
    BY <1>5 DEF ReadCode
  <2>2. buffer' \in Seq(1..MaxCodes) /\ Len(buffer') <= Len(buffer) /\ Len(buffer') \in Nat
    <3>1. CASE buffer = <<>>
      BY <1>1, <2>1, <3>1
    <3>2. CASE buffer # <<>>
      <4>1. buffer' = Tail(buffer) /\ Len(buffer) \in Nat \ {0}
        BY <1>1, <2>1, <3>2, EmptySeq
      <4>2. Tail(buffer) \in Seq(1..MaxCodes) /\ Len(Tail(buffer)) = Len(buffer) - 1
        BY <1>1, <3>2, HeadTailProperties
      <4>3. QED BY <4>1, <4>2
    <3>3. QED BY <3>1, <3>2
  <2>3. QED BY <1>1, <2>1, <2>2 DEF CodesCounted
<1>6. CASE TickCounts
  BY <1>1, <1>6, Counted DEF CodesCounted
<1>7. CASE UNCHANGED <<buffer, schedule, made, dropped>>
  BY <1>1, <1>7 DEF CodesCounted
<1>8. QED BY <1>1, <1>3, <1>4, <1>5, <1>6, <1>7, CodeSteps

LEMMA FlagsKept ==
  ASSUME KeyboardInv, [Next]_vars
  PROVE  /\ pending' \in BOOLEAN /\ clear' \in BOOLEAN /\ clockLow' \in BOOLEAN
         /\ lock' \in Hosts \cup {NoOne}
         /\ cpu' \in {"instruction", "tick", "locked"}
         /\ enabled' \in BOOLEAN /\ timer' \in 0..MaxTimer
<1>1. /\ pending \in BOOLEAN /\ clear \in BOOLEAN /\ clockLow \in BOOLEAN
      /\ lock \in Hosts \cup {NoOne}
      /\ cpu \in {"instruction", "tick", "locked"}
      /\ enabled \in BOOLEAN /\ timer \in 0..MaxTimer
  BY DEF KeyboardInv, KeyboardType
<1>2. ASSUME NEW h \in Hosts, PushCode(h) \/ PushFinish(h)
      PROVE  lock' \in {h, NoOne} /\ pending' \in {TRUE, pending}
             /\ UNCHANGED <<clear, clockLow, cpu, enabled, timer>>
  BY <1>2 DEF PushCode, PushFinish, guestVars
<1>3. ASSUME NEW bit7 \in BOOLEAN, NEW bit6 \in BOOLEAN, WriteControl(bit7, bit6)
      PROVE  lock' = lock /\ pending' \in BOOLEAN /\ clear' \in BOOLEAN
             /\ clockLow' \in BOOLEAN
  <2>1. lock' = lock /\ clear' = bit7 /\ clockLow' = ~bit6 /\ pending' \in {TRUE, pending}
    BY <1>3 DEF WriteControl
  <2>2. QED BY <1>1, <2>1
<1>4. CASE HoldKeyboard \/ ReleaseKeyboard
  <2>1. WriteControl(TRUE, ~clockLow) \/ WriteControl(FALSE, ~clockLow)
    BY <1>4 DEF HoldKeyboard, ReleaseKeyboard
  <2>2. cpu' = "tick" /\ UNCHANGED <<enabled, timer>>
    BY <1>4 DEF HoldKeyboard, ReleaseKeyboard, Handler, Instruction
  <2>3. QED BY <1>1, <1>3, <2>1, <2>2
<1>5. ASSUME NEW bit6 \in BOOLEAN, ResetKeyboard(bit6)
      PROVE  /\ lock' = lock /\ pending' \in BOOLEAN /\ clear' \in BOOLEAN
             /\ clockLow' \in BOOLEAN /\ cpu' = "tick" /\ UNCHANGED <<enabled, timer>>
  BY <1>3, <1>5 DEF ResetKeyboard, Instruction
<1>6. CASE TickTimer
  <2>1. timer' = timer + 1 /\ timer < MaxTimer /\ UNCHANGED <<kbVars, cpu, enabled>>
    BY <1>6 DEF TickTimer
  <2>2. timer' \in 0..MaxTimer
    BY <1>1, <2>1, KeyboardAssumption
  <2>3. QED BY <1>1, <2>1, <2>2 DEF kbVars
<1>7. CASE TickLooks
  <2>1. cpu' \in {"locked", "instruction"} /\ UNCHANGED <<kbVars, enabled, timer>>
    BY <1>7 DEF TickLooks
  <2>2. QED BY <1>1, <2>1 DEF kbVars
<1>8. CASE TickCounts
  <2>1. /\ cpu' = "instruction" /\ UNCHANGED <<clear, clockLow, lock, enabled, timer>>
        /\ pending' = (schedule' # <<>>)
    BY <1>8 DEF TickCounts
  <2>2. QED BY <1>1, <2>1
<1>9. CASE ReadCode
  BY <1>1, <1>9 DEF ReadCode, Handler, Instruction
<1>10. ASSUME UNCHANGED <<kbVars, timer>>, cpu' = "tick", enabled' \in BOOLEAN
       PROVE  /\ pending' \in BOOLEAN /\ clear' \in BOOLEAN /\ clockLow' \in BOOLEAN
              /\ lock' \in Hosts \cup {NoOne}
              /\ cpu' \in {"instruction", "tick", "locked"}
              /\ enabled' \in BOOLEAN /\ timer' \in 0..MaxTimer
  BY <1>1, <1>10 DEF kbVars
<1>11. CASE Idle \/ AllowNesting \/ EndOfInterrupt \/ Return
  <2>1. UNCHANGED <<kbVars, timer>> /\ cpu' = "tick"
    BY <1>11 DEF Idle, AllowNesting, EndOfInterrupt, Return, Handler, Instruction
  <2>2. enabled' \in BOOLEAN
    BY <1>11 DEF Idle, AllowNesting, EndOfInterrupt, Return
  <2>3. QED BY <1>10, <2>1, <2>2
<1>12. ASSUME NEW mask \in SUBSET Levels, SetMask(mask)
       PROVE  UNCHANGED <<kbVars, timer, enabled>> /\ cpu' = "tick"
  BY <1>12 DEF SetMask, Instruction
<1>13. ASSUME NEW l \in Levels, Interrupt(l)
       PROVE  UNCHANGED <<kbVars, timer>> /\ cpu' = "tick" /\ enabled' = FALSE
  BY <1>13 DEF Interrupt, Instruction
<1>14. CASE UNCHANGED vars
  BY <1>1, <1>14 DEF vars, kbVars, guestVars
<1>15. CASE \E mask \in SUBSET Levels : SetMask(mask)
  BY <1>1, <1>10, <1>12, <1>15
<1>16. CASE \E l \in Levels : Interrupt(l)
  BY <1>10, <1>13, <1>16
<1>17. CASE \E h \in Hosts : PushCode(h) \/ PushFinish(h)
  BY <1>1, <1>2, <1>17
<1>18. CASE \E bit6 \in BOOLEAN : ResetKeyboard(bit6)
  BY <1>1, <1>5, <1>18
<1>19. QED
  BY <1>4, <1>6, <1>7, <1>8, <1>9, <1>11, <1>14, <1>15, <1>16, <1>17, <1>18
     DEF Next, Emulator, Guest

\* Whoever schedules an interrupt announces it before the lock is free again,
\* and what withdraws the announcement has seen an empty schedule.
LEMMA StaysAnnounced ==
  ASSUME KeyboardInv, [Next]_vars
  PROVE  Announced'
<1>1. Announced
  BY DEF KeyboardInv
<1>2. ASSUME NEW h \in Hosts, PushCode(h) PROVE Announced'
  BY <1>2, KeyboardAssumption DEF PushCode, Announced
<1>3. ASSUME NEW h \in Hosts, PushFinish(h) PROVE Announced'
  BY <1>3 DEF PushFinish, Announced
<1>4. ASSUME NEW bit7, NEW bit6, WriteControl(bit7, bit6) PROVE Announced'
  <2>1. CASE bit6 /\ clockLow
    BY <1>4, <2>1 DEF WriteControl, Announced
  <2>2. CASE ~(bit6 /\ clockLow)
    BY <1>1, <1>4, <2>2 DEF WriteControl, Announced
  <2>3. QED BY <2>1, <2>2
<1>5. CASE \/ HoldKeyboard \/ ReleaseKeyboard
           \/ \E bit6 \in BOOLEAN : ResetKeyboard(bit6)
  BY <1>4, <1>5 DEF HoldKeyboard, ReleaseKeyboard, ResetKeyboard
<1>6. CASE TickCounts
  BY <1>6 DEF TickCounts, Announced
<1>7. CASE ReadCode
  BY <1>1, <1>7 DEF ReadCode, Announced
<1>8. CASE UNCHANGED kbVars
  BY <1>1, <1>8 DEF kbVars, Announced
<1>9. QED
  BY <1>2, <1>3, <1>5, <1>6, <1>7, <1>8
     DEF Next, Emulator, Guest, Idle, SetMask, Interrupt, AllowNesting, EndOfInterrupt,
         Return, TickTimer, TickLooks, vars

-----------------------------------------------------------------------------
(* Every interrupt has its code. *)

\* The interrupts of the keyboard that are on their way, but for the schedule:
\* at most one is requested, and at most one in a handler that is yet to read.
Requested == Count(1 \in irr)
Awaited == Count(CodesAwaited # {})

LEMMA CountValues ==
  /\ \A b \in BOOLEAN : Count(b) \in {0, 1}
  /\ Count(TRUE) = 1 /\ Count(FALSE) = 0
BY DEF Count

\* A code is only awaited by the innermost handler of the keyboard's level.
LEMMA OneAwaits ==
  ASSUME KeyboardInv, Handler(1, "entered")
  PROVE  CodesAwaited = {Len(frames)}
<1> DEFINE n == Len(frames)
<1>1. frames # <<>> /\ Top = [level |-> 1, at |-> "entered"] /\ Top = frames[n]
  BY DEF Handler, Top
<1>2. Top.at # "ended" /\ Top.level = 1
  BY <1>1
<1>3. n \in Active /\ \A i \in Active : i # n => Top.level < frames[i].level
  BY <1>1, <1>2, InnermostHandler
<1>4. ASSUME NEW i \in CodesAwaited PROVE i = n
  <2>1. i \in DOMAIN frames /\ frames[i] = [level |-> 1, at |-> "entered"]
    BY DEF CodesAwaited
  <2>2. frames[i].level = 1 /\ frames[i].at # "ended"
    BY <2>1
  <2>3. i \in Active
    BY <2>1, <2>2 DEF Active
  <2>4. ~(1 < 1)
    OBVIOUS
  <2>5. QED BY <1>2, <1>3, <2>2, <2>3, <2>4
<1>5. n \in CodesAwaited
  BY <1>1, <1>3 DEF CodesAwaited, Active
<1>6. QED BY <1>4, <1>5

LEMMA AwaitedKept ==
  ASSUME KeyboardInv, [Next]_vars, ~ReadCode
  PROVE  \/ Interrupt(1)
         \/ CodesAwaited' = CodesAwaited
<1>1. frames \in Seq(HandlerFrames) /\ irr \subseteq {0, 1}
  BY DEF KeyboardInv, KeyboardType
<1>2. ASSUME NEW l \in Levels, Interrupt(l), l # 1
      PROVE  CodesAwaited' = CodesAwaited
  <2> DEFINE f == [level |-> l, at |-> "entered"]
  <2>1. l = 0 /\ frames' = Append(frames, f)
    BY <1>1, <1>2 DEF Interrupt, Acknowledge, Pending
  <2>2. f \in HandlerFrames /\ f # [level |-> 1, at |-> "entered"]
    <3>1. f.level = 0
      BY <2>1
    <3>2. f # [level |-> 1, at |-> "entered"]
      BY <3>1
    <3>3. QED BY <2>1, <3>2 DEF HandlerFrames, Places
  <2>3. /\ DOMAIN frames' = DOMAIN frames \cup {Len(frames) + 1}
        /\ Len(frames) + 1 \notin DOMAIN frames
        /\ frames'[Len(frames) + 1] = f
        /\ \A i \in DOMAIN frames : frames'[i] = frames[i]
    BY <1>1, <2>1, <2>2, Entered
  <2> HIDE DEF f
  <2>4. QED BY <2>2, <2>3 DEF CodesAwaited
<1>3. ASSUME frames # <<>>, NEW at \in Places \ {"entered"}, GoOn(at),
             Top # [level |-> 1, at |-> "entered"]
      PROVE  CodesAwaited' = CodesAwaited
  <2>1. /\ DOMAIN frames' = DOMAIN frames /\ Top = frames[Len(frames)]
        /\ frames'[Len(frames)] = [level |-> Top.level, at |-> at]
        /\ \A i \in DOMAIN frames : i # Len(frames) => frames'[i] = frames[i]
    BY <1>1, <1>3, WentOn
  <2>2. frames'[Len(frames)].at = at
    BY <2>1
  <2>3. frames'[Len(frames)] # [level |-> 1, at |-> "entered"]
    BY <1>3, <2>2
  <2>4. QED BY <1>3, <2>1, <2>3 DEF CodesAwaited
<1>4. CASE HoldKeyboard \/ ReleaseKeyboard \/ EndOfInterrupt
  <2>1. frames # <<>> /\ \E at \in Places \ {"entered"} : GoOn(at)
    BY <1>4 DEF HoldKeyboard, ReleaseKeyboard, EndOfInterrupt, Handler, Places
  <2>2. \/ Top = [level |-> 0, at |-> "entered"]
        \/ \E at \in {"read", "held", "released"} : Top = [level |-> 1, at |-> at]
    BY <1>4 DEF HoldKeyboard, ReleaseKeyboard, EndOfInterrupt, Handler
  <2>3. Top.level = 0 \/ Top.at # "entered"
    BY <2>2
  <2>4. Top # [level |-> 1, at |-> "entered"]
    BY <2>3
  <2>5. QED BY <1>3, <2>1, <2>4
<1>5. CASE Return
  <2>1. /\ frames # <<>> /\ frames' = SubSeq(frames, 1, Len(frames) - 1)
        /\ frames[Len(frames)].at = "ended"
    BY <1>5 DEF Return, Top
  <2>2. /\ DOMAIN frames' = DOMAIN frames \ {Len(frames)}
        /\ \A i \in DOMAIN frames' : frames'[i] = frames[i]
    BY <1>1, <2>1, Returned
  <2>3. frames[Len(frames)] # [level |-> 1, at |-> "entered"]
    BY <2>1
  <2>4. QED BY <2>2, <2>3 DEF CodesAwaited
<1>6. CASE UNCHANGED frames
  BY <1>6 DEF CodesAwaited
<1>7. QED BY <1>2, <1>3, <1>4, <1>5, <1>6, FrameSteps DEF vars, guestVars

LEMMA RequestedKept ==
  ASSUME KeyboardInv, [Next]_vars, 1 \in irr', 1 \notin irr
  PROVE  TickCounts /\ Expired
<1>1. CASE UNCHANGED picVars
  BY <1>1 DEF picVars
<1>2. ASSUME NEW mask \in SUBSET Levels, SetMask(mask) PROVE FALSE
  BY <1>2 DEF SetMask, WriteMask
<1>3. ASSUME NEW l \in Levels, Interrupt(l) PROVE FALSE
  BY <1>3 DEF Interrupt, Acknowledge
<1>4. ~EndOfInterrupt
  BY DEF EndOfInterrupt, WriteEoi
<1>5. ~TickTimer
  BY DEF TickTimer, Request
<1>6. CASE TickCounts
  BY <1>6 DEF TickCounts, picVars
<1>7. QED BY <1>1, <1>2, <1>3, <1>4, <1>5, <1>6, PicSteps DEF vars

LEMMA CodesSuffice ==
  ASSUME KeyboardInv, [Next]_vars
  PROVE  EveryIrqHasItsCode'
<1>1. /\ Len(schedule) + Requested + Awaited <= Len(buffer) + dropped
      /\ schedule \in Seq(1..Delay) /\ Len(schedule) \in Nat
      /\ buffer \in Seq(1..MaxCodes) /\ Len(buffer) \in Nat /\ dropped \in Nat
      /\ clockLow \in BOOLEAN
  BY LenProperties
     DEF KeyboardInv, KeyboardType, EveryIrqHasItsCode, Requested, Awaited
<1>2. /\ Requested \in {0, 1} /\ Awaited \in {0, 1}
      /\ Requested' \in {0, 1} /\ Awaited' \in {0, 1}
  BY DEF Requested, Awaited, Count
<1>3. SUFFICES Len(schedule') + Requested' + Awaited' <= Len(buffer') + dropped'
  BY DEF EveryIrqHasItsCode, Requested, Awaited
<1>4. Requested' <= Requested \/ (TickCounts /\ Expired)
  <2>1. CASE 1 \in irr' /\ 1 \notin irr
    BY <2>1, RequestedKept
  <2>2. CASE 1 \notin irr'
    BY <1>2, <2>2 DEF Requested, Count
  <2>3. CASE 1 \in irr
    BY <1>2, <2>3 DEF Requested, Count
  <2>4. QED BY <2>1, <2>2, <2>3
<1>5. Awaited' = Awaited \/ ReadCode \/ Interrupt(1)
  BY AwaitedKept DEF Awaited
<1>6. CASE Interrupt(1)
  <2>1. 1 \in irr /\ 1 \notin irr' /\ UNCHANGED kbVars
    BY <1>6 DEF Interrupt, Acknowledge, Pending
  <2>2. Requested = 1 /\ Requested' = 0
    BY <2>1 DEF Requested, Count
  <2>3. UNCHANGED <<schedule, buffer, dropped>>
    BY <2>1 DEF kbVars
  <2>4. QED BY <1>1, <1>2, <2>2, <2>3
<1>7. CASE ReadCode
  <2>1. /\ Handler(1, "entered") /\ GoOn("read") /\ UNCHANGED <<irr, schedule, dropped>>
        /\ buffer' = IF buffer = <<>> THEN buffer ELSE Tail(buffer)
    BY <1>7 DEF ReadCode, picVars
  <2>2. CodesAwaited = {Len(frames)}
    BY <2>1, OneAwaits
  <2>3. CodesAwaited' = {}
    <3>1. frames \in Seq(HandlerFrames) /\ frames # <<>> /\ "read" \in Places
      BY <2>1 DEF KeyboardInv, KeyboardType, Handler, Places
    <3>2. /\ DOMAIN frames' = DOMAIN frames
          /\ frames'[Len(frames)] = [level |-> Top.level, at |-> "read"]
          /\ \A i \in DOMAIN frames : i # Len(frames) => frames'[i] = frames[i]
      BY <2>1, <3>1, WentOn
    <3>3. frames'[Len(frames)].at = "read"
      BY <3>2
    <3>4. frames'[Len(frames)] # [level |-> 1, at |-> "entered"]
      BY <3>3
    <3>5. \A i \in DOMAIN frames : i # Len(frames) =>
            frames'[i] # [level |-> 1, at |-> "entered"]
      BY <2>2, <3>2 DEF CodesAwaited
    <3>6. QED BY <3>2, <3>4, <3>5 DEF CodesAwaited
  <2>4. Awaited = 1 /\ Awaited' = 0
    BY <2>2, <2>3 DEF Awaited, Count
  <2>5. Len(buffer') \in Nat /\ Len(buffer') >= Len(buffer) - 1
    <3>1. CASE buffer = <<>>
      BY <1>1, <2>1, <3>1
    <3>2. CASE buffer # <<>>
      <4>1. Len(Tail(buffer)) = Len(buffer) - 1 /\ Len(buffer) \in Nat \ {0}
        BY <1>1, <3>2, HeadTailProperties, EmptySeq
      <4>2. QED BY <2>1, <3>2, <4>1
    <3>3. QED BY <3>1, <3>2
  <2>6. Requested' = Requested
    BY <2>1 DEF Requested
  <2>7. QED BY <1>1, <1>2, <2>1, <2>4, <2>5, <2>6
<1>8. CASE TickCounts
  <2>1. /\ UNCHANGED <<buffer, dropped>> /\ Len(schedule') \in Nat
        /\ Expired => Len(schedule') = Len(schedule) - 1
        /\ ~Expired => Len(schedule') = Len(schedule)
    BY <1>1, <1>8, Counted, LenProperties
  <2>2. Awaited' = Awaited
    <3>1. UNCHANGED frames
      BY <1>8 DEF TickCounts
    <3>2. QED BY <3>1 DEF Awaited, CodesAwaited
  <2>3. CASE Expired
    BY <1>1, <1>2, <2>1, <2>2, <2>3
  <2>4. CASE ~Expired
    BY <1>1, <1>2, <1>4, <2>1, <2>2, <2>4
  <2>5. QED BY <2>3, <2>4
<1>9. CASE UNCHANGED <<irr, frames>> /\ (Pushed \/ Reset)
  <2>1. Requested' = Requested /\ Awaited' = Awaited
    BY <1>9 DEF Requested, Awaited, CodesAwaited
  <2>2. Len(schedule') = Len(schedule) + 1
    BY <1>1, <1>9, AppendProperties, KeyboardAssumption DEF Pushed, Reset
  <2>3. Len(buffer') + dropped' = Len(buffer) + dropped + 1
    <3>1. CASE Pushed
      <4>1. made' \in 1..MaxCodes
        BY <3>1, KeyboardAssumption DEF Pushed, KeyboardInv, KeyboardType
      <4>2. Len(buffer') = Len(buffer) + 1 /\ dropped' = dropped
        BY <1>1, <3>1, <4>1, AppendProperties DEF Pushed
      <4>3. QED BY <1>1, <4>2
    <3>2. CASE Reset
      <4>1. Len(buffer') = 1 /\ dropped' = dropped + Len(buffer)
        BY <3>2 DEF Reset
      <4>2. QED BY <1>1, <4>1
    <3>3. QED BY <1>9, <3>1, <3>2
  <2>4. QED BY <1>1, <1>2, <2>1, <2>2, <2>3
<1>10. CASE UNCHANGED <<buffer, schedule, made, dropped>> /\ ~ReadCode /\ ~TickCounts
            /\ ~Interrupt(1)
  BY <1>1, <1>2, <1>4, <1>5, <1>10
<1>11. QED BY <1>1, <1>6, <1>7, <1>8, <1>9, <1>10, CodeSteps

-----------------------------------------------------------------------------
(* The invariant, and what it is for. *)

LEMMA InvAtStart == Init => KeyboardInv
<1> SUFFICES ASSUME Init PROVE KeyboardInv
  OBVIOUS
<1>1. PicTypeOK
  BY DEF Init, PicInit, PicTypeOK
<1>2. buffer = <<>> /\ schedule = <<>> /\ frames = <<>> /\ isr = {} /\ irr = {}
      /\ made = 0 /\ dropped = 0
  BY DEF Init, PicInit
<1>3. KeyboardType
  <2>1. /\ buffer \in Seq(1..MaxCodes) /\ schedule \in Seq(1..Delay)
        /\ frames \in Seq(HandlerFrames)
    BY <1>2
  <2>2. 0 \in 0..MaxCodes /\ 0 \in 0..MaxTimer
    BY KeyboardAssumption
  <2>3. QED BY <2>1, <2>2 DEF Init, PicInit, KeyboardType
<1>4. CodesCounted
  BY <1>2 DEF CodesCounted
<1>5. Announced
  BY <1>2 DEF Announced
<1>6. DOMAIN frames = {}
  BY <1>2
<1>7. HandlersNest
  BY <1>2, <1>6 DEF HandlersNest, Active
<1>8. EveryIrqHasItsCode
  <2>1. CodesAwaited = {} /\ 1 \notin irr
    BY <1>2, <1>6 DEF CodesAwaited
  <2>2. Count(1 \in irr) = 0 /\ Count(CodesAwaited # {}) = 0
    BY <2>1 DEF Count
  <2>3. Len(schedule) = 0 /\ Len(buffer) = 0
    BY <1>2
  <2>4. QED BY <1>2, <2>2, <2>3 DEF EveryIrqHasItsCode
<1>9. QED BY <1>1, <1>3, <1>4, <1>5, <1>7, <1>8 DEF KeyboardInv

LEMMA KeyboardInvariant == Spec => []KeyboardInv
<1>1. ASSUME KeyboardInv, [Next]_vars PROVE KeyboardInv'
  <2>1. PicTypeOK'
    BY <1>1, PicAllows, PicTypeKept DEF KeyboardInv
  <2>2. KeyboardType'
    BY <1>1, LinesKept, FramesKept, CodesKept, FlagsKept DEF KeyboardType
  <2>3. QED
    BY <1>1, <2>1, <2>2, CodesKept, StaysAnnounced, HandlersStayNested, CodesSuffice
       DEF KeyboardInv
<1>2. KeyboardInv /\ [Next]_vars => KeyboardInv'
  BY <1>1
<1>3. QED BY <1>2, InvAtStart, PTL DEF Spec

\* Scheduled interrupts are announced by the flag that Tick reads without the
\* lock, whenever the lock is free (keyboard.py:31-34).
THEOREM KeyboardAnnounces == Spec => []ScheduleAnnounced
<1>1. ASSUME KeyboardInv PROVE ScheduleAnnounced
  <2>1. PicTypeOK /\ KeyboardType /\ CodesCounted /\ Announced
    BY <1>1 DEF KeyboardInv
  <2>2. dropped \in 0..MaxCodes
    <3>1. /\ Len(buffer) \in Nat /\ dropped \in Nat /\ made \in 0..MaxCodes
          /\ Len(buffer) + dropped <= made
      BY <2>1, LenProperties DEF KeyboardType, CodesCounted
    <3>2. QED BY <3>1, KeyboardAssumption
  <2>3. \A i \in DOMAIN frames : frames[i].level \in {0, 1}
    <3>1. frames \in [1..Len(frames) -> HandlerFrames] /\ DOMAIN frames = 1..Len(frames)
      BY <2>1, LenProperties DEF KeyboardType
    <3>2. QED BY <3>1 DEF HandlerFrames
  <2>4. TypeOK
    BY <2>1, <2>2, <2>3 DEF TypeOK, KeyboardType
  <2>5. lock = NoOne /\ schedule # <<>> => pending
    BY <2>1 DEF Announced
  <2>6. QED BY <2>4, <2>5 DEF ScheduleAnnounced
<1>2. QED BY <1>1, KeyboardInvariant, PTL

\* No handler is entered for a code it will not find, however pushes, resets
\* and nested handlers interleave (keyboard.py:42-49, :71-79).
THEOREM IrqsHaveCodes == Spec => []EveryIrqHasItsCode
<1>1. KeyboardInv => EveryIrqHasItsCode
  BY DEF KeyboardInv
<1>2. QED BY <1>1, KeyboardInvariant, PTL

\* The guest, the timer and the keyboard use the interrupt controller only as
\* Pic.tla lets it be used (i8088.py's Tick, keyboard.py, i8253.py).
THEOREM KeyboardUsesPic == Spec => PicSpec
<1>1. Init => PicInit
  BY DEF Init
<1>2. QED BY <1>1, PicAllows, PTL DEF Spec, PicSpec

\* So what was proved of the controller alone holds in this machine: its
\* handlers are fully nested and no request is lost (i8259.py:62-71, :110-118).
THEOREM ControllerStaysNested == Spec => []FullyNested /\ RequestsKept
BY KeyboardUsesPic, PicFullyNested, PicRequestsKept, PTL
=============================================================================
